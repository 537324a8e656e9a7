----------------------------- MODULE NodeWrites -----------------------------
(***************************************************************************)
(* The write paths of one node on one document: PutDocument and MergeRemote *)
(* of src/src/engine/node_engine.cpp down through StorageEngine::PutRaw,   *)
(* the digest cache they maintain, and the replay of the ledger at boot.   *)
(*                                                                         *)
(* Requests run on threads of their own (HTTP connections, peer            *)
(* connections, the gossip loop).  Each reads the row, computes, appends   *)
(* to the ledger, writes the row and notes the digest; each of these takes *)
(* a lock of its own and no lock spans two of them, so a step here is one  *)
(* such critical section.  Documents are those of Replication: the stamp   *)
(* of the write each field shows.                                          *)
(***************************************************************************)
EXTENDS Naturals, Sequences, FiniteSetsExt

CONSTANTS
    Threads, Fields,
    LocalStamps,   \* the stamps the node's clock can issue
    RemoteDocs,    \* the documents peers send
    MaxRequests,   \* how many requests arrive
    MaxIoErrors    \* how many of them fail to reach the backend

Absent == [f \in Fields |-> 0]

ASSUME NodeWritesAssumption ==
    /\ IsFiniteSet(Fields) /\ Fields # {}
    /\ LocalStamps \subseteq Nat \ {0}
    /\ RemoteDocs \subseteq [Fields -> Nat] \ {Absent}
    /\ {MaxRequests, MaxIoErrors} \subseteq Nat

VARIABLES
    ledger,    \* the records of this document in the write-ahead log
    row,       \* the document the backend holds
    cache,     \* what digest_cache_ says of it: {} or the one fingerprint
    clk,       \* the largest stamp the clock has produced or observed
    req,       \* the request each thread is serving
    scanned,   \* the row LocalDigest has scanned and not yet looked up: {} or one
    requests, ioErrors,  \* how many more may come
    acked,     \* history: the field writes reported as done
    raced      \* history: a request read the row while another was at work

vars == <<ledger, row, cache, clk, req, scanned, requests, ioErrors, acked, raced>>

Merge(a, b) == [f \in Fields |-> IF b[f] > a[f] THEN b[f] ELSE a[f]]

\* The places of the PUT records, and the document of the last one.
Puts == {i \in DOMAIN ledger : ledger[i].type = "put"}

LastPut == ledger[Max(Puts)].doc

None == [pc |-> "none"]

Init ==
    /\ ledger = <<>>
    /\ row = Absent
    /\ cache = {}
    /\ clk = 0
    /\ req = [t \in Threads |-> None]
    /\ scanned = {}
    /\ requests = MaxRequests
    /\ ioErrors = MaxIoErrors
    /\ acked = {}
    /\ raced = FALSE

\* Thread t goes on with request r.
Continue(t, r) == req' = [req EXCEPT ![t] = r]

\* A read of the row by thread t races when another thread has read it and has
\* not yet returned.
InFlight == {"read", "stamped", "appended", "written"}

NoteRace(t) ==
    raced' = (raced \/ \E u \in Threads \ {t} : req[u].pc \in InFlight)

-----------------------------------------------------------------------------
(* PutDocument up to PutRaw *)

\* GetRaw of the existing document.
PutDocument(t, S) ==
    /\ requests > 0
    /\ req[t] = None
    /\ Continue(t, [pc |-> "read", previous |-> row, fields |-> S])
    /\ NoteRace(t)
    /\ requests' = requests - 1
    /\ UNCHANGED <<ledger, row, cache, clk, scanned, ioErrors, acked>>

\* Now, and ApplyJsonUpdate of the document that was read: the fields the
\* request changes take the stamp.
StampUpdate(t) ==
    /\ req[t].pc = "read"
    /\ \E s \in LocalStamps :
          /\ s > clk
          /\ clk' = s
          /\ Continue(t, [pc |-> "stamped",
                          changes |-> {<<f, s>> : f \in req[t].fields},
                          doc |-> [f \in Fields |-> IF f \in req[t].fields THEN s
                                                    ELSE req[t].previous[f]]])
    /\ UNCHANGED <<ledger, row, cache, scanned, requests, ioErrors, acked, raced>>

-----------------------------------------------------------------------------
(* MergeRemote up to PutRaw *)

\* Observe comes before the read: the clock takes the largest of its own stamp
\* and those of the document.
MergeRemote(t, d) ==
    /\ requests > 0
    /\ req[t] = None
    /\ clk' \in {clk} \cup {d[f] : f \in Fields}
    /\ clk' >= clk /\ \A f \in Fields : clk' >= d[f]
    /\ Continue(t, [pc |-> "observed", remote |-> d])
    /\ requests' = requests - 1
    /\ UNCHANGED <<ledger, row, cache, scanned, ioErrors, acked, raced>>

\* Mutant: a document that is already there is not merged, only overwritten.
MergeExistingOverwrites(t) ==
    /\ req[t].pc = "observed"
    /\ LET d == req[t].remote IN
       Continue(t, [pc |-> "stamped", changes |-> {<<f, d[f]>> : f \in Fields}, doc |-> d])
    /\ NoteRace(t)
    /\ UNCHANGED <<ledger, row, cache, clk, scanned, requests, ioErrors, acked>>

\* GetRaw and Merge.
MergeExisting(t) ==
    /\ req[t].pc = "observed"
    /\ LET d == req[t].remote IN
       Continue(t, [pc |-> "stamped", changes |-> {<<f, d[f]>> : f \in Fields},
                    doc |-> Merge(row, d)])
    /\ NoteRace(t)
    /\ UNCHANGED <<ledger, row, cache, clk, scanned, requests, ioErrors, acked>>

-----------------------------------------------------------------------------
(* PutRaw, NoteDigest *)

\* Mutant: an error of the append is ignored.
AppendPutErrorIgnored(t) ==
    /\ req[t].pc = "stamped"
    /\ ledger' \in {ledger, Append(ledger, [type |-> "put", doc |-> req[t].doc])}
    /\ Continue(t, [req[t] EXCEPT !.pc = "appended"])
    /\ UNCHANGED <<row, cache, clk, scanned, requests, ioErrors, acked, raced>>

\* The durability point.
AppendPut(t) ==
    /\ req[t].pc = "stamped"
    /\ ledger' = Append(ledger, [type |-> "put", doc |-> req[t].doc])
    /\ Continue(t, [req[t] EXCEPT !.pc = "appended"])
    /\ UNCHANGED <<row, cache, clk, scanned, requests, ioErrors, acked, raced>>

Materialise(t) ==
    /\ req[t].pc = "appended"
    /\ row' = req[t].doc
    /\ Continue(t, [req[t] EXCEPT !.pc = "written"])
    /\ UNCHANGED <<ledger, cache, clk, scanned, requests, ioErrors, acked, raced>>

\* The backend refuses the row: an ABORT record, and the request fails.
MaterialiseFails(t) ==
    /\ req[t].pc = "appended"
    /\ ioErrors > 0
    /\ ioErrors' = ioErrors - 1
    /\ ledger' = Append(ledger, [type |-> "abort"])
    /\ Continue(t, None)
    /\ UNCHANGED <<row, cache, clk, scanned, requests, acked, raced>>

\* Mutant: an entry that is there is left alone.
NoteDigestOnce(t) ==
    /\ req[t].pc = "written"
    /\ cache' = IF cache = {} THEN {req[t].doc} ELSE cache
    /\ acked' = acked \cup req[t].changes
    /\ Continue(t, None)
    /\ UNCHANGED <<ledger, row, clk, scanned, requests, ioErrors, raced>>

\* NoteDigest of the bytes this request wrote; the request returns OK.
NoteDigest(t) ==
    /\ req[t].pc = "written"
    /\ cache' = {req[t].doc}
    /\ acked' = acked \cup req[t].changes
    /\ Continue(t, None)
    /\ UNCHANGED <<ledger, row, clk, scanned, requests, ioErrors, raced>>

-----------------------------------------------------------------------------
(* LocalDigest: a scan, and then the cache under its lock. *)

ScanForDigest ==
    /\ scanned = {}
    /\ row # Absent
    /\ scanned' = {row}
    /\ UNCHANGED <<ledger, row, cache, clk, req, requests, ioErrors, acked, raced>>

FillDigest ==
    /\ scanned # {}
    /\ cache' = IF cache = {} THEN scanned ELSE cache
    /\ scanned' = {}
    /\ UNCHANGED <<ledger, row, clk, req, requests, ioErrors, acked, raced>>

-----------------------------------------------------------------------------

\* ReplayLedger: the last PUT wins over whatever the backend kept.
ReplayLedger == IF Puts = {} THEN Absent ELSE LastPut

\* The process dies and boots: requests, the cache and unflushed pages are gone.
Reboot ==
    /\ row' = ReplayLedger
    /\ cache' = {}
    /\ req' = [t \in Threads |-> None]
    /\ scanned' = {}
    /\ UNCHANGED <<ledger, clk, requests, ioErrors, acked, raced>>

Next ==
    \/ \E t \in Threads, S \in SUBSET Fields \ {{}} : PutDocument(t, S)
    \/ \E t \in Threads : StampUpdate(t)
    \/ \E t \in Threads, d \in RemoteDocs : MergeRemote(t, d)
    \/ \E t \in Threads : MergeExisting(t)
    \/ \E t \in Threads : AppendPut(t)
    \/ \E t \in Threads : Materialise(t)
    \/ \E t \in Threads : MaterialiseFails(t)
    \/ \E t \in Threads : NoteDigest(t)
    \/ ScanForDigest
    \/ FillDigest
    \/ Reboot

Spec == Init /\ [][Next]_vars

-----------------------------------------------------------------------------
(* Properties *)

\* "The reverse order would let a crash leave a materialised row the ledger
\* never attested to" (storage_engine.cpp:268-270): every row is some PUT.
RowIsAttested == row # Absent => \E i \in Puts : ledger[i].doc = row

\* The writes reported as done show in document d.
Shows(d) == \A w \in acked : d[w[1]] >= w[2]

\* As long as no two requests overlap on the document, a write reported as
\* done is in the row and in the last PUT, hence survives any crash, whatever
\* failed in between.
AckedWritesKept ==
    ~raced => /\ Shows(row)
              /\ Puts # {} => Shows(LastPut)

\* As long as no two requests overlap, the digest says what the row holds
\* whenever no request is at work, with LocalDigest filling it meanwhile.
DigestIsFresh ==
    (~raced /\ \A t \in Threads : req[t].pc # "written") => cache \subseteq {row}

=============================================================================
