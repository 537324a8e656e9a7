------------------------------ MODULE Handoff ------------------------------
(***************************************************************************)
(* Transit: a node (Self) writes documents that an unreachable owner       *)
(* should have.  It records a TRANSIT_INTENT in its ledger and keeps the   *)
(* bytes in its transit store until the owner fetches them, a checkpoint   *)
(* releases them or their time to live is over.  Holders do not talk to    *)
(* each other about envelopes, so one holder and one owner are the whole   *)
(* protocol; the other nodes are only candidates in the holders' ranking.  *)
(*                                                                         *)
(* A stored document is smaller than a page (storage_engine.cpp:247) and a *)
(* chunk is at least a page (config.cpp:181), so an envelope is a whole    *)
(* document, which counts as one unit of the budget.  A document is the    *)
(* set of the writes it shows.                                             *)
(***************************************************************************)
EXTENDS Naturals, FiniteSets, FiniteSetsExt, Sequences, Functions

CONSTANTS
    Self,         \* the holder
    Nodes,        \* Self and the peers that may be asked to hold
    Owner,        \* the unreachable owner, a name like those of collections
    Docs,         \* the documents written, <<collection, key>>
    Ranking,      \* for each document the nodes by rank of their hash
    MaxHolders,   \* transit_max_holders
    Budget,       \* transit_budget_bytes, in documents; 0 is unbounded
    PageSize,     \* kMaxEntriesPerResponse
    Threads,      \* request threads of the holder
    MaxWrites,    \* bound: writes of a behaviour
    MaxLsn,       \* bound: ledger entries of a behaviour
    MaxFaults     \* bound: crashes and I/O errors of a behaviour

\* The key recorded for a claim whose envelope is gone: the digits of a
\* SHA-256, which no document has for a key.
HexOfHash == "hex"

ASSUME HandoffAssumption ==
    /\ Self \in Nodes
    /\ \A d \in Docs : d[1] # Owner /\ d[2] # HexOfHash
    /\ Budget \in Nat /\ MaxHolders \in Nat /\ PageSize \in Nat

VARIABLES
    copy,      \* the holder's own documents
    job,       \* what each request thread is doing about the owner
    ledger,    \* the transit and checkpoint entries of the holder's ledger
    nextLsn,   \* next_lsn_ of the ledger
    entries,   \* entries_ of the transit store, in memory
    log,       \* transit.log, the records in the file
    lapsed,    \* intent LSNs of the envelopes whose expires_ms has passed
    settled,   \* key hashes a checkpoint is about to release
    session,   \* the owner's fetch from this holder
    owned,     \* the owner's documents
    overlapped,\* history: a request passed the gate while another was past it
    writes,    \* number of writes so far
    faults     \* number of crashes and I/O errors so far

vars == <<copy, job, ledger, nextLsn, entries, log, lapsed, settled, session,
          owned, overlapped, writes, faults>>

Writes == 1 .. MaxWrites
Lsns == 1 .. MaxLsn

\* The hash of a name and a key stands for the pair.
LedgerKeyHash(collection, key) == <<collection, key>>

Key(hash) == hash[2]

\* What the map and the log keep of a document: its key, the encoded bytes and
\* the intent's LSN; the deadline is abstracted to `lapsed`.
Envelope(hash, bytes, lsn) == [hash |-> hash, bytes |-> bytes, lsn |-> lsn]

\* A frame that only a part of has reached the file.
Torn == Envelope(<<>>, {}, 0)

Idle == [pc |-> "idle"]

Init ==
    /\ copy = [d \in Docs |-> {}]
    /\ job = [t \in Threads |-> Idle]
    /\ ledger = {} /\ nextLsn = 1
    /\ entries = {} /\ log = <<>> /\ lapsed = {}
    /\ settled = {}
    /\ session = Idle
    /\ owned = [d \in Docs |-> {}]
    /\ overlapped = FALSE /\ writes = 0 /\ faults = 0

-----------------------------------------------------------------------------
(* Holding. *)

\* The first MaxHolders of the candidates in the document's ranking.
SelectTransitHolders(candidates, d) ==
    LET ranked == SelectSeq(Ranking[d], LAMBDA n : n \in candidates)
    IN  {ranked[i] : i \in {i \in DOMAIN ranked : i <= MaxHolders}}

\* Envelopes whose time is not over.
Live == {e \in entries : e.lsn \notin lapsed}
BytesHeld == Cardinality(Live)

\* One more record of the ledger.
AppendLedgerOp(rec) ==
    /\ nextLsn \in Lsns
    /\ ledger' = ledger \cup {rec}
    /\ nextLsn' = nextLsn + 1

\* A local write: the thread goes on with the encoded document it wrote.
BroadcastLocalWrite(t, d) ==
    /\ job[t] = Idle /\ writes < MaxWrites
    /\ writes' = writes + 1
    /\ copy' = [copy EXCEPT ![d] = @ \cup {writes + 1}]
    /\ job' = [job EXCEPT ![t] = [pc |-> "gate", doc |-> d, bytes |-> copy'[d]]]
    /\ UNCHANGED <<ledger, nextLsn, entries, log, lapsed, settled, session,
                   owned, overlapped, faults>>

NoteOverlap(t) ==
    overlapped' = (overlapped \/ \E u \in Threads \ {t} :
                                    job[u].pc \in {"intent", "hold"})

\* The node holds the document when it ranks among the holders of the
\* candidates it sees, and refuses when the budget is used up.
HoldForUnreachableOwnersUngated(t) ==
    /\ job[t].pc = "gate"
    /\ \E peers \in SUBSET (Nodes \ {Self}) :
          job' = [job EXCEPT ![t] =
                     IF Self \in SelectTransitHolders(peers \cup {Self}, @.doc)
                     THEN [@ EXCEPT !.pc = "intent"]
                     ELSE Idle]
    /\ NoteOverlap(t)
    /\ UNCHANGED <<copy, ledger, nextLsn, entries, log, lapsed, settled,
                   session, owned, writes, faults>>

HoldForUnreachableOwners(t) ==
    /\ job[t].pc = "gate"
    /\ \E peers \in SUBSET (Nodes \ {Self}) :
          job' = [job EXCEPT ![t] =
                     IF /\ Self \in SelectTransitHolders(peers \cup {Self}, @.doc)
                        /\ Budget = 0 \/ BytesHeld + 1 <= Budget
                     THEN [@ EXCEPT !.pc = "intent"]
                     ELSE Idle]
    /\ NoteOverlap(t)
    /\ UNCHANGED <<copy, ledger, nextLsn, entries, log, lapsed, settled,
                   session, owned, writes, faults>>

\* The thread with intent LSN n goes on to store the bytes.
WithIntent(t, n) ==
    job' = [job EXCEPT ![t] = [pc |-> "hold", doc |-> @.doc, bytes |-> @.bytes,
                               lsn |-> n]]

AppendIntentErrorIgnored(t) ==
    /\ job[t].pc = "intent" /\ nextLsn \in Lsns
    /\ WithIntent(t, nextLsn)
    /\ UNCHANGED <<copy, ledger, nextLsn, entries, log, lapsed, settled,
                   session, owned, overlapped, writes, faults>>

\* Ledger first: the intent is recorded under the owner's name, so its key
\* hash is that of (owner, key) and not that of (collection, key).
AppendIntent(t) ==
    /\ job[t].pc = "intent"
    /\ AppendLedgerOp([op |-> "intent", lsn |-> nextLsn,
                       hash |-> LedgerKeyHash(Owner, Key(job[t].doc))])
    /\ WithIntent(t, nextLsn)
    /\ UNCHANGED <<copy, entries, log, lapsed, settled, session, owned,
                   overlapped, writes, faults>>

Stored(t) == Envelope(job[t].doc, job[t].bytes, job[t].lsn)

\* Bytes second: appended to the log, and upserted in the map.
Hold(t) ==
    /\ job[t].pc = "hold"
    /\ log' = Append(log, Stored(t))
    /\ entries' = {e \in entries : e.hash # job[t].doc} \cup {Stored(t)}
    /\ job' = [job EXCEPT ![t] = Idle]
    /\ UNCHANGED <<copy, ledger, nextLsn, lapsed, settled, session, owned,
                   overlapped, writes, faults>>

\* The ledger or the store refuses; the store may leave a part of the frame.
HoldFails(t) ==
    /\ job[t].pc \in {"intent", "hold"} /\ faults < MaxFaults
    /\ faults' = faults + 1
    /\ job' = [job EXCEPT ![t] = Idle]
    /\ \/ log' = log
       \/ job[t].pc = "hold" /\ log' = Append(log, Torn)
    /\ UNCHANGED <<copy, ledger, nextLsn, entries, lapsed, settled, session,
                   owned, overlapped, writes>>

-----------------------------------------------------------------------------
(* Fetching. *)

\* The first page of the live envelopes in the order of their intents.  The
\* owner asks with no offset and does not come back for the rest.
HandleTransitQuery ==
    /\ session = Idle /\ Live # {}
    /\ session' = [pc |-> "response",
                   entries |-> {e \in Live :
                       Cardinality({f \in Live : f.lsn < e.lsn}) < PageSize}]
    /\ UNCHANGED <<copy, job, ledger, nextLsn, entries, log, lapsed, settled,
                   owned, overlapped, writes, faults>>

\* What the owner claims once it has looked at the response.
Claiming(hashes) ==
    session' = IF hashes = {} THEN Idle ELSE [pc |-> "claim", hashes |-> hashes]

\* The entries of the response that the owner, with the candidates it sees,
\* takes the holder to be designated for.
Designated(candidates) ==
    {e \in session.entries : Self \in SelectTransitHolders(candidates, e.hash)}

MergeEntries(es) ==
    owned' = [d \in Docs |->
                 owned[d] \cup UNION {e.bytes : e \in {e \in es : e.hash = d}}]

ApplyHolderEntriesClaimsAll ==
    /\ session.pc = "response"
    /\ \E candidates \in SUBSET Nodes :
          \E applied \in SUBSET Designated(candidates) :
             /\ MergeEntries(applied)
             /\ Claiming({e.hash : e \in Designated(candidates)})
    /\ UNCHANGED <<copy, job, ledger, nextLsn, entries, log, lapsed, settled,
                   overlapped, writes, faults>>

\* The owner merges what it accepts, each merge may fail, and claims what it
\* merged.
ApplyHolderEntries ==
    /\ session.pc = "response"
    /\ \E candidates \in SUBSET Nodes :
          \E applied \in SUBSET Designated(candidates) :
             /\ MergeEntries(applied)
             /\ Claiming({e.hash : e \in applied})
    /\ UNCHANGED <<copy, job, ledger, nextLsn, entries, log, lapsed, settled,
                   overlapped, writes, faults>>

\* The key of the live envelope a claim names, if it is still there.
ClaimedKey(hash) ==
    IF \E e \in Live : e.hash = hash THEN Key(hash) ELSE HexOfHash

\* One hash of the claim; each is an append of its own.
RecordRemoteClaim(hash) ==
    /\ session.pc = "claim" /\ hash \in session.hashes
    /\ AppendLedgerOp([op |-> "claimed", lsn |-> nextLsn,
                       hash |-> LedgerKeyHash(Owner, ClaimedKey(hash))])
    /\ Claiming(session.hashes \ {hash})
    /\ UNCHANGED <<copy, job, entries, log, lapsed, settled, owned,
                   overlapped, writes, faults>>

\* The response or the claim is lost.
LoseMessage ==
    /\ session # Idle
    /\ session' = Idle
    /\ UNCHANGED <<copy, job, ledger, nextLsn, entries, log, lapsed, settled,
                   owned, overlapped, writes, faults>>

-----------------------------------------------------------------------------
(* Releasing. *)

HashesBelow(op, n) == {r.hash : r \in {r \in ledger : r.op = op /\ r.lsn <= n}}

\* Intents strictly below the checkpoint whose key nobody claimed up to it.
UnclaimedIntentsBelow(n) ==
    {r \in ledger : /\ r.op = "intent" /\ r.lsn < n
                    /\ r.hash \notin HashesBelow("claimed", n)}

\* A checkpoint at a tip the quorum agreed on some time ago: the marker, the
\* prune of the settled pairs, and the hashes to release.
RunCheckpoint(tip) ==
    /\ settled = {} /\ nextLsn \in Lsns
    /\ UnclaimedIntentsBelow(tip) = {}
    /\ LET claimed == HashesBelow("claimed", tip)
           pruned == {r \in ledger : /\ r.op # "checkpoint" /\ r.lsn <= tip
                                     /\ r.hash \in claimed}
       IN  /\ ledger' = (ledger \ pruned)
                        \cup {[op |-> "checkpoint", lsn |-> nextLsn]}
           /\ settled' = HashesBelow("intent", tip) \cap claimed
    /\ nextLsn' = nextLsn + 1
    /\ UNCHANGED <<copy, job, entries, log, lapsed, session, owned,
                   overlapped, writes, faults>>

\* A record for each envelope of S, in the order of an unordered map.
Listing(S) == CHOOSE s \in [1 .. Cardinality(S) -> S] : IsInjective(s)

\* The envelopes that stay, and the log rewritten to hold just them.
CompactLocked(kept) ==
    /\ entries' = kept
    /\ log' = IF kept = entries THEN log ELSE Listing(kept)

ReleaseByLedgerHash ==
    /\ settled # {}
    /\ CompactLocked({e \in entries :
                         LedgerKeyHash(Owner, Key(e.hash)) \notin settled})
    /\ settled' = {}
    /\ UNCHANGED <<copy, job, ledger, nextLsn, lapsed, session, owned,
                   overlapped, writes, faults>>

\* Envelopes are released by their own hash.
Release ==
    /\ settled # {}
    /\ CompactLocked({e \in entries : e.hash \notin settled})
    /\ settled' = {}
    /\ UNCHANGED <<copy, job, ledger, nextLsn, lapsed, session, owned,
                   overlapped, writes, faults>>

\* The wall clock passes the expiry of an envelope.
Lapse(e) ==
    /\ e \in Live
    /\ lapsed' = lapsed \cup {e.lsn}
    /\ UNCHANGED <<copy, job, ledger, nextLsn, entries, log, settled, session,
                   owned, overlapped, writes, faults>>

ExpireAsOfInMemory ==
    /\ Live # entries
    /\ entries' = Live
    /\ UNCHANGED <<copy, job, ledger, nextLsn, log, lapsed, settled, session,
                   owned, overlapped, writes, faults>>

\* The sweep of the supervisor and of POST /_transit/expire.
ExpireAsOf ==
    /\ Live # entries
    /\ CompactLocked(Live)
    /\ UNCHANGED <<copy, job, ledger, nextLsn, lapsed, settled, session,
                   owned, overlapped, writes, faults>>

-----------------------------------------------------------------------------
(* Crash and restart. *)

\* The map a sequence of whole records stands for.
Replay(s) ==
    {s[i] : i \in {i \in DOMAIN s :
                      \A j \in DOMAIN s : j > i => s[j].hash # s[i].hash}}

\* The records before the first torn one.
Whole(file) ==
    LET torn == {i \in 1 .. Len(file) : file[i] = Torn}
    IN  IF torn = {} THEN file ELSE SubSeq(file, 1, Min(torn) - 1)

\* Load stops at a torn frame.  When more bytes follow, it reads the frame as
\* corrupt and rewrites the log, or its length reaches past the end of the
\* file and it takes the rest for a torn tail.
Load(file) ==
    /\ entries' = Replay(Whole(file))
    /\ \/ log' = file
       \/ Len(file) > Len(Whole(file)) + 1 /\ log' = Listing(entries')

\* The log is flushed and never synced: a power failure leaves any prefix of
\* it, and perhaps a part of the next frame.  Nothing in memory survives; the
\* ledger is synced at every append.
Restart ==
    /\ faults < MaxFaults
    /\ faults' = faults + 1
    /\ \E n \in 0 .. Len(log) :
          \/ Load(SubSeq(log, 1, n))
          \/ n < Len(log) /\ Load(Append(SubSeq(log, 1, n), Torn))
    /\ job' = [t \in Threads |-> Idle]
    /\ session' = Idle
    /\ settled' = {}
    /\ UNCHANGED <<copy, ledger, nextLsn, lapsed, owned, overlapped, writes>>

-----------------------------------------------------------------------------

Next ==
    \/ \E t \in Threads :
          \/ \E d \in Docs : BroadcastLocalWrite(t, d)
          \/ HoldForUnreachableOwners(t)
          \/ AppendIntent(t)
          \/ Hold(t)
          \/ HoldFails(t)
    \/ HandleTransitQuery
    \/ ApplyHolderEntries
    \/ \E d \in Docs : RecordRemoteClaim(d)
    \/ LoseMessage
    \/ \E r \in ledger : RunCheckpoint(r.lsn)
    \/ Release
    \/ \E e \in entries : Lapse(e)
    \/ ExpireAsOf
    \/ Restart

Spec == Init /\ [][Next]_vars

-----------------------------------------------------------------------------
(* Properties. *)

\* An envelope's intent is in the ledger.
HasIntent(e) ==
    [op |-> "intent", lsn |-> e.lsn,
     hash |-> LedgerKeyHash(Owner, Key(e.hash))] \in ledger

\* A checkpoint came after the envelope's intent.
Checkpointed(e) == \E r \in ledger : r.op = "checkpoint" /\ r.lsn > e.lsn

\* "Ledger first, bytes second" (node_engine.cpp:530): whatever fails or
\* crashes, the store, and any state a restart can load from its log, has no
\* bytes without an intent, unless a checkpoint has settled it.
IntentBeforeBytes ==
    \A e \in entries \cup (Range(log) \ {Torn}) : HasIntent(e) \/ Checkpointed(e)

\* "a full holder refuses the whole document" (node_engine.cpp:493-494): the
\* bytes held stay within the budget through re-holds, expiry, releases and
\* restarts, unless two requests were past the gate together, which reads the
\* bytes held and stores later under no common lock.
BudgetRespected == (Budget > 0 /\ ~overlapped) => BytesHeld <= Budget

\* Bytes the owner has not merged leave the store only when they lapse or the
\* node crashes: a claim or a checkpoint that concerns an older version or
\* another collection's document with the same key does not release them.
KeptUntilDelivered ==
    [][\A e \in Live :
          \/ e.bytes \subseteq owned[e.hash]
          \/ \E f \in entries' : f.hash = e.hash
          \/ faults' # faults]_vars

\* A CLAIMED in the holder's ledger that can settle a pair was sent by an
\* owner that had merged a document with that key, however messages are lost
\* and merges fail (ApplyHolderEntries claims only what it applied).
ClaimedWasApplied ==
    \A r \in ledger : \A k \in {Key(d) : d \in Docs} :
        r.op = "claimed" /\ r.hash = LedgerKeyHash(Owner, k) =>
            \E d \in Docs : Key(d) = k /\ owned[d] # {}

\* Unless a frame was torn, a restart finds exactly the envelopes that were in
\* memory: what expired or was released does not come back, what was held is
\* there (TransitStore::Load against Hold, ExpireAsOf, Release).
StoreMatchesLog == Torn \notin Range(log) => Replay(log) = entries

=============================================================================
