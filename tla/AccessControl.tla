--------------------------- MODULE AccessControl ----------------------------
(***************************************************************************)
(* Replicated access control lists: SetCollectionAcl, ApplyRemoteAcl and   *)
(* the replay of ACL records (src/src/engine/node_engine.cpp,              *)
(* src/src/storage/storage_engine.cpp), and the ledger half of a gossip    *)
(* round that carries them (ExchangeLedger of src/src/net/gossip.cpp,      *)
(* HandleLedgerDigest of src/src/net/network_manager.cpp).                 *)
(*                                                                         *)
(* Each node has its own ledger; its position in it is also the cursor of  *)
(* the exchange.  A node records the ACLs set through its API and every    *)
(* document it writes or merges; a document is the record it leaves, as    *)
(* Replication and NodeWrites have the rest.  An ACL learnt from a peer is *)
(* in the catalog only.  A record is named by its place, so that the       *)
(* ledgers of two nodes are equal only when both are empty.                *)
(***************************************************************************)
EXTENDS Catalog, Integers, Sequences

CONSTANTS
    ApiAcls,            \* the ACLs that are set
    HandEdited,         \* what catalog.json may hold when a node first starts
    Ahead,              \* how far the wall clock of each node is ahead
    kMaxFutureSkewMs, kMaxDeltaEntries,
    MaxMs, MaxPuts, MaxSets, MaxRestarts

\* Only SetAclAt gives an ACL a version.
ASSUME AccessControlAssumption ==
    /\ ApiAcls \subseteq Acl /\ \A a \in ApiAcls : a.owner # None
    /\ \A f \in HandEdited : IsCatalog(f) /\ \A c \in DOMAIN f : f[c].ms = 0
    /\ Ahead \in [Nodes -> Nat]
    /\ {kMaxFutureSkewMs, kMaxDeltaEntries, MaxMs, MaxPuts, MaxSets, MaxRestarts} \subseteq Nat

VARIABLES
    cat,       \* the catalog of each node
    file,      \* its catalog.json
    wal,       \* its ledger
    setting,   \* the ACLs its requests have put into the catalog and not yet on the ledger
    now,       \* time
    sets, restarts,  \* how many more may come
    made,      \* history: the ACLs set through some API, and by which node
    lost       \* history: the nodes that lost catalog.json

vars == <<cat, file, wal, setting, now, sets, restarts, made, lost>>

Wall(n) == now + Ahead[n]

Init ==
    /\ file \in [Nodes -> HandEdited]
    /\ cat = file
    /\ wal = [n \in Nodes |-> <<>>]
    /\ setting = [n \in Nodes |-> {}]
    /\ now = 1
    /\ sets = MaxSets /\ restarts = MaxRestarts
    /\ made = {} /\ lost = {}

\* The catalog of n becomes c, in memory and on disk.
Save(n, c) ==
    /\ cat' = [cat EXCEPT ![n] = c]
    /\ file' = [file EXCEPT ![n] = c]

-----------------------------------------------------------------------------
(* Documents *)

Puts(n) == SelectSeq(wal[n], LAMBDA r : r.kind = "put")

\* PutRaw: the ledger, and the catalog entry of a collection that is new.
PutRaw(n, c) ==
    /\ Len(Puts(n)) < MaxPuts
    /\ wal' = [wal EXCEPT ![n] = Append(@, [kind |-> "put", coll |-> c])]
    /\ Save(n, EnsureCollection(cat[n], c))
    /\ UNCHANGED <<setting, now, sets, restarts, made, lost>>

\* The API of a node writes whatever it likes to its own store.
PutDocument(n, c) == PutRaw(n, c)

\* A document of a collection p has comes to n, who asks its own catalog.
MergeRemote(n, p, c) ==
    /\ p # n
    /\ c \in DOMAIN cat[p]
    /\ CanWrite(cat[n], c, p)
    /\ PutRaw(n, c)

-----------------------------------------------------------------------------
(* Setting an ACL *)

\* SetCollectionAcl: the catalog first ...
SetCollectionAcl(n, c, acl) ==
    LET known == EnsureCollection(cat[n], c) IN
    /\ sets > 0
    /\ Wall(n) <= MaxMs
    /\ sets' = sets - 1
    /\ Save(n, SetAclAt(known, c, acl, Wall(n)))
    /\ IF Accepts(known, c, acl, Wall(n))
       THEN /\ setting' = [setting EXCEPT ![n] = @ \cup {[coll |-> c, acl |-> acl, ms |-> Wall(n)]}]
            /\ made' = made \cup {[coll |-> c, acl |-> acl, ms |-> Wall(n), by |-> n]}
       ELSE UNCHANGED <<setting, made>>
    /\ UNCHANGED <<wal, now, restarts, lost>>

\* ... then the signed record.
AppendLedgerOp(n, s) ==
    /\ s \in setting[n]
    /\ setting' = [setting EXCEPT ![n] = @ \ {s}]
    /\ wal' = [wal EXCEPT ![n] = Append(@, [kind |-> "acl", coll |-> s.coll, acl |-> s.acl,
                                            ms |-> s.ms])]
    /\ UNCHANGED <<cat, file, now, sets, restarts, made, lost>>

-----------------------------------------------------------------------------
(* The exchange *)

\* Mutant: the record after the cursor is skipped.
LedgerDeltaSkips(mine, theirs) ==
    LET from == IF Len(mine) = Len(theirs) THEN 1 ELSE Len(mine) + 2
        to == from + kMaxDeltaEntries - 1
    IN IF from > Len(theirs) THEN <<>>
       ELSE SubSeq(theirs, from, IF to < Len(theirs) THEN to ELSE Len(theirs))

\* HandleLedgerDigest: what the ledger has past the cursor, or from the start
\* for another ledger of the same length; nothing for a longer one.
LedgerDelta(mine, theirs) ==
    LET from == IF Len(mine) = Len(theirs) THEN 1 ELSE Len(mine) + 1
        to == from + kMaxDeltaEntries - 1
    IN IF Len(mine) > Len(theirs) THEN <<>>
       ELSE SubSeq(theirs, from, IF to < Len(theirs) THEN to ELSE Len(theirs))

\* Mutant: whoever sends an ACL is believed.
ApplyRemoteAclAny(known, wall, origin, r) ==
    IF r.kind # "acl" \/ r.ms > wall + kMaxFutureSkewMs THEN known
    ELSE SetAclAt(EnsureCollection(known, r.coll), r.coll, r.acl, r.ms)

\* ApplyRemoteAcl of record r: only its owner attests an ACL, and not from the
\* future.
ApplyRemoteAcl(known, wall, origin, r) ==
    IF r.kind # "acl" \/ r.acl.owner # origin \/ r.ms > wall + kMaxFutureSkewMs THEN known
    ELSE SetAclAt(EnsureCollection(known, r.coll), r.coll, r.acl, r.ms)

\* The loop of ExchangeLedger over what it was sent.
ApplyDelta(known, wall, origin, delta) ==
    LET after[i \in 0 .. Len(delta)] ==
          IF i = 0 THEN known ELSE ApplyRemoteAcl(after[i - 1], wall, origin, delta[i])
    IN after[Len(delta)]

ExchangeLedger(n, p) ==
    /\ p # n
    /\ Save(n, ApplyDelta(cat[n], Wall(n), p, LedgerDelta(wal[n], wal[p])))
    /\ UNCHANGED <<wal, setting, now, sets, restarts, made, lost>>

-----------------------------------------------------------------------------
(* The process, and time *)

\* Mutant: ACL records are bookkeeping.
ReplayRecordDocuments(known, r) == EnsureCollection(known, r.coll)

\* A document of an unknown collection also makes an entry.
ReplayRecord(known, r) ==
    LET e == EnsureCollection(known, r.coll) IN
    IF r.kind = "acl" THEN SetAclAt(e, r.coll, r.acl, r.ms) ELSE e

\* ReplayLedger over what catalog.json held.
ReplayLedger(known, records) ==
    LET after[i \in 0 .. Len(records)] ==
          IF i = 0 THEN known ELSE ReplayRecord(after[i - 1], records[i])
    IN after[Len(records)]

\* The process ends and starts again.  When it ends inside a save, after the
\* old file is removed and before the new one is renamed, there is no file.
Restart(n, torn) ==
    /\ restarts > 0
    /\ restarts' = restarts - 1
    /\ Save(n, ReplayLedger(IF torn THEN <<>> ELSE file[n], wal[n]))
    /\ setting' = [setting EXCEPT ![n] = {}]
    /\ lost' = IF torn THEN lost \cup {n} ELSE lost
    /\ UNCHANGED <<wal, now, sets, made>>

Tick ==
    /\ now < MaxMs
    /\ now' = now + 1
    /\ UNCHANGED <<cat, file, wal, setting, sets, restarts, made, lost>>

Next ==
    \/ \E n \in Nodes, c \in Collections : PutDocument(n, c)
    \/ \E n, p \in Nodes, c \in Collections : MergeRemote(n, p, c)
    \/ \E n \in Nodes, c \in Collections, acl \in ApiAcls : SetCollectionAcl(n, c, acl)
    \/ \E n \in Nodes : \E s \in setting[n] : AppendLedgerOp(n, s)
    \/ \E n, p \in Nodes : ExchangeLedger(n, p)
    \/ \E n \in Nodes, torn \in BOOLEAN : Restart(n, torn)
    \/ Tick

Spec == Init /\ [][Next]_vars

\* The gossip loop of a node comes to every peer again and again, a request
\* goes on with its next step, and time passes.
Fairness ==
    /\ \A n, p \in Nodes : WF_vars(ExchangeLedger(n, p))
    /\ \A n \in Nodes : WF_vars(\E s \in setting[n] : AppendLedgerOp(n, s))
    /\ WF_vars(Tick)

FairSpec == Spec /\ Fairness

-----------------------------------------------------------------------------
(* Properties *)

\* An ACL in a catalog was set through the API of that node or of the owner it
\* names, at the version it has (SetCollectionAcl, ApplyRemoteAcl).
AclIsOwners ==
    \A n \in Nodes : \A c \in DOMAIN cat[n] :
        cat[n][c].ms > 0 =>
            \E m \in made : /\ m.coll = c /\ m.acl = cat[n][c].acl /\ m.ms = cat[n][c].ms
                            /\ m.by \in {n, m.acl.owner}

\* No step takes the ACL of a collection back to an older version, restarts
\* included, on a node that has not lost catalog.json (SetAclAt, ReplayLedger).
AclNeverRewinds ==
    [][\A n \in Nodes \ lost' : \A c \in DOMAIN cat[n] :
           c \in DOMAIN cat'[n] /\ cat'[n][c].ms >= cat[n][c].ms]_vars

\* What a node has on its own ledger is in force on it, also after it lost
\* catalog.json (ReplayLedger).
OwnAclsSurvive ==
    \A n \in Nodes : \A i \in DOMAIN wal[n] :
        LET r == wal[n][i] IN
        r.kind = "acl" => r.coll \in DOMAIN cat[n] /\ cat[n][r.coll].ms >= r.ms

\* Record i of p is in what n is sent.
Offered(n, p, i) ==
    LET from == IF Len(wal[n]) = Len(wal[p]) THEN 0 ELSE Len(wal[n]) IN
    Len(wal[n]) <= Len(wal[p]) /\ from < i /\ i <= from + kMaxDeltaEntries

InForce(n, r) == r.coll \in DOMAIN cat[n] /\ cat[n][r.coll].ms >= r.ms

\* An ACL its owner recorded comes into force on every node whose ledger leaves
\* it in the part that is exchanged (ExchangeLedger, HandleLedgerDigest).
AclReachesShorterLedgers ==
    <>[](\A n, p \in Nodes : \A i \in DOMAIN wal[p] :
            (n # p /\ wal[p][i].kind = "acl" /\ wal[p][i].acl.owner = p /\ Offered(n, p, i)) =>
                InForce(n, wal[p][i]))

=============================================================================
