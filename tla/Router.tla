------------------------------- MODULE Router -------------------------------
(***************************************************************************)
(* One collection of the storage engine: the write path of                 *)
(* src/src/storage/storage_engine.cpp through router.cpp to the engine     *)
(* the catalog binds the collection to, the cross-engine index, flush, and *)
(* recovery from the ledger.  The state of the engine, be, is left to the  *)
(* modules of the engines, which complete the steps defined here.          *)
(*                                                                         *)
(* A document is a record of its version v, the position of its PUT in the *)
(* ledger, and of what the engine reads in it (at): a time, the edges it   *)
(* declares, the size of its embedding.  An operation of an engine runs    *)
(* under its mutex and is one step; a request takes several (the append,   *)
(* the engine, for graph_adj the edges, the index), and so does a flush.   *)
(* The process ends at any point; what it wrote to files is kept, frames   *)
(* of the buffer pools that were not evicted are lost.                     *)
(***************************************************************************)
EXTENDS Integers, Sequences, FiniteSets

CONSTANTS
    Threads, Keys,
    Readings(_),   \* what documents give the engine to read
    Workers(_),    \* how many requests run at once,
    MaxPuts(_),    \* how many come,
    MaxStops(_),   \* and how often the node ends, per engine
    MaxUpkeep      \* how often the engine is maintained

Targets == {"columnar_lite", "ts_rollup", "graph_adj", "vector_hnsw_lite"}

ASSUME RouterAssumption ==
    /\ IsFiniteSet(Keys) /\ Keys \subseteq Nat \ {0}
    /\ \A e \in Targets : Workers(e) \in Nat \ {0} /\ {MaxPuts(e), MaxStops(e)} \subseteq Nat
    /\ MaxUpkeep \in Nat

VARIABLES
    target,   \* the engine an operator may bind the collection to
    bound,    \* the catalog's engine of the collection, "kv" being the default
    kv,       \* the default engine's rows of the collection
    be,       \* the state of the target engine
    index,    \* the cross-engine index: the engine of each key
    ledger,   \* PUT records: [key, doc]; ABORT records: [abort]
    req,      \* the request each thread is serving
    scanned,  \* rows Rebuild has scanned and not yet indexed: {} or one row set
    pc,       \* "down", "replay", "flush...", "up", "refused"
    todo,     \* the PUTs recovery still has to look at; after a flush, where to go
    puts, upkeep, stops,  \* how many more may come
    acked,    \* history: the versions whose write was reported as done
    raced,    \* history: the keys that two operations worked on at once
    torn,     \* history: a crash kept documents without their edges
    cutoff,   \* history: the largest cutoff of a retention sweep
    strands   \* history: the keys that had a row when the collection was bound

vars == <<target, bound, kv, be, index, ledger, req, scanned, pc, todo, puts, upkeep, stops,
          acked, raced, torn, cutoff, strands>>

With(f, k, v) == [x \in DOMAIN f \cup {k} |-> IF x = k THEN v ELSE f[x]]

\* The rows of the default engine: those in memory and those flushed.
KvNew == [rows |-> <<>>, flushed |-> <<>>]

\* What the router answers, given what the target engine would.
RouterGet(k, row) ==
    IF bound # "kv" THEN row ELSE IF k \in DOMAIN kv.rows THEN {kv.rows[k]} ELSE {}

RouterScan(rows) == IF bound # "kv" THEN rows ELSE kv.rows

\* StorageRouter::Put up to the cross-engine index.
PutToKv(k, d) == kv' = IF bound = "kv" THEN [kv EXCEPT !.rows = With(@, k, d)] ELSE kv

None == [pc |-> "none"]

Busy == {t \in Threads : req[t] # None}

RouterInit ==
    /\ bound = "kv"
    /\ kv = KvNew
    /\ index = <<>>
    /\ ledger = <<>>
    /\ req = [t \in Threads |-> None]
    /\ scanned = {}
    /\ pc = "up"
    /\ todo = <<>>
    /\ puts = MaxPuts(target) /\ upkeep = MaxUpkeep /\ stops = MaxStops(target)
    /\ acked = {} /\ raced = {} /\ torn = FALSE /\ cutoff = 0 /\ strands = {}

Continue(t, r) == req' = [req EXCEPT ![t] = r]

\* The catalog has the collection, without an engine, from its first write on.
BindCollection ==
    /\ pc = "up"
    /\ bound = "kv"
    /\ bound' = target
    /\ strands' = DOMAIN kv.rows \cup {req[t].key : t \in Busy}
    /\ UNCHANGED <<target, kv, be, index, ledger, req, scanned, pc, todo, puts, upkeep, stops,
                   acked, raced, torn, cutoff>>

\* PutRaw: the durability point.
AppendPut(t, k, at) ==
    /\ pc = "up"
    /\ puts > 0
    /\ req[t] = None
    /\ Cardinality(Busy) < Workers(target)
    /\ puts' = puts - 1
    /\ LET d == [v |-> Len(ledger) + 1, at |-> at] IN
       /\ ledger' = Append(ledger, [key |-> k, doc |-> d])
       /\ Continue(t, [pc |-> "appended", key |-> k, doc |-> d])
    /\ raced' = raced \cup {req[u].key : u \in {u \in Busy : req[u].key = k}}
                      \cup (IF scanned = {} THEN {} ELSE {k})
    /\ UNCHANGED <<target, bound, kv, be, index, scanned, pc, todo, upkeep, stops, acked, torn,
                   cutoff, strands>>

\* Put of the engine: what it does not accept fails the request.
MaterialiseAs(t, accepted, then) ==
    /\ pc = "up"
    /\ req[t].pc = "appended"
    /\ PutToKv(req[t].key, req[t].doc)
    /\ IF accepted
       THEN /\ Continue(t, [pc |-> then, key |-> req[t].key, doc |-> req[t].doc, engine |-> bound])
            /\ UNCHANGED ledger
       ELSE /\ ledger' = Append(ledger, [abort |-> req[t].key])
            /\ Continue(t, None)
    /\ UNCHANGED <<target, bound, index, scanned, pc, todo, puts, upkeep, stops, acked, raced,
                   torn, cutoff, strands>>

\* The entry of the cross-engine index; the request returns OK.
Acknowledge(t) ==
    /\ pc = "up"
    /\ req[t].pc = "put"
    /\ index' = With(index, req[t].key, req[t].engine)
    /\ acked' = acked \cup {req[t].doc.v}
    /\ Continue(t, None)
    /\ UNCHANGED <<target, bound, kv, be, ledger, scanned, pc, todo, puts, upkeep, stops,
                   raced, torn, cutoff, strands>>

\* Maintenance of the engine the collection is bound to.
Upkeep(e) ==
    /\ pc = "up"
    /\ bound = e
    /\ upkeep > 0
    /\ upkeep' = upkeep - 1
    /\ UNCHANGED <<target, bound, kv, index, ledger, req, pc, todo, puts, stops, acked, torn,
                   strands>>

-----------------------------------------------------------------------------
(* Flush: the documents of graph_adj and of kv, then the engine's manifest, *)
(* then the pages it names.  It runs at shutdown and at the end of replay.  *)

Flushing == {"flush", "flush manifest", "flush store"}

Shutdown ==
    /\ pc = "up" /\ stops > 0 /\ Busy = {} /\ scanned = {}
    /\ stops' = stops - 1
    /\ pc' = "flush" /\ todo' = <<"down">>
    /\ UNCHANGED <<target, bound, kv, be, index, ledger, req, scanned, puts, upkeep, acked, raced,
                   torn, cutoff, strands>>

FlushTo(engine) ==
    /\ pc \in Flushing
    /\ be' = engine
    /\ kv' = IF pc = "flush" THEN [kv EXCEPT !.flushed = kv.rows] ELSE kv
    /\ pc' = CASE pc = "flush" -> "flush manifest"
               [] pc = "flush manifest" -> "flush store"
               [] pc = "flush store" -> todo[1]
    /\ UNCHANGED <<target, bound, index, ledger, req, scanned, todo, puts, upkeep, stops, acked,
                   raced, torn, cutoff, strands>>

-----------------------------------------------------------------------------
(* Failure and recovery *)

CrashTo(engine, tears) ==
    /\ pc \notin {"down", "refused"}
    /\ stops > 0
    /\ stops' = stops - 1
    /\ be' = engine
    /\ torn' = (torn \/ tears)
    /\ kv' = [kv EXCEPT !.rows = kv.flushed]
    /\ req' = [t \in Threads |-> None]
    /\ scanned' = {}
    /\ pc' = "down" /\ todo' = <<>>
    /\ UNCHANGED <<target, bound, index, ledger, puts, upkeep, acked, raced, cutoff, strands>>

\* The last PUT of each key, in the order of the ledger.
LatestPuts ==
    SelectSeq([i \in DOMAIN ledger |-> i],
              LAMBDA i : /\ "key" \in DOMAIN ledger[i]
                         /\ \A j \in DOMAIN ledger :
                               (j > i /\ "key" \in DOMAIN ledger[j]) => ledger[j].key # ledger[i].key)

\* A backend that does not open fails the node.
OpenAs(opens, engine) ==
    /\ pc = "down"
    /\ IF opens THEN be' = engine /\ pc' = "replay" /\ todo' = LatestPuts
       ELSE pc' = "refused" /\ UNCHANGED <<be, todo>>
    /\ UNCHANGED <<target, bound, kv, index, ledger, req, scanned, puts, upkeep, stops, acked,
                   raced, torn, cutoff, strands>>

\* ReplayLedger of PUT p: a row that is already current is skipped, a PUT the
\* engine refuses is logged and skipped.
ReplayPut(p, row, engine, accepted) ==
    /\ pc = "replay"
    /\ IF RouterGet(p.key, row) = {p.doc} THEN UNCHANGED <<kv, be, index>>
       ELSE /\ PutToKv(p.key, p.doc)
            /\ be' = IF bound = "kv" THEN be ELSE engine
            /\ index' = IF accepted THEN With(index, p.key, bound) ELSE index
    /\ todo' = Tail(todo)
    /\ UNCHANGED <<target, bound, ledger, req, scanned, pc, puts, upkeep, stops, acked, raced, torn,
                   cutoff, strands>>

ReplayDone ==
    /\ pc = "replay"
    /\ todo = <<>>
    /\ pc' = "flush" /\ todo' = <<"up">>
    /\ strands' = {}
    /\ UNCHANGED <<target, bound, kv, be, index, ledger, req, scanned, puts, upkeep, stops, acked,
                   raced, torn, cutoff>>

\* The steps that leave the engine alone.
RouterNext ==
    \/ BindCollection
    \/ \E t \in Threads, k \in Keys, at \in Readings(target) : AppendPut(t, k, at)
    \/ \E t \in Threads : Acknowledge(t)
    \/ Shutdown
    \/ ReplayDone

-----------------------------------------------------------------------------
(* What the rows should be *)

LastPut(k) ==
    LET last == {LatestPuts[n] : n \in DOMAIN LatestPuts} IN
    {ledger[i].doc : i \in {j \in last : ledger[j].key = k}}

\* No request is at work on k, none overlapped on it, and no maintenance or
\* change of engine took its row out of sight.
Settled(k) ==
    /\ pc = "up"
    /\ k \notin raced \cup strands
    /\ \A t \in Busy : req[t].key # k
    /\ bound = "ts_rollup" => \A d \in LastPut(k) : d.at >= cutoff

\* The target engine, with these rows by Get and by Scan, has the last PUT of
\* every key, and the cross-engine index names it.
HasLastPuts(Row(_), rows, Accepts(_)) ==
    \A k \in Keys : Settled(k) =>
        /\ RouterGet(k, Row(k)) = LastPut(k)
        /\ RouterGet(k, Row(k)) = IF k \in DOMAIN RouterScan(rows) THEN {RouterScan(rows)[k]} ELSE {}
        /\ (\E d \in LastPut(k) : d.v \in acked /\ Accepts(d)) =>
              k \in DOMAIN index /\ index[k] = bound

=============================================================================
