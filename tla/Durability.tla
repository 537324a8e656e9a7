----------------------------- MODULE Durability -----------------------------
(***************************************************************************)
(* A write from the API until it is answered: the durability wait on signed*)
(* merge receipts (src/src/net/receipt_tracker.cpp), the bounded pool that *)
(* pushes the write to peers (src/src/common/worker_pool.cpp, FanOut and   *)
(* HandleOpBroadcast of src/src/net/network_manager.cpp), the outbox that  *)
(* keeps it while the node is isolated (src/src/ledger/outbox_store.cpp),  *)
(* its flush by a second writer, and the change feed that long polls sleep *)
(* on (src/src/ledger/change_feed.cpp).                                    *)
(*                                                                         *)
(* One document.  The writers are the requests 1, 2, ... of clients, each  *)
(* writing its own value, and FlushOutbox, which is writer 0.  Reading,    *)
(* stamping and writing the row are one step here; NodeWrites takes them   *)
(* apart.                                                                  *)
(***************************************************************************)
EXTENDS Naturals, Sequences, FiniteSets, FiniteSetsExt

CONSTANTS
    Writes,        \* 1 .. n
    Peers,
    Refusing,      \* the peers whose ACL refuses this node's writes
    Wanted,        \* the receipts a client waits for
    PoolThreads, MaxQueued,   \* of the broadcast pool
    DedupCapacity,            \* of a peer's MessageDedup
    MaxFaults                 \* how many outages, failing or futile flushes, crashes

ASSUME DurabilityAssumption ==
    /\ Writes \subseteq Nat \ {0} /\ IsFiniteSet(Writes)
    /\ IsFiniteSet(Peers) /\ Refusing \subseteq Peers
    /\ {PoolThreads, MaxQueued, DedupCapacity} \subseteq Nat \ {0}
    /\ {Wanted, MaxFaults} \subseteq Nat

VARIABLES
    row,       \* the document: the write it shows and that write's stamp
    tip,       \* the ledger's last LSN, which also serves as the clock
    req,       \* where each writer is, and the document it writes
    seen,      \* the document at each peer
    dedup,     \* the message ids each peer remembers, oldest first
    relays,    \* broadcasts that peers relay to each other
    queue, running, stopped,  \* the broadcast pool
    waits,     \* the receipts of each write that is waited for
    outbox,    \* entries_: {} or the staged write
    log,       \* outbox.log, <<>> also when it is not there
    feed,      \* the cursor of a long poll that sleeps: {} or one
    reachable, up,
    faults,    \* how many more may come
    vouched,   \* history: the stamp up to which reports named each peer
    pushed,    \* history: the writes handed to FanOut
    staged,    \* history: the last write staged, 0 for none
    crossed    \* history: a flush crossed a write or the end of the process

pool == <<queue, running, stopped>>
box == <<outbox, log>>
history == <<vouched, pushed, staged, crossed>>
vars == <<row, tip, req, seen, dedup, relays, pool, waits, box, feed, reachable, up, faults,
          history>>

flusher == 0
Writers == Writes \cup {flusher}

NoDoc == [write |-> 0, stamp |-> 0]
At(pc, doc) == [pc |-> pc, doc |-> doc]
Go(a, pc) == req' = [req EXCEPT ![a].pc = pc]

\* The last write made, as the writes come in the order of their numbers.
newest == Max({w \in Writes : req[w].pc # "new"} \cup {0})

\* A request has written the row, and neither staged nor pushed the write.
AtWork == \E w \in Writes : req[w].pc \in {"appended", "written"}

Init ==
    /\ row = NoDoc /\ tip = 0
    /\ req = [a \in Writers |-> At(IF a = flusher THEN "idle" ELSE "new",
                                   [NoDoc EXCEPT !.write = a])]
    /\ seen = [p \in Peers |-> NoDoc]
    /\ dedup = [p \in Peers |-> <<>>]
    /\ relays = {}
    /\ queue = <<>> /\ running = {} /\ stopped = FALSE
    /\ waits = <<>>
    /\ outbox = {} /\ log = <<>>
    /\ feed = {}
    /\ reachable = TRUE /\ up = TRUE
    /\ faults = MaxFaults
    /\ vouched = [p \in Peers |-> 0]
    /\ pushed = {} /\ staged = 0 /\ crossed = FALSE

-----------------------------------------------------------------------------
(* The change feed *)

\* Wait: a snapshot first; the poll sleeps only when its cursor is at the tip.
\* One that times out comes back with the same cursor.
Wait ==
    /\ up
    /\ feed = {}
    /\ feed' = {tip}
    /\ UNCHANGED <<row, tip, req, seen, dedup, relays, pool, waits, box, reachable, up, faults,
                   history>>

\* Mutant: nobody is notified when the tip is the one published before.
PublishHigher ==
    feed' = {since \in feed : tip <= since + 1}

\* Publish wakes the poll, which takes another snapshot: whatever is past its
\* cursor ends it, as truncated.
Publish ==
    feed' = {since \in feed : tip <= since}

-----------------------------------------------------------------------------
(* The broadcast pool *)

\* The peers in the order of Ranked().
PeerOrder == CHOOSE s \in [1 .. Cardinality(Peers) -> Peers] : IsInjective(s)

\* One Submit per peer: dropped when the pool is stopped or full.
FanOut(id, doc) ==
    LET order == PeerOrder
        room == IF stopped THEN 0 ELSE MaxQueued - Len(queue)
        taken == IF room < Len(order) THEN room ELSE Len(order)
    IN queue' = queue \o [i \in 1 .. taken |-> [to |-> order[i], id |-> id, doc |-> doc]]

\* Run: a worker takes the first task ...
Run ==
    /\ queue # <<>>
    /\ Cardinality(running) < PoolThreads
    /\ running' = running \cup {[task |-> Head(queue), answer |-> "none"]}
    /\ queue' = Tail(queue)
    /\ UNCHANGED <<row, tip, req, seen, dedup, relays, stopped, waits, box, feed, reachable, up,
                   faults, history>>

\* ... and gives up on a peer it gets no answer from, also one that did the work.
SendFails(r) ==
    /\ running' = running \ {r}
    /\ UNCHANGED <<row, tip, req, seen, dedup, relays, queue, stopped, waits, box, feed, reachable,
                   up, faults, history>>

\* NoteAndCheckNew: the oldest id makes room.
Remember(ids, id) ==
    LET all == Append(ids, id) IN
    IF Len(all) > DedupCapacity THEN Tail(all) ELSE all

\* Mutant: the peer takes whatever arrives, newer or not.
MergeOverwrites(p, doc) == seen' = IF p \in Refusing THEN seen ELSE [seen EXCEPT ![p] = doc]

\* MergeRemote at peer p, which may refuse.
Merge(p, doc) ==
    seen' = IF p \in Refusing \/ doc.stamp <= seen[p].stamp THEN seen
            ELSE [seen EXCEPT ![p] = doc]

\* HandleOpBroadcast of a direct push: a duplicate is answered without a
\* receipt; what is new is merged, relayed once and signed for, also when the
\* merge was refused.  The relays of one push are under way at a time, those
\* of others are lost.
HandleOpBroadcast(r) ==
    LET p == r.task.to
        new == r.task.id \notin Range(dedup[p])
    IN /\ r.answer = "none"
       /\ running' = (running \ {r}) \cup {[r EXCEPT !.answer = IF new THEN "receipt" ELSE "pong"]}
       /\ IF new
          THEN /\ dedup' = [dedup EXCEPT ![p] = Remember(@, r.task.id)]
               /\ Merge(p, r.task.doc)
               /\ relays' = IF relays # {} THEN relays
                            ELSE {[r.task EXCEPT !.to = q] : q \in Peers \ {p}}
          ELSE UNCHANGED <<dedup, seen, relays>>
       /\ UNCHANGED <<row, tip, req, queue, stopped, waits, box, feed, reachable, up, faults,
                      history>>

\* HandleOpBroadcast of a relay, which is neither relayed again nor signed for.
HandleRelay(m) ==
    /\ relays' = relays \ {m}
    /\ IF m.id \in Range(dedup[m.to]) THEN UNCHANGED <<dedup, seen>>
       ELSE /\ dedup' = [dedup EXCEPT ![m.to] = Remember(@, m.id)]
            /\ Merge(m.to, m.doc)
    /\ UNCHANGED <<row, tip, req, pool, waits, box, feed, reachable, up, faults, history>>

\* A receipt that nobody waits for, not yet or no more, is dropped.
NoteReceipt(p, id) ==
    waits' = [w \in DOMAIN waits |-> IF id = <<"put", w>> THEN waits[w] \cup {p} ELSE waits[w]]

\* The answer reaches the worker, which is done with the task.
SendDone(r) ==
    /\ r.answer # "none"
    /\ running' = running \ {r}
    /\ IF r.answer = "receipt" THEN NoteReceipt(r.task.to, r.task.id) ELSE UNCHANGED waits
    /\ UNCHANGED <<row, tip, req, seen, dedup, relays, queue, stopped, box, feed, reachable, up,
                   faults, history>>

\* Stop discards what is queued; a worker ends with the task it is at.
StopPool ==
    /\ up /\ faults > 0 /\ ~stopped
    /\ stopped' = TRUE
    /\ queue' = <<>>
    /\ UNCHANGED <<row, tip, req, seen, dedup, relays, running, waits, box, feed, reachable, up,
                   faults, history>>

-----------------------------------------------------------------------------
(* PutDocument *)

\* PutRaw: the ledger, then the row.  A field that does not change keeps its
\* stamp, so the replay of what the row shows changes nothing.
PutDocument(a) ==
    /\ up
    /\ req[a].pc = "new"
    /\ \A v \in Writes : v < a => req[v].pc # "new"
    /\ tip' = tip + 1
    /\ row' = IF row.write = req[a].doc.write THEN row
              ELSE [write |-> req[a].doc.write, stamp |-> tip']
    /\ req' = [req EXCEPT ![a] = At("appended", row')]
    /\ crossed' = (crossed \/ (a = flusher /\ AtWork))
    /\ UNCHANGED <<seen, dedup, relays, pool, waits, box, feed, reachable, up, faults, vouched,
                   pushed, staged>>

\* The tip observer.
ObserveTip(a) ==
    /\ req[a].pc = "appended"
    /\ Publish
    /\ Go(a, "written")
    /\ UNCHANGED <<row, tip, seen, dedup, relays, pool, waits, box, reachable, up, faults, history>>

\* DrainAll holds the mutex of the store.
Draining == req[flusher].pc \in {"dropped", "removed"}

\* OutboxStore::Put: the log and the map.
OutboxPut(w) == outbox' = {w} /\ log' = Append(log, [kind |-> "put", write |-> w])

\* What follows PutDocument: a request waits for receipts, a flush is done.
After(a) == IF a = flusher THEN "idle" ELSE "put"

\* The node is isolated: the write is staged.
StageWrite(a) ==
    /\ req[a].pc = "written"
    /\ ~reachable
    /\ ~Draining
    /\ OutboxPut(req[a].doc.write)
    /\ staged' = req[a].doc.write
    /\ crossed' = (crossed \/ req[a].doc # row
                           \/ (a # flusher /\ req[flusher].pc # "idle")
                           \/ (a = flusher /\ outbox # {}))
    /\ Go(a, After(a))
    /\ UNCHANGED <<row, tip, seen, dedup, relays, pool, waits, feed, reachable, up, faults, vouched,
                   pushed>>

\* BroadcastLocalWrite of the bytes this writer encoded, under the id the API
\* gave it or a new one.
BroadcastLocalWrite(a) ==
    /\ req[a].pc = "written"
    /\ reachable
    /\ FanOut(IF a = flusher THEN <<"flush", tip>> ELSE <<"put", a>>, req[a].doc)
    /\ pushed' = pushed \cup {req[a].doc.write}
    /\ crossed' = (crossed \/ (a # flusher /\ (req[flusher].pc # "idle" \/ outbox # {})))
    /\ Go(a, After(a))
    /\ UNCHANGED <<row, tip, seen, dedup, relays, running, stopped, waits, box, feed, reachable, up,
                   faults, vouched, staged>>

\* WaitForDurability: receipts count from now on.
WaitFor(w) ==
    /\ req[w].pc = "put"
    /\ waits' = [v \in DOMAIN waits \cup {w} |-> IF v = w THEN {} ELSE waits[v]]
    /\ Go(w, "waiting")
    /\ UNCHANGED <<row, tip, seen, dedup, relays, pool, box, feed, reachable, up, faults, history>>

\* Mutant: the wait has no timeout.
AnswerOnReceipts(w, timedOut) ==
    /\ req[w].pc = "waiting"
    /\ Cardinality(waits[w]) >= Wanted
    /\ vouched' = [p \in Peers |-> IF p \in waits[w] THEN Max({vouched[p], req[w].doc.stamp})
                                   ELSE vouched[p]]
    /\ waits' = [v \in DOMAIN waits \ {w} |-> waits[v]]
    /\ req' = [req EXCEPT ![w] = At("done", NoDoc)]
    /\ UNCHANGED <<row, tip, seen, dedup, relays, pool, box, feed, reachable, up, faults, pushed,
                   staged, crossed>>

\* Enough receipts, or the timeout: the answer names the peers that signed.
Answer(w, timedOut) ==
    /\ req[w].pc = "waiting"
    /\ timedOut \/ Cardinality(waits[w]) >= Wanted
    /\ vouched' = [p \in Peers |-> IF p \in waits[w] THEN Max({vouched[p], req[w].doc.stamp})
                                   ELSE vouched[p]]
    /\ waits' = [v \in DOMAIN waits \ {w} |-> waits[v]]
    /\ req' = [req EXCEPT ![w] = At("done", NoDoc)]
    /\ UNCHANGED <<row, tip, seen, dedup, relays, pool, box, feed, reachable, up, faults, pushed,
                   staged, crossed>>

-----------------------------------------------------------------------------
(* FlushOutbox *)

\* DrainAll, by the probe loop while a peer is in reach, or by the API at any
\* time: a drop record, and the map is empty ...
DrainAll ==
    /\ up
    /\ reachable \/ faults > 0
    /\ faults' = IF reachable THEN faults ELSE faults - 1
    /\ req[flusher].pc = "idle"
    /\ outbox # {}
    /\ log' = Append(log, [kind |-> "drop"])
    /\ outbox' = {}
    /\ req' = [req EXCEPT ![flusher] = At("dropped", [NoDoc EXCEPT !.write = CHOOSE w \in outbox : TRUE])]
    /\ UNCHANGED <<row, tip, seen, dedup, relays, pool, waits, feed, reachable, up, history>>

\* Mutant: the log is left to grow.
CompactLockedNothing(pc) ==
    /\ req[flusher].pc = pc
    /\ UNCHANGED log

\* ... and CompactLocked replaces the log by one of the live entries, removing
\* the old file before it renames the new one.
CompactLocked(pc) ==
    /\ req[flusher].pc = pc
    /\ log' = <<>>

CompactRemove ==
    /\ CompactLocked("dropped")
    /\ Go(flusher, "removed")
    /\ UNCHANGED <<row, tip, seen, dedup, relays, pool, waits, outbox, feed, reachable, up, faults,
                   history>>

CompactRename ==
    /\ req[flusher].pc = "removed"
    /\ Go(flusher, "new")
    /\ UNCHANGED <<row, tip, seen, dedup, relays, pool, waits, box, feed, reachable, up, faults,
                   history>>

\* Mutant: the entry is not put back.
PutBackNothing == UNCHANGED box

\* An entry whose write fails goes back for retry.
PutBack == OutboxPut(req[flusher].doc.write)

ReplayFails ==
    /\ req[flusher].pc = "new"
    /\ faults > 0
    /\ faults' = faults - 1
    /\ PutBack
    /\ crossed' = (crossed \/ outbox # {})
    /\ Go(flusher, "idle")
    /\ UNCHANGED <<row, tip, seen, dedup, relays, pool, waits, feed, reachable, up, vouched,
                   pushed, staged>>

-----------------------------------------------------------------------------
(* The mesh, and the process *)

\* The reachability provider: whether some peer was heard from lately.
Isolate ==
    /\ reachable /\ faults > 0
    /\ faults' = faults - 1
    /\ reachable' = FALSE
    /\ UNCHANGED <<row, tip, req, seen, dedup, relays, pool, waits, box, feed, up, history>>

Reconnect ==
    /\ ~reachable
    /\ reachable' = TRUE
    /\ UNCHANGED <<row, tip, req, seen, dedup, relays, pool, waits, box, feed, up, faults, history>>

\* The process ends; a request at work is never answered.
Crash ==
    /\ up /\ faults > 0
    /\ faults' = faults - 1
    /\ up' = FALSE
    /\ req' = [a \in Writers |->
                  IF a = flusher THEN At("idle", NoDoc)
                  ELSE IF req[a].pc = "new" THEN req[a] ELSE At("done", NoDoc)]
    /\ queue' = <<>> /\ running' = {} /\ waits' = <<>>
    /\ feed' = {}
    /\ outbox' = {}
    /\ crossed' = (crossed \/ AtWork \/ req[flusher].pc # "idle")
    /\ UNCHANGED <<row, tip, seen, dedup, relays, stopped, log, reachable, vouched, pushed,
                   staged>>

\* Load: every put record counts, as a drop record is not one it can decode.
Loaded(l) ==
    LET puts == {i \in DOMAIN l : l[i].kind = "put"} IN
    {l[i].write : i \in {j \in puts : \A k \in puts : k <= j}}

Boot ==
    /\ ~up
    /\ up' = TRUE
    /\ stopped' = FALSE
    /\ outbox' = Loaded(log)
    /\ UNCHANGED <<row, tip, req, seen, dedup, relays, queue, running, waits, log, feed, reachable,
                   faults, history>>

Next ==
    \/ Wait
    \/ Run
    \/ \E r \in running : SendFails(r)
    \/ \E r \in running : HandleOpBroadcast(r)
    \/ \E m \in relays : HandleRelay(m)
    \/ \E r \in running : SendDone(r)
    \/ StopPool
    \/ \E a \in Writers : PutDocument(a)
    \/ \E a \in Writers : ObserveTip(a)
    \/ \E a \in Writers : StageWrite(a)
    \/ \E a \in Writers : BroadcastLocalWrite(a)
    \/ \E w \in Writes : WaitFor(w)
    \/ \E w \in Writes, timedOut \in BOOLEAN : Answer(w, timedOut)
    \/ DrainAll
    \/ CompactRemove
    \/ CompactRename
    \/ ReplayFails
    \/ Isolate
    \/ Reconnect
    \/ Crash
    \/ Boot

Spec == Init /\ [][Next]_vars

\* Each writer goes on with its next step, a wait ending by its timeout at the
\* latest; the probe loop flushes every 30 seconds while a peer is in reach,
\* and a peer comes into reach again.
WriterStep(a) ==
    \/ PutDocument(a) \/ ObserveTip(a) \/ StageWrite(a) \/ BroadcastLocalWrite(a)
    \/ a # flusher /\ (WaitFor(a) \/ Answer(a, TRUE))
    \/ a = flusher /\ ((reachable /\ DrainAll) \/ CompactRemove \/ CompactRename)

Fairness ==
    /\ \A a \in Writers : WF_vars(WriterStep(a))
    /\ WF_vars(Reconnect) /\ WF_vars(Boot)

FairSpec == Spec /\ Fairness

-----------------------------------------------------------------------------
(* Properties *)

\* A durability report names no peer that does not hold the write, ACL refusals
\* aside: it was merged before it was signed for, duplicates, relays and late
\* messages never take it back, and the receipt was one for this write
\* (HandleOpBroadcast, NoteReceipt).
ReplicasHoldWrite ==
    \A p \in Peers \ Refusing : seen[p].stamp >= vouched[p]

\* A write staged last is in the outbox, in the hands of FlushOutbox, or was
\* pushed, through outages, failing replays and restarts, unless the process
\* ended during a flush or the flush put an older entry back over it.
StagedIsKept ==
    (up /\ staged # 0 /\ ~crossed) =>
        \/ staged \in outbox \cup pushed
        \/ req[flusher].pc # "idle" /\ req[flusher].doc.write = staged

\* The row shows the last write once the request is past PutDocument, unless a
\* write and the replay of an older entry overlapped (FlushOutbox writes what
\* it drained as a new local write).
RowIsNewest ==
    (~crossed /\ ~AtWork) => row.write = newest

\* No long poll sleeps past a change whose writer has published it
\* (Publish, Wait).
NoPollOversleeps ==
    feed \subseteq {tip} \/ \E a \in Writers : req[a].pc = "appended"

\* Once faults stop, every write has been answered or cut off and the outbox
\* stays empty: no wait, flush or replay goes on for ever (WaitFor, ProbeLoop,
\* FlushOutbox).
Settles == <>[](outbox = {} /\ \A w \in Writes : req[w].pc = "done")

=============================================================================
