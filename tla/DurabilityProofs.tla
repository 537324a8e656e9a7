-------------------------- MODULE DurabilityProofs --------------------------
(* Theorems about a write from the API until it is answered, module          *)
(* Durability, for any number of writes and peers and any sizes of the pool, *)
(* its queue and the dedup caches.                                           *)
EXTENDS Durability, FiniteSetTheorems, TLAPS

\* Leaves are first-order unless they name another backend.
USE Zenon

Doc == [write : Nat, stamp : Nat]

Task == [to : Peers, id : {"put", "flush"} \X Nat, doc : Doc]

Pcs == {"idle", "new", "appended", "written", "put", "waiting", "done", "dropped", "removed"}

TypeInv ==
    /\ row \in Doc /\ tip \in Nat
    /\ req \in [Writers -> [pc : Pcs, doc : Doc]]
    /\ seen \in [Peers -> Doc]
    /\ queue \in Seq(Task) /\ Len(queue) <= MaxQueued
    /\ running \subseteq [task : Task, answer : {"none", "receipt", "pong"}]
    /\ relays \subseteq Task
    /\ DOMAIN waits \subseteq Writes /\ waits \in [DOMAIN waits -> SUBSET Peers]
    /\ vouched \in [Peers -> Nat]
    /\ outbox \subseteq Nat
    /\ log \in Seq([kind : {"put"}, write : Nat] \cup [kind : {"drop"}])

\* A long poll sleeps at a cursor the ledger has reached.
Cursors == \A since \in feed : since \in Nat /\ since <= tip

\* With the writers at rq, a task with the id of write w carries the document
\* of w, as long as w has not been answered.
Carries(t, rq) ==
    \A w \in Writes : t.id = <<"put", w>> =>
        \/ rq[w].pc = "done"
        \/ rq[w].pc \in {"put", "waiting"} /\ t.doc = rq[w].doc

TasksCarry ==
    /\ \A i \in DOMAIN queue : Carries(queue[i], req)
    /\ \A r \in running : Carries(r.task, req)

\* With the peers at s, peer p has what it signed for, or refuses it.
Holds(p, stamp, s) == p \in Refusing \/ s[p].stamp >= stamp

\* A receipt is signed after the merge.
ReceiptsHold ==
    \A r \in running : r.answer = "receipt" => Holds(r.task.to, r.task.doc.stamp, seen)

\* The receipts counted for a write are of peers that hold it.
WaitsHold ==
    /\ \A w \in Writes : req[w].pc = "waiting" <=> w \in DOMAIN waits
    /\ \A w \in DOMAIN waits : \A p \in waits[w] : Holds(p, req[w].doc.stamp, seen)

Inv ==
    /\ TypeInv /\ Cursors /\ TasksCarry /\ ReceiptsHold /\ WaitsHold
    /\ ReplicasHoldWrite /\ NoPollOversleeps

-----------------------------------------------------------------------------

LEMMA InvInit == Init => Inv
<1> SUFFICES ASSUME Init PROVE Inv
  OBVIOUS
<1> USE DurabilityAssumption DEF Init, NoDoc, At, flusher, Writers
<1>1. TypeInv
  BY SMT DEF TypeInv, Doc, Task, Pcs
<1>2. Cursors /\ TasksCarry /\ ReceiptsHold /\ WaitsHold
  BY SMT DEF Cursors, TasksCarry, ReceiptsHold, WaitsHold
<1>3. ReplicasHoldWrite /\ NoPollOversleeps
  BY SMT DEF ReplicasHoldWrite, NoPollOversleeps
<1> QED
  BY <1>1, <1>2, <1>3 DEF Inv

\* The order in which FanOut takes the peers is a sequence of peers.
LEMMA OrderOfPeers ==
  /\ PeerOrder \in [1 .. Cardinality(Peers) -> Peers]
  /\ Cardinality(Peers) \in Nat
<1>1. Cardinality(Peers) \in Nat /\ ExistsBijection(1 .. Cardinality(Peers), Peers)
  BY DurabilityAssumption, FS_CardinalityType
<1>2. PICK f \in [1 .. Cardinality(Peers) -> Peers] : IsInjective(f)
  BY <1>1 DEF ExistsBijection, Bijection, Injection, IsInjective
<1> QED
  BY <1>1, <1>2 DEF PeerOrder

\* FanOut leaves what is queued and adds tasks for this one document.
LEMMA FanOutTasks ==
  ASSUME TypeInv, NEW id \in {"put", "flush"} \X Nat, NEW doc \in Doc, FanOut(id, doc)
  PROVE  /\ queue' \in Seq(Task) /\ Len(queue') <= MaxQueued
         /\ \A i \in DOMAIN queue' :
               \/ i \in DOMAIN queue /\ queue'[i] = queue[i]
               \/ queue'[i].id = id /\ queue'[i].doc = doc
<1> DEFINE order == PeerOrder
           room == IF stopped THEN 0 ELSE MaxQueued - Len(queue)
           taken == IF room < Len(order) THEN room ELSE Len(order)
           new == [i \in 1 .. taken |-> [to |-> order[i], id |-> id, doc |-> doc]]
<1>1. order \in Seq(Peers) /\ Len(order) \in Nat
  BY OrderOfPeers, SMT
<1>2. room \in Nat /\ room <= MaxQueued - Len(queue)
  BY DurabilityAssumption, SMT DEF TypeInv
<1>3. taken \in Nat /\ taken <= Len(order) /\ taken <= MaxQueued - Len(queue)
  BY <1>1, <1>2, DurabilityAssumption, SMT DEF TypeInv
<1> HIDE DEF order, room, taken
<1>4. \A i \in 1 .. taken : [to |-> order[i], id |-> id, doc |-> doc] \in Task
  BY <1>1, <1>3, SMT DEF Task
<1>5. new \in Seq(Task) /\ Len(new) = taken
  BY <1>3, <1>4, SMT
<1>6. \A i \in 1 .. taken : new[i].id = id /\ new[i].doc = doc
  OBVIOUS
<1>7. queue' = queue \o new
  BY DEF FanOut, order, room, taken
<1>8. queue \in Seq(Task)
  BY DEF TypeInv
<1> HIDE DEF new
<1>9. queue' \in Seq(Task) /\ Len(queue') = Len(queue) + taken
  <2>1. ASSUME NEW S, NEW a \in Seq(S), NEW b \in Seq(S)
        PROVE  a \o b \in Seq(S) /\ Len(a \o b) = Len(a) + Len(b)
    BY SMT
  <2> QED
    BY <1>5, <1>7, <1>8, <2>1
<1>10. ASSUME NEW i \in DOMAIN queue'
       PROVE  \/ i \in DOMAIN queue /\ queue'[i] = queue[i]
              \/ queue'[i].id = id /\ queue'[i].doc = doc
  <2>1. CASE i <= Len(queue)
    BY <2>1, <1>5, <1>7, <1>8, <1>9, SMT
  <2>2. CASE i > Len(queue)
    <3>1. i - Len(queue) \in 1 .. taken /\ queue'[i] = new[i - Len(queue)]
      BY <2>2, <1>3, <1>5, <1>7, <1>8, <1>9, SMT
    <3> QED
      BY <3>1, <1>6
  <2> QED
    BY <2>1, <2>2, <1>8, <1>9, SMT
<1> QED
  BY <1>3, <1>8, <1>9, <1>10, DurabilityAssumption, SMT

\* A merge takes no peer back, and the peer that merged holds the document.
LEMMA MergeFacts ==
  ASSUME TypeInv, NEW p \in Peers, NEW doc \in Doc, Merge(p, doc)
  PROVE  /\ seen' \in [Peers -> Doc]
         /\ \A q \in Peers : seen'[q].stamp >= seen[q].stamp
         /\ Holds(p, doc.stamp, seen')
<1> seen \in [Peers -> Doc] /\ \A d \in Doc : d.stamp \in Nat
  BY DEF TypeInv, Doc
<1>1. CASE p \in Refusing \/ doc.stamp <= seen[p].stamp
  BY <1>1, SMT DEF Merge, Holds
<1>2. CASE ~(p \in Refusing \/ doc.stamp <= seen[p].stamp)
  <2>1. seen' = [seen EXCEPT ![p] = doc]
    BY <1>2 DEF Merge
  <2> QED
    BY <1>2, <2>1, SMT DEF Holds
<1> QED
  BY <1>1, <1>2

\* Steps that leave the requests, the waits and the poll alone keep the
\* invariant when peers only move forward and every task under way carries its
\* write and has the merge behind its receipt.
LEMMA Steady ==
  ASSUME Inv, TypeInv',
         tip' = tip, feed' = feed, vouched' = vouched, waits' = waits,
         \A p \in Peers : seen'[p].stamp >= seen[p].stamp,
         \A w \in Writes : req'[w] = req[w],
         \A a \in Writers : req[a].pc = "appended" => req'[a].pc = "appended",
         \A i \in DOMAIN queue' : \E j \in DOMAIN queue : queue'[i] = queue[j],
         \A r \in running' :
            /\ Carries(r.task, req)
            /\ r.answer = "receipt" => Holds(r.task.to, r.task.doc.stamp, seen')
  PROVE  Inv'
<1>1. Cursors'
  BY DEF Inv, Cursors
<1>2. \A t : Carries(t, req) => Carries(t, req')
  BY DEF Carries
<1>3. TasksCarry'
  <2>1. ASSUME NEW i \in DOMAIN queue' PROVE Carries(queue'[i], req')
    BY <1>2 DEF Inv, TasksCarry
  <2> QED
    BY <2>1, <1>2 DEF TasksCarry
<1>4. ReceiptsHold'
  BY DEF ReceiptsHold
<1>5. \A p \in Peers : \A s \in Nat : Holds(p, s, seen) => Holds(p, s, seen')
  BY SMT DEF Inv, TypeInv, Holds, Doc
<1>6. WaitsHold'
  <2> SUFFICES ASSUME NEW w \in DOMAIN waits
               PROVE  \A p \in waits[w] : Holds(p, req[w].doc.stamp, seen')
    BY DEF WaitsHold, Inv, TypeInv
  <2>1. w \in Writes /\ waits[w] \subseteq Peers /\ req[w].doc.stamp \in Nat
    BY DEF Inv, TypeInv, Doc, Writers
  <2> QED
    BY <2>1, <1>5 DEF Inv, WaitsHold
<1>7. ReplicasHoldWrite'
  BY SMT DEF Inv, TypeInv, ReplicasHoldWrite, Doc
<1>8. NoPollOversleeps'
  BY DEF Inv, NoPollOversleeps
<1> QED
  BY <1>1, <1>3, <1>4, <1>6, <1>7, <1>8 DEF Inv

\* The tasks under way before a step.
LEMMA UnderWay ==
  ASSUME Inv
  PROVE  /\ \A r \in running :
               /\ r.task \in Task /\ r.task.to \in Peers /\ r.task.doc \in Doc
               /\ Carries(r.task, req)
               /\ r.answer = "receipt" => Holds(r.task.to, r.task.doc.stamp, seen)
         /\ \A i \in DOMAIN queue : queue[i] \in Task
<1>1. \A r \in running : r.task \in Task
  BY DEF Inv, TypeInv
<1>2. \A t \in Task : t.to \in Peers /\ t.doc \in Doc
  BY DEF Task
<1>3. \A i \in DOMAIN queue : queue[i] \in Task
  BY SMT DEF Inv, TypeInv
<1> QED
  BY <1>1, <1>2, <1>3 DEF Inv, TasksCarry, ReceiptsHold

LEMMA MaxOfTwo ==
  ASSUME NEW a \in Nat, NEW b \in Nat
  PROVE  Max({a, b}) \in {a, b}
BY SMT DEF Max

\* A task goes on carrying its write when a writer moves that has not pushed
\* it yet, starts to wait, or is answered.
LEMMA Moves ==
  ASSUME TypeInv, NEW a \in Writers, NEW to,
         \/ req' = [req EXCEPT ![a] = to]
            /\ (to.pc = "done" \/ req[a].pc \in {"new", "appended", "written"})
         \/ req' = [req EXCEPT ![a].pc = to]
            /\ ((to = "waiting" /\ req[a].pc = "put") \/ req[a].pc \in {"new", "appended", "written"})
  PROVE  \A t : Carries(t, req) => Carries(t, req')
<1> SUFFICES ASSUME NEW t, Carries(t, req), NEW w \in Writes, t.id = <<"put", w>>
             PROVE  \/ req'[w].pc = "done"
                    \/ req'[w].pc \in {"put", "waiting"} /\ t.doc = req'[w].doc
  BY DEF Carries
<1>1. \/ req[w].pc = "done"
      \/ req[w].pc \in {"put", "waiting"} /\ t.doc = req[w].doc
  BY DEF Carries
<1>2. w \in Writers /\ req[w] \in [pc : Pcs, doc : Doc] /\ req[a] \in [pc : Pcs, doc : Doc]
  BY DEF TypeInv, Writers
<1>3. CASE w # a
  BY <1>1, <1>2, <1>3 DEF TypeInv
<1>4. CASE w = a
  <2>1. CASE req[a].pc \in {"new", "appended", "written"}
    BY <1>1, <1>4, <2>1
  <2>2. CASE req' = [req EXCEPT ![a] = to] /\ to.pc = "done"
    BY <1>2, <1>4, <2>2 DEF TypeInv
  <2>3. CASE req' = [req EXCEPT ![a].pc = to] /\ to = "waiting" /\ req[a].pc = "put"
    <3>1. req'[a].pc = "waiting" /\ req'[a].doc = req[a].doc
      BY <1>2, <2>3 DEF TypeInv
    <3> QED
      BY <1>1, <1>4, <3>1, <2>3
  <2> QED
    BY <2>1, <2>2, <2>3
<1> QED
  BY <1>3, <1>4

LEMMA InvStep == Inv /\ [Next]_vars => Inv'
<1> SUFFICES ASSUME Inv, [Next]_vars PROVE Inv'
  OBVIOUS
<1> USE DurabilityAssumption
<1>t. TypeInv
  BY DEF Inv
<1>u. /\ \A r \in running :
            /\ r.task \in Task /\ r.task.to \in Peers /\ r.task.doc \in Doc
            /\ Carries(r.task, req)
            /\ r.answer = "receipt" => Holds(r.task.to, r.task.doc.stamp, seen)
      /\ \A i \in DOMAIN queue : queue[i] \in Task
  BY UnderWay
<1>0. CASE UNCHANGED vars
  <2>1. TypeInv'
    BY <1>0, <1>t DEF TypeInv, vars, pool, box, history
  <2>2. /\ tip' = tip /\ feed' = feed /\ vouched' = vouched /\ waits' = waits
        /\ seen' = seen /\ req' = req /\ queue' = queue /\ running' = running
    BY <1>0 DEF vars, pool, box, history
  <2>3. \A p \in Peers : seen'[p].stamp >= seen[p].stamp
    BY <2>2, <1>t, SMT DEF TypeInv, Doc
  <2> QED
    BY <2>1, <2>2, <2>3, <1>u, Steady
<1>1. CASE Wait
  <2>1. feed' = {tip} /\ UNCHANGED <<row, tip, req, seen, relays, queue, running, waits, vouched, outbox, log>>
    BY <1>1 DEF Wait, pool, box, history
  <2>2. TypeInv'
    BY <2>1, <1>t DEF TypeInv
  <2>3. Cursors' /\ NoPollOversleeps'
    BY <2>1, <1>t, SMT DEF TypeInv, Cursors, NoPollOversleeps
  <2>4. TasksCarry' /\ ReceiptsHold' /\ WaitsHold' /\ ReplicasHoldWrite'
    BY <2>1 DEF Inv, TasksCarry, ReceiptsHold, WaitsHold, ReplicasHoldWrite
  <2> QED
    BY <2>2, <2>3, <2>4 DEF Inv
<1>2. CASE Run
  <2>1. /\ queue # <<>> /\ queue' = Tail(queue)
        /\ running' = running \cup {[task |-> Head(queue), answer |-> "none"]}
        /\ UNCHANGED <<row, tip, feed, req, seen, relays, waits, vouched, outbox, log>>
    BY <1>2 DEF Run, pool, box, history
  <2>2. /\ queue \in Seq(Task) /\ Len(queue) \in Nat /\ Len(queue) > 0
        /\ queue' \in Seq(Task) /\ Len(queue') = Len(queue) - 1
        /\ \A i \in DOMAIN queue' : i + 1 \in DOMAIN queue /\ queue'[i] = queue[i + 1]
    BY <2>1, <1>t, SMT DEF TypeInv
  <2>3. 1 \in DOMAIN queue /\ Head(queue) = queue[1]
    BY <2>2, SMT
  <2>4. [task |-> Head(queue), answer |-> "none"] \in [task : Task, answer : {"none", "receipt", "pong"}]
    BY <2>2, <2>3, <1>u
  <2>5. TypeInv'
    BY <2>1, <2>2, <2>4, <1>t, SMT DEF TypeInv
  <2>6. \A p \in Peers : seen'[p].stamp >= seen[p].stamp
    BY <2>1, <1>t, SMT DEF TypeInv, Doc
  <2>7. Carries(Head(queue), req)
    BY <2>3 DEF Inv, TasksCarry
  <2>8. \A r \in running' :
            /\ Carries(r.task, req)
            /\ r.answer = "receipt" => Holds(r.task.to, r.task.doc.stamp, seen')
    BY <2>1, <2>7, <1>u, SMT
  <2> QED
    BY <2>1, <2>2, <2>5, <2>6, <2>8, Steady
<1>3. ASSUME NEW r \in running, SendFails(r) PROVE Inv'
  <2>1. /\ running' = running \ {r}
        /\ UNCHANGED <<row, tip, feed, req, seen, queue, relays, waits, vouched, outbox, log>>
    BY <1>3 DEF SendFails, pool, box, history
  <2>2. TypeInv'
    BY <2>1, <1>t DEF TypeInv
  <2>3. \A p \in Peers : seen'[p].stamp >= seen[p].stamp
    BY <2>1, <1>t, SMT DEF TypeInv, Doc
  <2> QED
    BY <2>1, <2>2, <2>3, <1>u, Steady
<1>4. ASSUME NEW r \in running, HandleOpBroadcast(r) PROVE Inv'
  <2>1. PICK q : q = r.task.to
    OBVIOUS
  <2>2. PICK ans \in {"receipt", "pong"} :
            ans = IF r.task.id \notin Range(dedup[q]) THEN "receipt" ELSE "pong"
    OBVIOUS
  <2>3. /\ running' = (running \ {r}) \cup {[r EXCEPT !.answer = ans]}
        /\ UNCHANGED <<row, tip, feed, req, queue, waits, vouched, outbox, log>>
    BY <1>4, <2>1, <2>2 DEF HandleOpBroadcast, pool, box, history
  <2>4. \/ ans = "receipt" /\ Merge(q, r.task.doc)
        \/ ans = "pong" /\ seen' = seen
    BY <1>4, <2>1, <2>2 DEF HandleOpBroadcast
  <2>5. relays' \subseteq relays \cup {[r.task EXCEPT !.to = p] : p \in Peers}
    BY <1>4, <2>1, SMT DEF HandleOpBroadcast
  <2>6. \A p \in Peers : [r.task EXCEPT !.to = p] \in Task
    BY <1>u DEF Task
  <2>7. relays' \subseteq Task
    BY <2>5, <2>6, <1>t, SMT DEF TypeInv
  <2>8. /\ seen' \in [Peers -> Doc]
        /\ \A p \in Peers : seen'[p].stamp >= seen[p].stamp
        /\ ans = "receipt" => Holds(q, r.task.doc.stamp, seen')
    <3>1. CASE ans = "receipt" /\ Merge(q, r.task.doc)
      BY <3>1, <1>t, <1>u, <2>1, MergeFacts
    <3>2. CASE ans = "pong" /\ seen' = seen
      BY <3>2, <1>t, SMT DEF TypeInv, Doc
    <3> QED
      BY <3>1, <3>2, <2>4
  <2>9. PICK n : n = [r EXCEPT !.answer = ans]
    OBVIOUS
  <2>10. /\ n \in [task : Task, answer : {"none", "receipt", "pong"}]
         /\ n.task = r.task /\ n.answer = ans
    BY <2>2, <2>9, <1>t DEF TypeInv
  <2>11. TypeInv'
    BY <2>3, <2>7, <2>8, <2>9, <2>10, <1>t DEF TypeInv
  <2>12. \A p \in Peers : \A s \in Nat : Holds(p, s, seen) => Holds(p, s, seen')
    BY <2>8, <1>t, SMT DEF TypeInv, Holds, Doc
  <2>13. ASSUME NEW u \in running'
         PROVE  /\ Carries(u.task, req)
                /\ u.answer = "receipt" => Holds(u.task.to, u.task.doc.stamp, seen')
    <3>1. CASE u = n
      BY <3>1, <2>1, <2>8, <2>10, <1>u
    <3>2. CASE u \in running
      <4>1. u.task.doc.stamp \in Nat /\ u.task.to \in Peers
        BY <3>2, <1>u DEF Doc
      <4> QED
        BY <3>2, <4>1, <1>u, <2>12
    <3> QED
      BY <3>1, <3>2, <2>3, <2>9
  <2> QED
    BY <2>3, <2>8, <2>11, <2>13, Steady
<1>5. ASSUME NEW m \in relays, HandleRelay(m) PROVE Inv'
  <2>1. /\ relays' = relays \ {m}
        /\ UNCHANGED <<row, tip, feed, req, queue, running, waits, vouched, outbox, log>>
    BY <1>5 DEF HandleRelay, pool, box, history
  <2>2. m \in Task /\ m.to \in Peers /\ m.doc \in Doc
    BY <1>t DEF TypeInv, Task
  <2>3. seen' \in [Peers -> Doc] /\ \A p \in Peers : seen'[p].stamp >= seen[p].stamp
    <3>1. CASE seen' = seen
      BY <3>1, <1>t, SMT DEF TypeInv, Doc
    <3>2. CASE Merge(m.to, m.doc)
      BY <3>2, <2>2, <1>t, MergeFacts
    <3> QED
      BY <3>1, <3>2, <1>5 DEF HandleRelay
  <2>4. TypeInv'
    BY <2>1, <2>3, <1>t DEF TypeInv
  <2>5. \A p \in Peers : \A s \in Nat : Holds(p, s, seen) => Holds(p, s, seen')
    BY <2>3, <1>t, SMT DEF TypeInv, Holds, Doc
  <2>6. \A u \in running' :
            /\ Carries(u.task, req)
            /\ u.answer = "receipt" => Holds(u.task.to, u.task.doc.stamp, seen')
    BY <2>1, <2>5, <1>u DEF Doc
  <2> QED
    BY <2>1, <2>3, <2>4, <2>6, Steady
<1>6. ASSUME NEW r \in running, SendDone(r) PROVE Inv'
  <2>1. /\ running' = running \ {r}
        /\ UNCHANGED <<row, tip, feed, req, seen, queue, relays, vouched, outbox, log>>
    BY <1>6 DEF SendDone, pool, box, history
  <2>2. \/ waits' = waits
        \/ r.answer = "receipt" /\ NoteReceipt(r.task.to, r.task.id)
    BY <1>6 DEF SendDone
  <2>3. /\ DOMAIN waits' = DOMAIN waits
        /\ waits' \in [DOMAIN waits -> SUBSET Peers]
        /\ \A w \in DOMAIN waits : \A p \in waits'[w] :
              \/ p \in waits[w]
              \/ r.answer = "receipt" /\ p = r.task.to /\ r.task.id = <<"put", w>>
    <3>1. CASE waits' = waits
      BY <3>1, <1>t DEF TypeInv
    <3>2. CASE r.answer = "receipt" /\ NoteReceipt(r.task.to, r.task.id)
      BY <3>2, <1>t, <1>u DEF NoteReceipt, TypeInv
    <3> QED
      BY <2>2, <3>1, <3>2
  <2>4. TypeInv'
    BY <2>1, <2>3, <1>t DEF TypeInv
  <2>5. WaitsHold'
    <3> SUFFICES ASSUME NEW w \in DOMAIN waits
                 PROVE  \A p \in waits'[w] : Holds(p, req[w].doc.stamp, seen)
      BY <2>1, <2>3 DEF WaitsHold, Inv
    <3>1. w \in Writes /\ req[w].pc = "waiting" /\ \A p \in waits[w] : Holds(p, req[w].doc.stamp, seen)
      BY <1>t DEF Inv, WaitsHold, TypeInv
    <3>2. r.task.id = <<"put", w>> => r.task.doc = req[w].doc
      BY <3>1, <1>u DEF Carries
    <3> QED
      BY <3>1, <3>2, <2>3, <1>u
  <2>6. Cursors' /\ TasksCarry' /\ ReceiptsHold' /\ ReplicasHoldWrite' /\ NoPollOversleeps'
    BY <2>1 DEF Inv, Cursors, TasksCarry, ReceiptsHold, ReplicasHoldWrite, NoPollOversleeps
  <2> QED
    BY <2>4, <2>5, <2>6 DEF Inv
<1>7. CASE StopPool
  <2>1. /\ queue' = <<>>
        /\ UNCHANGED <<row, tip, feed, req, seen, running, relays, waits, vouched, outbox, log>>
    BY <1>7 DEF StopPool, pool, box, history
  <2>2. queue' \in Seq(Task) /\ Len(queue') = 0 /\ DOMAIN queue' = {}
    BY <2>1, SMT
  <2>3. TypeInv'
    BY <2>1, <2>2, <1>t, SMT DEF TypeInv
  <2>4. \A p \in Peers : seen'[p].stamp >= seen[p].stamp
    BY <2>1, <1>t, SMT DEF TypeInv, Doc
  <2> QED
    BY <2>1, <2>2, <2>3, <2>4, <1>u, Steady
<1>8. ASSUME NEW a \in Writers, PutDocument(a) PROVE Inv'
  <2>1. /\ req[a].pc = "new" /\ tip' = tip + 1
        /\ row' = IF row.write = req[a].doc.write THEN row
                  ELSE [write |-> req[a].doc.write, stamp |-> tip']
        /\ req' = [req EXCEPT ![a] = [pc |-> "appended", doc |-> row']]
        /\ UNCHANGED <<feed, seen, queue, running, relays, waits, vouched, outbox, log>>
    BY <1>8 DEF PutDocument, pool, box, history, At
  <2>2. row' \in Doc /\ tip' \in Nat
    BY <2>1, <1>t, SMT DEF TypeInv, Doc
  <2>3. req' \in [Writers -> [pc : Pcs, doc : Doc]]
    BY <2>1, <2>2, <1>t DEF TypeInv, Pcs
  <2>4. TypeInv'
    BY <2>1, <2>2, <2>3, <1>t DEF TypeInv
  <2>5. \A t : Carries(t, req) => Carries(t, req')
    BY <2>1, <1>t, Moves
  <2>6. TasksCarry' /\ ReceiptsHold' /\ ReplicasHoldWrite'
    BY <2>1, <2>5 DEF Inv, TasksCarry, ReceiptsHold, ReplicasHoldWrite
  <2>7. WaitsHold'
    BY <2>1, <1>t DEF Inv, WaitsHold, TypeInv, Writers
  <2>8. Cursors'
    BY <2>1, <1>t, SMT DEF Inv, Cursors, TypeInv
  <2>9. NoPollOversleeps'
    <3>1. req'[a].pc = "appended"
      BY <2>1, <1>t DEF TypeInv
    <3> QED
      BY <3>1 DEF NoPollOversleeps
  <2> QED
    BY <2>4, <2>6, <2>7, <2>8, <2>9 DEF Inv
<1>9. ASSUME NEW a \in Writers, ObserveTip(a) PROVE Inv'
  <2>1. /\ req[a].pc = "appended"
        /\ feed' = {since \in feed : tip <= since}
        /\ req' = [req EXCEPT ![a].pc = "written"]
        /\ UNCHANGED <<row, tip, seen, queue, running, relays, waits, vouched, outbox, log>>
    BY <1>9 DEF ObserveTip, Publish, Go, pool, box, history
  <2>2. req' \in [Writers -> [pc : Pcs, doc : Doc]]
    BY <2>1, <1>t DEF TypeInv, Pcs
  <2>3. TypeInv'
    BY <2>1, <2>2, <1>t DEF TypeInv
  <2>4. \A t : Carries(t, req) => Carries(t, req')
    BY <2>1, <1>t, Moves
  <2>5. TasksCarry' /\ ReceiptsHold' /\ ReplicasHoldWrite'
    BY <2>1, <2>4 DEF Inv, TasksCarry, ReceiptsHold, ReplicasHoldWrite
  <2>6. WaitsHold'
    BY <2>1, <1>t DEF Inv, WaitsHold, TypeInv, Writers
  <2>7. Cursors' /\ feed' \subseteq {tip'}
    BY <2>1, <1>t, SMT DEF Inv, Cursors, TypeInv
  <2> QED
    BY <2>3, <2>5, <2>6, <2>7 DEF Inv, NoPollOversleeps
<1>10. ASSUME NEW a \in Writers, StageWrite(a) PROVE Inv'
  <2>1. /\ req[a].pc = "written"
        /\ outbox' = {req[a].doc.write}
        /\ log' = Append(log, [kind |-> "put", write |-> req[a].doc.write])
        /\ req' = [req EXCEPT ![a].pc = After(a)]
        /\ UNCHANGED <<row, tip, feed, seen, queue, running, relays, waits, vouched>>
    BY <1>10 DEF StageWrite, OutboxPut, Go, pool, box, history
  <2>2. req' \in [Writers -> [pc : Pcs, doc : Doc]]
    BY <2>1, <1>t, SMT DEF TypeInv, Pcs, After
  <2>3. req[a].doc.write \in Nat
    BY <1>t DEF TypeInv, Doc
  <2>4. outbox' \subseteq Nat /\ log' \in Seq([kind : {"put"}, write : Nat] \cup [kind : {"drop"}])
    BY <2>1, <2>3, <1>t, SMT DEF TypeInv
  <2>5. TypeInv'
    BY <2>1, <2>2, <2>4, <1>t DEF TypeInv
  <2>6. \A t : Carries(t, req) => Carries(t, req')
    BY <2>1, <1>t, Moves
  <2>7. Cursors' /\ TasksCarry' /\ ReceiptsHold' /\ ReplicasHoldWrite'
    BY <2>1, <2>6 DEF Inv, Cursors, TasksCarry, ReceiptsHold, ReplicasHoldWrite
  <2>8. WaitsHold' /\ NoPollOversleeps'
    <3>1. /\ req'[a].pc \in {"idle", "put"}
          /\ \A b \in Writers \ {a} : req'[b] = req[b]
      BY <2>1, <1>t DEF TypeInv, After
    <3>2. WaitsHold'
      BY <2>1, <3>1, <1>t DEF Inv, WaitsHold, TypeInv, Writers
    <3>3. NoPollOversleeps'
      BY <2>1, <3>1 DEF Inv, NoPollOversleeps
    <3> QED
      BY <3>2, <3>3
  <2> QED
    BY <2>5, <2>7, <2>8 DEF Inv
<1>11. ASSUME NEW a \in Writers, BroadcastLocalWrite(a) PROVE Inv'
  <2>1. PICK id : id = IF a = flusher THEN <<"flush", tip>> ELSE <<"put", a>>
    OBVIOUS
  <2>2. /\ req[a].pc = "written"
        /\ FanOut(id, req[a].doc)
        /\ req' = [req EXCEPT ![a].pc = After(a)]
        /\ UNCHANGED <<row, tip, feed, seen, running, relays, waits, vouched, outbox, log>>
    BY <1>11, <2>1 DEF BroadcastLocalWrite, Go, pool, box, history
  <2>3. id \in {"put", "flush"} \X Nat /\ req[a].doc \in Doc
    BY <2>1, <1>t DEF TypeInv, Writers
  <2>4. /\ queue' \in Seq(Task) /\ Len(queue') <= MaxQueued
        /\ \A i \in DOMAIN queue' :
              \/ i \in DOMAIN queue /\ queue'[i] = queue[i]
              \/ queue'[i].id = id /\ queue'[i].doc = req[a].doc
    BY <2>2, <2>3, <1>t, FanOutTasks, SMT
  <2>5. req' \in [Writers -> [pc : Pcs, doc : Doc]]
    BY <2>2, <1>t, SMT DEF TypeInv, Pcs, After
  <2>6. TypeInv'
    BY <2>2, <2>4, <2>5, <1>t DEF TypeInv
  <2>7. \A t : Carries(t, req) => Carries(t, req')
    BY <2>2, <1>t, Moves
  <2>8. ASSUME NEW t, t.id = id, t.doc = req[a].doc PROVE Carries(t, req')
    <3>1. a # flusher => req'[a].pc = "put" /\ req'[a].doc = req[a].doc
      BY <2>2, <1>t DEF TypeInv, After
    <3> QED
      BY <3>1, <2>1, <2>8, SMT DEF Carries
  <2>9. TasksCarry'
    BY <2>2, <2>4, <2>7, <2>8 DEF Inv, TasksCarry
  <2>10. Cursors' /\ ReceiptsHold' /\ ReplicasHoldWrite'
    BY <2>2 DEF Inv, Cursors, ReceiptsHold, ReplicasHoldWrite
  <2>11. WaitsHold' /\ NoPollOversleeps'
    <3>1. /\ req'[a].pc \in {"idle", "put"}
          /\ \A b \in Writers \ {a} : req'[b] = req[b]
      BY <2>2, <1>t DEF TypeInv, After
    <3>2. WaitsHold'
      BY <2>2, <3>1, <1>t DEF Inv, WaitsHold, TypeInv, Writers
    <3>3. NoPollOversleeps'
      BY <2>2, <3>1 DEF Inv, NoPollOversleeps
    <3> QED
      BY <3>2, <3>3
  <2> QED
    BY <2>6, <2>9, <2>10, <2>11 DEF Inv
<1>12. ASSUME NEW w \in Writes, WaitFor(w) PROVE Inv'
  <2>1. /\ req[w].pc = "put"
        /\ waits' = [v \in DOMAIN waits \cup {w} |-> IF v = w THEN {} ELSE waits[v]]
        /\ req' = [req EXCEPT ![w].pc = "waiting"]
        /\ UNCHANGED <<row, tip, feed, seen, queue, running, relays, vouched, outbox, log>>
    BY <1>12 DEF WaitFor, Go, pool, box, history
  <2>2. req' \in [Writers -> [pc : Pcs, doc : Doc]]
    BY <2>1, <1>t, ZenonT(40) DEF TypeInv, Pcs
  <2>3. DOMAIN waits' \subseteq Writes /\ waits' \in [DOMAIN waits' -> SUBSET Peers]
    BY <2>1, <1>t DEF TypeInv
  <2>4. TypeInv'
    BY <2>1, <2>2, <2>3, <1>t DEF TypeInv
  <2>5. w \in Writers /\ req'[w].pc = "waiting" /\ req'[w].doc = req[w].doc
    BY <2>1, <1>t DEF TypeInv, Writers
  <2>6. \A t : Carries(t, req) => Carries(t, req')
    BY <2>1, <2>5, <1>t, Moves
  <2>7. Cursors' /\ TasksCarry' /\ ReceiptsHold' /\ ReplicasHoldWrite'
    BY <2>1, <2>6 DEF Inv, Cursors, TasksCarry, ReceiptsHold, ReplicasHoldWrite
  <2>8. WaitsHold'
    BY <2>1, <2>5, <1>t DEF Inv, WaitsHold, TypeInv, Writers
  <2>9. NoPollOversleeps'
    BY <2>1, <1>t DEF Inv, NoPollOversleeps, TypeInv, Writers
  <2> QED
    BY <2>4, <2>7, <2>8, <2>9 DEF Inv
<1>13. ASSUME NEW w \in Writes, NEW timedOut \in BOOLEAN, Answer(w, timedOut) PROVE Inv'
  <2>1. /\ req[w].pc = "waiting"
        /\ vouched' = [p \in Peers |-> IF p \in waits[w] THEN Max({vouched[p], req[w].doc.stamp})
                                       ELSE vouched[p]]
        /\ waits' = [v \in DOMAIN waits \ {w} |-> waits[v]]
        /\ req' = [req EXCEPT ![w] = [pc |-> "done", doc |-> NoDoc]]
        /\ UNCHANGED <<row, tip, feed, seen, queue, running, relays, outbox, log>>
    BY <1>13 DEF Answer, pool, box, history, At
  <2>2. w \in Writers /\ NoDoc \in Doc
    BY DEF Writers, NoDoc, Doc
  <2>3. req' \in [Writers -> [pc : Pcs, doc : Doc]]
    BY <2>1, <2>2, <1>t DEF TypeInv, Pcs
  <2>4. DOMAIN waits' \subseteq Writes /\ waits' \in [DOMAIN waits' -> SUBSET Peers]
    BY <2>1, <1>t DEF TypeInv
  <2>5. req[w].doc.stamp \in Nat /\ \A p \in Peers : vouched[p] \in Nat
    BY <2>2, <1>t DEF TypeInv, Doc
  <2>6. \A p \in Peers : Max({vouched[p], req[w].doc.stamp}) \in {vouched[p], req[w].doc.stamp}
    BY <2>5, MaxOfTwo
  <2>7. \A p \in Peers : vouched'[p] = vouched[p] \/ (p \in waits[w] /\ vouched'[p] = req[w].doc.stamp)
    BY <2>1, <2>6
  <2>8. vouched' \in [Peers -> Nat]
    BY <2>1, <2>5, <2>6
  <2>9. TypeInv'
    BY <2>1, <2>3, <2>4, <2>8, <1>t DEF TypeInv
  <2>10. \A t : Carries(t, req) => Carries(t, req')
    <3>1. PICK d : d = [pc |-> "done", doc |-> NoDoc]
      OBVIOUS
    <3>2. d.pc = "done" /\ req' = [req EXCEPT ![w] = d]
      BY <3>1, <2>1
    <3> QED
      BY <3>2, <2>2, <1>t, Moves
  <2>11. Cursors' /\ TasksCarry' /\ ReceiptsHold'
    BY <2>1, <2>10 DEF Inv, Cursors, TasksCarry, ReceiptsHold
  <2>12. WaitsHold'
    BY <2>1, <1>t DEF Inv, WaitsHold, TypeInv, Writers
  <2>13. NoPollOversleeps'
    BY <2>1, <2>2, <1>t DEF Inv, NoPollOversleeps, TypeInv, Writers
  <2>14. ReplicasHoldWrite'
    <3> SUFFICES ASSUME NEW p \in Peers \ Refusing PROVE seen[p].stamp >= vouched'[p]
      BY <2>1 DEF ReplicasHoldWrite
    <3>1. CASE vouched'[p] = vouched[p]
      BY <3>1 DEF Inv, ReplicasHoldWrite
    <3>2. CASE p \in waits[w] /\ vouched'[p] = req[w].doc.stamp
      BY <3>2, <2>1 DEF Inv, WaitsHold, Holds
    <3> QED
      BY <2>7, <3>1, <3>2
  <2> QED
    BY <2>9, <2>11, <2>12, <2>13, <2>14 DEF Inv
<1>14. CASE DrainAll
  <2>1. /\ req[flusher].pc = "idle" /\ outbox # {}
        /\ outbox' = {} /\ log' = Append(log, [kind |-> "drop"])
        /\ req' = [req EXCEPT ![flusher] = [pc |-> "dropped", doc |-> [NoDoc EXCEPT !.write = CHOOSE w \in outbox : TRUE]]]
        /\ UNCHANGED <<row, tip, feed, seen, queue, running, relays, waits, vouched>>
    BY <1>14 DEF DrainAll, pool, box, history, Go, At, CompactLocked, PutBack, OutboxPut
  <2>a. (CHOOSE w \in outbox : TRUE) \in Nat
    BY <2>1, <1>t DEF TypeInv
  <2>b. PICK n \in Nat : n = CHOOSE w \in outbox : TRUE
    BY <2>a
  <2>c. [NoDoc EXCEPT !.write = n] \in Doc
    BY DEF NoDoc, Doc
  <2>d. PICK d \in Doc : d = [NoDoc EXCEPT !.write = n]
    BY <2>c
  <2>e. req' \in [Writers -> [pc : Pcs, doc : Doc]]
    BY <2>1, <2>b, <2>d, <1>t DEF TypeInv, Pcs
  <2>f. log' \in Seq([kind : {"put"}, write : Nat] \cup [kind : {"drop"}])
    BY <2>1, <1>t, SMT DEF TypeInv
  <2>2. /\ req' \in [Writers -> [pc : Pcs, doc : Doc]] /\ log' \in Seq([kind : {"put"}, write : Nat] \cup [kind : {"drop"}])
    BY <2>e, <2>f
  <2>3. TypeInv'
    BY <2>1, <2>2, <1>t DEF TypeInv
  <2>4. \A p \in Peers : seen'[p].stamp >= seen[p].stamp
    BY <2>1, <1>t, SMTT(40) DEF TypeInv, Doc
  <2>5. /\ \A w \in Writes : req'[w] = req[w]
        /\ \A a \in Writers : req[a].pc = "appended" => req'[a].pc = "appended"
    BY <2>1, <1>t DEF TypeInv, Writers, flusher
  <2> QED
    BY <2>1, <2>3, <2>4, <2>5, <1>u, Steady
<1>15. CASE CompactRemove
  <2>1. /\ req[flusher].pc = "dropped" /\ log' = <<>>
        /\ req' = [req EXCEPT ![flusher].pc = "removed"]
        /\ UNCHANGED <<row, tip, feed, seen, queue, running, relays, waits, vouched, outbox>>
    BY <1>15 DEF CompactRemove, pool, box, history, Go, At, CompactLocked, PutBack, OutboxPut
  <2>a. req' \in [Writers -> [pc : Pcs, doc : Doc]]
    BY <2>1, <1>t DEF TypeInv, Pcs
  <2>b. log' \in Seq([kind : {"put"}, write : Nat] \cup [kind : {"drop"}])
    BY <2>1, SMT
  <2>2. /\ req' \in [Writers -> [pc : Pcs, doc : Doc]] /\ log' \in Seq([kind : {"put"}, write : Nat] \cup [kind : {"drop"}])
    BY <2>a, <2>b
  <2>3. TypeInv'
    BY <2>1, <2>2, <1>t DEF TypeInv
  <2>4. \A p \in Peers : seen'[p].stamp >= seen[p].stamp
    BY <2>1, <1>t, SMT DEF TypeInv, Doc
  <2>5. /\ \A w \in Writes : req'[w] = req[w]
        /\ \A a \in Writers : req[a].pc = "appended" => req'[a].pc = "appended"
    BY <2>1, <1>t DEF TypeInv, Writers, flusher
  <2> QED
    BY <2>1, <2>3, <2>4, <2>5, <1>u, Steady
<1>16. CASE CompactRename
  <2>1. /\ req[flusher].pc = "removed"
        /\ req' = [req EXCEPT ![flusher].pc = "new"]
        /\ UNCHANGED <<row, tip, feed, seen, queue, running, relays, waits, vouched, outbox, log>>
    BY <1>16 DEF CompactRename, pool, box, history, Go, At, CompactLocked, PutBack, OutboxPut
  <2>2. /\ req' \in [Writers -> [pc : Pcs, doc : Doc]]
    BY <2>1, <1>t DEF TypeInv, Pcs
  <2>3. TypeInv'
    BY <2>1, <2>2, <1>t DEF TypeInv
  <2>4. \A p \in Peers : seen'[p].stamp >= seen[p].stamp
    BY <2>1, <1>t, SMT DEF TypeInv, Doc
  <2>5. /\ \A w \in Writes : req'[w] = req[w]
        /\ \A a \in Writers : req[a].pc = "appended" => req'[a].pc = "appended"
    BY <2>1, <1>t DEF TypeInv, Writers, flusher
  <2> QED
    BY <2>1, <2>3, <2>4, <2>5, <1>u, Steady
<1>17. CASE ReplayFails
  <2>1. /\ req[flusher].pc = "new"
        /\ outbox' = {req[flusher].doc.write}
        /\ log' = Append(log, [kind |-> "put", write |-> req[flusher].doc.write])
        /\ req' = [req EXCEPT ![flusher].pc = "idle"]
        /\ UNCHANGED <<row, tip, feed, seen, queue, running, relays, waits, vouched>>
    BY <1>17 DEF ReplayFails, pool, box, history, Go, At, CompactLocked, PutBack, OutboxPut
  <2>a. flusher \in Writers /\ req[flusher].doc.write \in Nat
    BY <1>t DEF TypeInv, Doc, Writers
  <2>b. req' \in [Writers -> [pc : Pcs, doc : Doc]]
    BY <2>1, <1>t DEF TypeInv, Pcs
  <2>c. log' \in Seq([kind : {"put"}, write : Nat] \cup [kind : {"drop"}]) /\ outbox' \subseteq Nat
    BY <2>1, <2>a, <1>t, SMT DEF TypeInv
  <2>2. /\ req' \in [Writers -> [pc : Pcs, doc : Doc]] /\ log' \in Seq([kind : {"put"}, write : Nat] \cup [kind : {"drop"}]) /\ outbox' \subseteq Nat
    BY <2>b, <2>c
  <2>3. TypeInv'
    BY <2>1, <2>2, <1>t DEF TypeInv
  <2>4. \A p \in Peers : seen'[p].stamp >= seen[p].stamp
    BY <2>1, <1>t, SMT DEF TypeInv, Doc
  <2>5. /\ \A w \in Writes : req'[w] = req[w]
        /\ \A a \in Writers : req[a].pc = "appended" => req'[a].pc = "appended"
    BY <2>1, <1>t DEF TypeInv, Writers, flusher
  <2> QED
    BY <2>1, <2>3, <2>4, <2>5, <1>u, Steady
<1>18. CASE Isolate
  <2>1. UNCHANGED <<row, tip, feed, req, seen, queue, running, relays, waits, vouched, outbox, log>>
    BY <1>18 DEF Isolate, pool, box, history
  <2>2. TypeInv'
    BY <2>1, <1>t DEF TypeInv
  <2>3. \A p \in Peers : seen'[p].stamp >= seen[p].stamp
    BY <2>1, <1>t, SMT DEF TypeInv, Doc
  <2> QED
    BY <2>1, <2>2, <2>3, <1>u, Steady
<1>19. CASE Reconnect
  <2>1. UNCHANGED <<row, tip, feed, req, seen, queue, running, relays, waits, vouched, outbox, log>>
    BY <1>19 DEF Reconnect, pool, box, history
  <2>2. TypeInv'
    BY <2>1, <1>t DEF TypeInv
  <2>3. \A p \in Peers : seen'[p].stamp >= seen[p].stamp
    BY <2>1, <1>t, SMT DEF TypeInv, Doc
  <2> QED
    BY <2>1, <2>2, <2>3, <1>u, Steady
<1>20. CASE Crash
  <2>1. /\ req' = [a \in Writers |->
                     IF a = flusher THEN [pc |-> "idle", doc |-> NoDoc]
                     ELSE IF req[a].pc = "new" THEN req[a] ELSE [pc |-> "done", doc |-> NoDoc]]
        /\ queue' = <<>> /\ running' = {} /\ waits' = <<>> /\ feed' = {} /\ outbox' = {}
        /\ UNCHANGED <<row, tip, seen, relays, vouched, log>>
    BY <1>20 DEF Crash, history, At
  <2>2. NoDoc \in Doc
    BY DEF NoDoc, Doc
  <2>3. req' \in [Writers -> [pc : Pcs, doc : Doc]]
    BY <2>1, <2>2, <1>t DEF TypeInv, Pcs
  <2>4. queue' \in Seq(Task) /\ Len(queue') = 0 /\ DOMAIN queue' = {} /\ DOMAIN waits' = {}
    BY <2>1, SMT
  <2>5. waits' \in [DOMAIN waits' -> SUBSET Peers]
    BY <2>1, SMT
  <2>6. TypeInv'
    BY <2>1, <2>3, <2>4, <2>5, <1>t, SMT DEF TypeInv
  <2>7. \A w \in Writes : req'[w].pc # "waiting"
    BY <2>1 DEF Writers, flusher
  <2>8. Cursors' /\ TasksCarry' /\ ReceiptsHold' /\ NoPollOversleeps'
    BY <2>1, <2>4 DEF Cursors, TasksCarry, ReceiptsHold, NoPollOversleeps
  <2>9. WaitsHold' /\ ReplicasHoldWrite'
    BY <2>1, <2>4, <2>7 DEF Inv, WaitsHold, ReplicasHoldWrite
  <2> QED
    BY <2>6, <2>8, <2>9 DEF Inv
<1>21. CASE Boot
  <2>1. /\ outbox' = Loaded(log)
        /\ UNCHANGED <<row, tip, feed, req, seen, queue, running, relays, waits, vouched, log>>
    BY <1>21 DEF Boot, history
  <2>2. outbox' \subseteq Nat
    BY <2>1, <1>t, SMT DEF TypeInv, Loaded
  <2>3. TypeInv'
    BY <2>1, <2>2, <1>t DEF TypeInv
  <2>4. \A p \in Peers : seen'[p].stamp >= seen[p].stamp
    BY <2>1, <1>t, SMT DEF TypeInv, Doc
  <2> QED
    BY <2>1, <2>3, <2>4, <1>u, Steady
<1> QED
  BY <1>0, <1>1, <1>2, <1>3, <1>4, <1>5, <1>6, <1>7, <1>8, <1>9, <1>10, <1>11, <1>12, <1>13,
     <1>14, <1>15, <1>16, <1>17, <1>18, <1>19, <1>20, <1>21 DEF Next

-----------------------------------------------------------------------------

LEMMA Invariance == Spec => []Inv
<1>1. Init => Inv
  BY InvInit
<1>2. Inv /\ [Next]_vars => Inv'
  BY InvStep
<1> QED
  BY <1>1, <1>2, PTL DEF Spec

\* A durability report never names a peer that does not hold the write, peers
\* that refuse it aside, whatever is lost, repeated, relayed or late
\* (HandleOpBroadcast, NoteReceipt, WaitForDurability).
THEOREM ReportsAreTrue == Spec => []ReplicasHoldWrite
<1>1. Inv => ReplicasHoldWrite
  BY DEF Inv
<1> QED
  BY <1>1, Invariance, PTL

\* No long poll sleeps through a published change, for any number of writers
\* between the append and the publication (ChangeFeed::Publish, Wait).
THEOREM PollsAreWoken == Spec => []NoPollOversleeps
<1>1. Inv => NoPollOversleeps
  BY DEF Inv
<1> QED
  BY <1>1, Invariance, PTL

-----------------------------------------------------------------------------
(* The outbox and the row *)

\* The writes that have been made, and 0 for the row before any.
Made == {w \in Writes : req[w].pc # "new"} \cup {0}

\* What is staged: in memory, or in what the next boot loads.
Held == IF up THEN outbox ELSE Loaded(log)

\* Writes are made in order and each writes its own value; the process that
\* ended has no writer left; the store has one entry, and outside of a drain
\* the log replays to it.
Shape ==
    /\ crossed \in BOOLEAN /\ up \in BOOLEAN
    /\ \A v, w \in Writes : v < w /\ req[w].pc # "new" => req[v].pc # "new"
    /\ \A w \in Writes : req[w].pc = "new" => req[w].doc.write = w
    /\ ~up => /\ req[flusher].pc = "idle"
              /\ \A w \in Writes : req[w].pc \in {"new", "done"}
    /\ \A x, y \in outbox : x = y
    /\ up /\ ~Draining => outbox = Loaded(log)
    /\ Draining => outbox = {}
    /\ req[flusher].pc = "removed" => log = <<>>

\* Until something crosses: the row shows the last write made, and when no
\* request is at work, so do the outbox and the entry being flushed.
Current ==
    ~crossed =>
        /\ row.write \in Made /\ \A v \in Made : v <= row.write
        /\ ~AtWork => Held \subseteq {row.write}
        /\ ~AtWork /\ req[flusher].pc # "idle" => req[flusher].doc.write = row.write

StagedHeld ==
    staged # 0 /\ ~crossed =>
        \/ staged \in Held \cup pushed
        \/ req[flusher].pc # "idle" /\ req[flusher].doc.write = staged

BoxInv == Shape /\ Current /\ StagedHeld


\* A log loads to its last put record.
LEMMA LoadedIs ==
  ASSUME TypeInv
  PROVE  /\ Loaded(<<>>) = {}
         /\ \A x, y \in Loaded(log) : x = y
         /\ \A w \in Nat : Loaded(Append(log, [kind |-> "put", write |-> w])) = {w}
<1>1. Loaded(<<>>) = {}
  BY SMT DEF Loaded
<1>2. \A x, y \in Loaded(log) : x = y
  <2> DEFINE puts == {i \in DOMAIN log : log[i].kind = "put"}
             last == {j \in puts : \A k \in puts : k <= j}
  <2>1. Loaded(log) = {log[i].write : i \in last}
    BY DEF Loaded
  <2>2. \A i, j \in last : i = j
    <3>1. DOMAIN log \subseteq Nat
      BY SMT DEF TypeInv
    <3> QED
      BY <3>1, SMT
  <2> HIDE DEF last
  <2> QED
    BY <2>1, <2>2
<1>3. ASSUME NEW w \in Nat
      PROVE  Loaded(Append(log, [kind |-> "put", write |-> w])) = {w}
  <2> DEFINE R == [kind : {"put"}, write : Nat] \cup [kind : {"drop"}]
             e == [kind |-> "put", write |-> w]
             n == Len(log)
             l == Append(log, e)
             puts == {i \in DOMAIN l : l[i].kind = "put"}
             last == {j \in puts : \A k \in puts : k <= j}
  <2>1. log \in Seq(R) /\ e \in R /\ n \in Nat /\ e.kind = "put" /\ e.write = w
    BY SMT DEF TypeInv
  <2> HIDE DEF R, e
  <2>2. DOMAIN l = 1 .. n + 1 /\ l[n + 1] = e
    BY <2>1, SMT
  <2> HIDE DEF n, l
  <2>3. last = {n + 1}
    BY <2>1, <2>2, SMT
  <2>4. Loaded(l) = {l[i].write : i \in last}
    BY DEF Loaded
  <2> HIDE DEF last
  <2>5. Loaded(l) = {l[n + 1].write}
    BY <2>3, <2>4
  <2> QED
    BY <2>1, <2>2, <2>5 DEF l, e
<1> QED
  BY <1>1, <1>2, <1>3

\* Facts of the writers.
LEMMA WriterIs ==
  ASSUME TypeInv
  PROVE  /\ flusher \in Writers /\ Writes \subseteq Writers /\ flusher \notin Writes
         /\ Writes \subseteq Nat
         /\ \A a \in Writers : req[a] \in [pc : Pcs, doc : Doc] /\ req[a].doc.write \in Nat
BY DurabilityAssumption DEF TypeInv, Writers, flusher, Doc

\* Steps that only move a writer on, and not into or out of the work that the
\* invariant tells apart.
LEMMA BoxMoves ==
  ASSUME Inv, BoxInv, UNCHANGED <<row, up, outbox, log, staged, crossed, pushed>>,
         up \/ req' = req,
         \A w \in Writes :
            /\ req'[w].pc = "new" <=> req[w].pc = "new"
            /\ req'[w].pc \in {"appended", "written"} <=> req[w].pc \in {"appended", "written"}
            /\ req[w].pc = "new" => req'[w] = req[w],
         req'[flusher].doc = req[flusher].doc,
         \A s \in {"idle", "dropped", "removed"} : req'[flusher].pc = s <=> req[flusher].pc = s
  PROVE  BoxInv'
<1>1. AtWork' = AtWork /\ Draining' = Draining /\ Made' = Made
  BY SMT DEF AtWork, Draining, Made
<1>2. Held' = Held
  BY DEF Held, Loaded
<1>3. Loaded(log)' = Loaded(log)
  BY DEF Loaded
<1>4. Shape'
  <2>1. ~up' => /\ req'[flusher].pc = "idle"
                /\ \A w \in Writes : req'[w].pc \in {"new", "done"}
    BY DEF BoxInv, Shape
  <2>2. \A v, w \in Writes : v < w /\ req'[w].pc # "new" => req'[v].pc # "new"
    BY DEF BoxInv, Shape
  <2>3. \A w \in Writes : req'[w].pc = "new" => req'[w].doc.write = w
    BY DEF BoxInv, Shape
  <2>4. /\ \A x, y \in outbox' : x = y
        /\ up' /\ ~Draining' => outbox' = Loaded(log)'
        /\ Draining' => outbox' = {}
        /\ req'[flusher].pc = "removed" => log' = <<>>
        /\ crossed' \in BOOLEAN /\ up' \in BOOLEAN
    BY <1>1, <1>3 DEF BoxInv, Shape
  <2> QED
    BY <2>1, <2>2, <2>3, <2>4 DEF Shape
<1>5. Current'
  BY <1>1, <1>2 DEF BoxInv, Current
<1>6. StagedHeld'
  BY <1>2 DEF BoxInv, StagedHeld
<1> QED
  BY <1>4, <1>5, <1>6 DEF BoxInv


\* A request writes the row: it is the last write made.
LEMMA BoxPut ==
  ASSUME Inv, BoxInv, NEW w \in Writes, PutDocument(w)
  PROVE  BoxInv'
<1>w. /\ flusher \in Writers /\ w \in Writers /\ w # flusher /\ w \in Nat /\ flusher = 0
      /\ Writes \subseteq Nat /\ Writes \subseteq Writers
      /\ req \in [Writers -> [pc : Pcs, doc : Doc]]
  BY WriterIs DEF Inv, TypeInv, flusher
<1>1. /\ up /\ req[w].pc = "new" /\ \A v \in Writes : v < w => req[v].pc # "new"
      /\ req' = [req EXCEPT ![w] = At("appended", row')]
      /\ row' = IF row.write = req[w].doc.write THEN row
                ELSE [write |-> req[w].doc.write, stamp |-> tip']
      /\ UNCHANGED <<up, outbox, log, staged, pushed>>
  BY DEF PutDocument, box
<1>2. crossed' = crossed
  BY <1>w DEF PutDocument, BoxInv, Shape
<1>3. /\ req'[w].pc = "appended" /\ req'[flusher] = req[flusher]
      /\ \A v \in Writes \ {w} : req'[v] = req[v]
  BY <1>1, <1>w DEF At
<1>4. row'.write = w
  BY <1>1 DEF BoxInv, Shape
<1>5. AtWork' /\ Draining' = Draining /\ Held' = Held
  BY <1>1, <1>3 DEF AtWork, Draining, Held, Loaded
<1>6. Made' = Made \cup {w} /\ \A v \in Made' : v <= w
  <2>1. Made' = Made \cup {w}
    BY <1>3 DEF Made
  <2>2. ASSUME NEW v \in Writes, req[v].pc # "new" PROVE v <= w
    <3>1. ~ (w < v)
      BY <1>1, <2>2 DEF BoxInv, Shape
    <3>2. v \in Nat /\ w \in Nat
      BY <1>w
    <3> QED
      BY <3>1, <3>2, SMT
  <2>3. \A v \in Made : v <= w
    BY <2>2, <1>w, SMT DEF Made
  <2> QED
    BY <2>1, <2>3, <1>w, SMT
<1>7. Shape'
  <2>1. \A u, v \in Writes : u < v /\ req'[v].pc # "new" => req'[u].pc # "new"
    BY <1>1, <1>3, <1>w DEF BoxInv, Shape
  <2>2. \A v \in Writes : req'[v].pc = "new" => req'[v].doc.write = v
    BY <1>3 DEF BoxInv, Shape
  <2>3. \A x, y \in outbox' : x = y
    BY <1>1 DEF BoxInv, Shape
  <2>4. Loaded(log)' = Loaded(log)
    BY <1>1 DEF Loaded
  <2>5. /\ ~Draining => outbox = Loaded(log)
        /\ Draining => outbox = {}
    BY <1>1 DEF BoxInv, Shape
  <2>6. req[flusher].pc = "removed" => log = <<>>
    BY DEF BoxInv, Shape
  <2>7. crossed \in BOOLEAN /\ up \in BOOLEAN
    BY DEF BoxInv, Shape
  <2>8. /\ up' /\ ~Draining' => outbox' = Loaded(log)'
        /\ Draining' => outbox' = {}
    BY <1>1, <1>5, <2>4, <2>5
  <2>9. req'[flusher].pc = "removed" => log' = <<>>
    BY <1>1, <1>3, <2>6
  <2>10. crossed' \in BOOLEAN /\ up' \in BOOLEAN /\ up'
    BY <1>1, <1>2, <2>7
  <2> QED
    BY <2>1, <2>2, <2>3, <2>8, <2>9, <2>10 DEF Shape
<1>8. Current'
  BY <1>4, <1>5, <1>6 DEF Current
<1>9. StagedHeld'
  BY <1>1, <1>2, <1>3, <1>5 DEF BoxInv, StagedHeld
<1> QED
  BY <1>7, <1>8, <1>9 DEF BoxInv

\* The flush writes the row: what it shows already, or it crosses a request.
LEMMA BoxReplay ==
  ASSUME Inv, BoxInv, PutDocument(flusher)
  PROVE  BoxInv'
<1>w. /\ flusher \in Writers /\ flusher \notin Writes /\ Writes \subseteq Writers
      /\ req \in [Writers -> [pc : Pcs, doc : Doc]]
  BY WriterIs DEF Inv, TypeInv
<1>1. /\ up /\ req[flusher].pc = "new"
      /\ req' = [req EXCEPT ![flusher] = At("appended", row')]
      /\ row' = IF row.write = req[flusher].doc.write THEN row
                ELSE [write |-> req[flusher].doc.write, stamp |-> tip']
      /\ crossed' = (crossed \/ AtWork)
      /\ UNCHANGED <<up, outbox, log, staged, pushed>>
  BY DEF PutDocument, box
<1>2. crossed' \in BOOLEAN /\ (~crossed' => ~crossed /\ ~AtWork)
  BY <1>1 DEF BoxInv, Shape
<1>3. /\ req'[flusher].pc = "appended" /\ req'[flusher].doc = row'
      /\ \A v \in Writes : req'[v] = req[v]
      /\ row'.write = req[flusher].doc.write
  BY <1>1, <1>w DEF At
<1>4. AtWork' = AtWork /\ Made' = Made /\ Held' = Held /\ ~Draining /\ ~Draining'
  BY <1>1, <1>3 DEF AtWork, Draining, Held, Loaded, Made
<1>5. Shape'
  <2>1. /\ \A v, w \in Writes : v < w /\ req'[w].pc # "new" => req'[v].pc # "new"
        /\ \A w \in Writes : req'[w].pc = "new" => req'[w].doc.write = w
    BY <1>3 DEF BoxInv, Shape
  <2>2. \A x, y \in outbox : x = y
    BY DEF BoxInv, Shape
  <2>3. outbox = Loaded(log)
    BY <1>1, <1>4 DEF BoxInv, Shape
  <2>4. Loaded(log)' = Loaded(log)
    BY <1>1 DEF Loaded
  <2>5. outbox' = Loaded(log)' /\ \A x, y \in outbox' : x = y
    BY <1>1, <2>2, <2>3, <2>4
  <2>6. up' \in BOOLEAN /\ up'
    BY <1>1 DEF BoxInv, Shape
  <2>7. req'[flusher].pc # "removed"
    BY <1>3
  <2> QED
    BY <1>2, <1>4, <2>1, <2>5, <2>6, <2>7 DEF Shape
<1>6. ~crossed' => row'.write = row.write
  BY <1>1, <1>2, <1>3 DEF BoxInv, Current
<1>7. Current'
  BY <1>2, <1>3, <1>4, <1>6 DEF BoxInv, Current
<1>8. StagedHeld'
  BY <1>1, <1>2, <1>3, <1>4 DEF BoxInv, StagedHeld
<1> QED
  BY <1>5, <1>7, <1>8 DEF BoxInv

\* A write is staged over an older one: the row shows it, or it crosses.
LEMMA BoxStage ==
  ASSUME Inv, BoxInv, NEW a \in Writers, StageWrite(a)
  PROVE  BoxInv'
<1>w. /\ flusher \in Writers /\ flusher \notin Writes /\ Writes \subseteq Writers
      /\ req \in [Writers -> [pc : Pcs, doc : Doc]] /\ req[a].doc.write \in Nat
      /\ Writers = Writes \cup {flusher}
  BY WriterIs DEF Inv, TypeInv, Writers
<1> DEFINE d == req[a].doc.write
<1>1. /\ req[a].pc = "written" /\ ~Draining
      /\ outbox' = {d} /\ log' = Append(log, [kind |-> "put", write |-> d]) /\ staged' = d
      /\ crossed' = (crossed \/ req[a].doc # row
                             \/ (a # flusher /\ req[flusher].pc # "idle")
                             \/ (a = flusher /\ outbox # {}))
      /\ req' = [req EXCEPT ![a].pc = After(a)]
      /\ UNCHANGED <<row, up, pushed>>
  BY DEF StageWrite, OutboxPut, Go
<1>2. /\ crossed' \in BOOLEAN
      /\ ~crossed' => /\ ~crossed /\ req[a].doc = row
                      /\ a = flusher \/ req[flusher].pc = "idle"
  BY <1>1 DEF BoxInv, Shape
<1>3. /\ req'[a].pc = After(a) /\ req'[a].doc = req[a].doc
      /\ \A v \in Writers \ {a} : req'[v] = req[v]
      /\ a = flusher => After(a) = "idle"
      /\ a # flusher => After(a) = "put"
  BY <1>1, <1>w DEF After
<1>4. up
  BY <1>1, <1>w DEF BoxInv, Shape
<1>5. Loaded(log') = {d} /\ Held' = {d}
  <2>1. Loaded(log') = {d}
    BY <1>1, <1>w, LoadedIs DEF Inv
  <2> QED
    BY <1>1, <1>4, <2>1 DEF Held
<1>6. ~Draining' /\ Made' = Made
  BY <1>1, <1>3, <1>w DEF Draining, Made
<1>7. Shape'
  <2>1. \A u, v \in Writes : u < v /\ req'[v].pc # "new" => req'[u].pc # "new"
    BY <1>1, <1>3, <1>w DEF BoxInv, Shape
  <2>2. \A v \in Writes : req'[v].pc = "new" => req'[v].doc.write = v
    BY <1>1, <1>3, <1>w DEF BoxInv, Shape
  <2>3. /\ \A x, y \in outbox' : x = y
        /\ up' /\ ~Draining' => outbox' = Loaded(log)'
        /\ Draining' => outbox' = {}
        /\ req'[flusher].pc = "removed" => log' = <<>>
        /\ crossed' \in BOOLEAN /\ up' \in BOOLEAN /\ up'
    BY <1>1, <1>2, <1>4, <1>5, <1>6 DEF BoxInv, Shape, Draining
  <2> QED
    BY <2>1, <2>2, <2>3 DEF Shape
<1>8. Current'
  <2>1. ~crossed' => req'[flusher].pc = "idle"
    BY <1>2, <1>3, <1>w
  <2>2. ~crossed' => d = row.write
    BY <1>2
  <2> QED
    BY <1>1, <1>2, <1>5, <1>6, <2>1, <2>2 DEF BoxInv, Current
<1>9. StagedHeld'
  BY <1>1, <1>5 DEF StagedHeld
<1> QED
  BY <1>7, <1>8, <1>9 DEF BoxInv

\* A push: nothing older is staged or being flushed, or it crosses.
LEMMA BoxPush ==
  ASSUME Inv, BoxInv, NEW a \in Writers, BroadcastLocalWrite(a)
  PROVE  BoxInv'
<1>w. /\ flusher \in Writers /\ flusher \notin Writes /\ Writes \subseteq Writers
      /\ req \in [Writers -> [pc : Pcs, doc : Doc]] /\ req[a].doc.write \in Nat
      /\ Writers = Writes \cup {flusher}
  BY WriterIs DEF Inv, TypeInv, Writers
<1>1. /\ req[a].pc = "written"
      /\ pushed' = pushed \cup {req[a].doc.write}
      /\ crossed' = (crossed \/ (a # flusher /\ (req[flusher].pc # "idle" \/ outbox # {})))
      /\ req' = [req EXCEPT ![a].pc = After(a)]
      /\ UNCHANGED <<row, up, outbox, log, staged>>
  BY DEF BroadcastLocalWrite, Go, box
<1>2. /\ crossed' \in BOOLEAN
      /\ ~crossed' => ~crossed /\ (a = flusher \/ (req[flusher].pc = "idle" /\ outbox = {}))
  BY <1>1 DEF BoxInv, Shape
<1>3. /\ req'[a].pc = After(a) /\ req'[a].doc = req[a].doc
      /\ \A v \in Writers \ {a} : req'[v] = req[v]
      /\ a = flusher => After(a) = "idle"
      /\ a # flusher => After(a) = "put"
  BY <1>1, <1>w DEF After
<1>4. up /\ Held = outbox /\ Held' = outbox
  BY <1>1, <1>w DEF BoxInv, Shape, Held
<1>5. Draining' = Draining /\ Made' = Made /\ Loaded(log)' = Loaded(log)
  BY <1>1, <1>3, <1>w, SMT DEF Draining, Made, Loaded
<1>6. a = flusher => AtWork' = AtWork
  BY <1>3, <1>w DEF AtWork
<1>7. Shape'
  <2>1. \A u, v \in Writes : u < v /\ req'[v].pc # "new" => req'[u].pc # "new"
    BY <1>1, <1>3, <1>w DEF BoxInv, Shape
  <2>2. \A v \in Writes : req'[v].pc = "new" => req'[v].doc.write = v
    BY <1>1, <1>3, <1>w DEF BoxInv, Shape
  <2>3. /\ \A x, y \in outbox' : x = y
        /\ up' /\ ~Draining' => outbox' = Loaded(log)'
        /\ Draining' => outbox' = {}
        /\ crossed' \in BOOLEAN /\ up' \in BOOLEAN /\ up'
    BY <1>1, <1>2, <1>4, <1>5 DEF BoxInv, Shape
  <2>4. req'[flusher].pc = "removed" => log' = <<>>
    BY <1>1, <1>3, <1>w DEF BoxInv, Shape
  <2> QED
    BY <2>1, <2>2, <2>3, <2>4 DEF Shape
<1>8. Current'
  <2>1. CASE a = flusher
    <3>1. req'[flusher].pc = "idle"
      BY <1>3, <2>1
    <3> QED
      BY <1>1, <1>2, <1>4, <1>5, <1>6, <2>1, <3>1 DEF BoxInv, Current
  <2>2. CASE a # flusher
    <3>1. ~crossed' => req'[flusher].pc = "idle" /\ Held' = {}
      BY <1>2, <1>3, <1>4, <1>w, <2>2
    <3> QED
      BY <1>1, <1>2, <1>5, <3>1 DEF BoxInv, Current
  <2> QED
    BY <2>1, <2>2
<1>9. StagedHeld'
  <2>1. CASE a = flusher
    BY <1>1, <1>2, <1>4, <2>1 DEF BoxInv, StagedHeld
  <2>2. CASE a # flusher
    <3>1. req'[flusher] = req[flusher]
      BY <1>3, <1>w, <2>2
    <3> QED
      BY <1>1, <1>2, <1>4, <3>1 DEF BoxInv, StagedHeld
  <2> QED
    BY <2>1, <2>2
<1> QED
  BY <1>7, <1>8, <1>9 DEF BoxInv


\* The flush takes the entry, replaces the log, and may put the entry back.
LEMMA BoxDrain ==
  ASSUME Inv, BoxInv, DrainAll
  PROVE  BoxInv'
<1>w. /\ flusher \in Writers /\ flusher \notin Writes /\ Writes \subseteq Writers
      /\ req \in [Writers -> [pc : Pcs, doc : Doc]]
  BY WriterIs DEF Inv, TypeInv
<1>1. PICK w \in outbox : req' = [req EXCEPT ![flusher] = At("dropped", [NoDoc EXCEPT !.write = w])]
  BY DEF DrainAll
<1>2. /\ up /\ outbox' = {} /\ req[flusher].pc = "idle"
      /\ UNCHANGED <<row, up, staged, crossed, pushed>>
  BY DEF DrainAll, history
<1>3. /\ req'[flusher].pc = "dropped" /\ req'[flusher].doc.write = w
      /\ \A v \in Writes : req'[v] = req[v]
  BY <1>1, <1>w DEF At, NoDoc
<1>4. outbox = {w} /\ Held = {w} /\ Held' = {}
  BY <1>2 DEF BoxInv, Shape, Held
<1>5. AtWork' = AtWork /\ Made' = Made /\ Draining'
  BY <1>3 DEF AtWork, Made, Draining
<1>6. Shape'
  BY <1>2, <1>3, <1>5 DEF BoxInv, Shape
<1>7. Current'
  BY <1>2, <1>3, <1>4, <1>5 DEF BoxInv, Current
<1>8. StagedHeld'
  BY <1>2, <1>3, <1>4 DEF BoxInv, StagedHeld
<1> QED
  BY <1>6, <1>7, <1>8 DEF BoxInv

LEMMA BoxCompact ==
  ASSUME Inv, BoxInv, CompactRemove \/ CompactRename
  PROVE  BoxInv'
<1>w. /\ flusher \in Writers /\ flusher \notin Writes /\ Writes \subseteq Writers
      /\ req \in [Writers -> [pc : Pcs, doc : Doc]]
  BY WriterIs DEF Inv, TypeInv
<1>1. /\ req[flusher].pc \in {"dropped", "removed"}
      /\ \/ req' = [req EXCEPT ![flusher].pc = "removed"] /\ log' = <<>>
         \/ req' = [req EXCEPT ![flusher].pc = "new"] /\ log' = log /\ req[flusher].pc = "removed"
      /\ UNCHANGED <<row, up, outbox, staged, crossed, pushed>>
  BY DEF CompactRemove, CompactRename, CompactLocked, Go, box, history
<1>2. /\ req'[flusher].pc \in {"removed", "new"} /\ req'[flusher].doc = req[flusher].doc
      /\ \A v \in Writes : req'[v] = req[v]
      /\ log' = <<>>
  BY <1>1, <1>w, SMT DEF BoxInv, Shape
<1>3. up /\ outbox = {} /\ Held = {} /\ Held' = {}
  BY <1>1 DEF BoxInv, Shape, Held, Draining
<1>4. AtWork' = AtWork /\ Made' = Made
  BY <1>2 DEF AtWork, Made
<1>5. Loaded(log)' = {}
  BY <1>2, SMT DEF Loaded
<1>6. Shape'
  BY <1>1, <1>2, <1>3, <1>5 DEF BoxInv, Shape
<1>7. Current'
  BY <1>1, <1>2, <1>3, <1>4 DEF BoxInv, Current
<1>8. StagedHeld'
  BY <1>1, <1>2, <1>3 DEF BoxInv, StagedHeld
<1> QED
  BY <1>6, <1>7, <1>8 DEF BoxInv

LEMMA BoxPutBack ==
  ASSUME Inv, BoxInv, ReplayFails
  PROVE  BoxInv'
<1>w. /\ flusher \in Writers /\ flusher \notin Writes /\ Writes \subseteq Writers
      /\ req \in [Writers -> [pc : Pcs, doc : Doc]] /\ req[flusher].doc.write \in Nat
  BY WriterIs DEF Inv, TypeInv
<1> DEFINE d == req[flusher].doc.write
<1>1. /\ req[flusher].pc = "new"
      /\ outbox' = {d} /\ log' = Append(log, [kind |-> "put", write |-> d])
      /\ crossed' = (crossed \/ outbox # {})
      /\ req' = [req EXCEPT ![flusher].pc = "idle"]
      /\ UNCHANGED <<row, up, staged, pushed>>
  BY DEF ReplayFails, PutBack, OutboxPut, Go
<1>2. crossed' \in BOOLEAN /\ (~crossed' => ~crossed /\ outbox = {})
  BY <1>1 DEF BoxInv, Shape
<1>3. /\ req'[flusher].pc = "idle" /\ req'[flusher].doc = req[flusher].doc
      /\ \A v \in Writes : req'[v] = req[v]
  BY <1>1, <1>w
<1>4. up /\ Held = outbox
  BY <1>1 DEF BoxInv, Shape, Held
<1>5. Loaded(log') = {d} /\ Held' = {d}
  <2>1. Loaded(log') = {d}
    BY <1>1, <1>w, LoadedIs DEF Inv
  <2> QED
    BY <1>1, <1>4, <2>1 DEF Held
<1>6. AtWork' = AtWork /\ Made' = Made /\ ~Draining'
  BY <1>3 DEF AtWork, Made, Draining
<1>7. Shape'
  BY <1>1, <1>2, <1>3, <1>4, <1>5, <1>6 DEF BoxInv, Shape
<1>8. Current'
  BY <1>1, <1>2, <1>3, <1>5, <1>6 DEF BoxInv, Current
<1>9. StagedHeld'
  BY <1>1, <1>2, <1>4, <1>5 DEF BoxInv, StagedHeld
<1> QED
  BY <1>7, <1>8, <1>9 DEF BoxInv

\* The process ends, with nobody at work or crossing, and loads its log again.
LEMMA BoxCrash ==
  ASSUME Inv, BoxInv, Crash
  PROVE  BoxInv'
<1>w. /\ flusher \in Writers /\ flusher \notin Writes /\ Writes \subseteq Writers
  BY WriterIs DEF Inv
<1>1. /\ up /\ up' = FALSE /\ outbox' = {}
      /\ crossed' = (crossed \/ AtWork \/ req[flusher].pc # "idle")
      /\ UNCHANGED <<row, log, staged, pushed>>
  BY DEF Crash
<1>2. /\ req'[flusher].pc = "idle"
      /\ \A w \in Writes : req'[w] = IF req[w].pc = "new" THEN req[w] ELSE At("done", NoDoc)
  BY <1>w DEF Crash, At
<1>3. \A w \in Writes : /\ req'[w].pc \in {"new", "done"}
                        /\ req'[w].pc = "new" <=> req[w].pc = "new"
                        /\ req[w].pc = "new" => req'[w] = req[w]
  BY <1>2, SMT DEF At
<1>4. crossed' \in BOOLEAN /\ (~crossed' => ~crossed /\ ~AtWork /\ req[flusher].pc = "idle")
  BY <1>1 DEF BoxInv, Shape
<1>5. Made' = Made /\ ~Draining' /\ ~AtWork'
  BY <1>2, <1>3 DEF Made, Draining, AtWork
<1>6. ~crossed' => Held' = Held
  <2> SUFFICES ASSUME ~crossed' PROVE Held' = Held
    OBVIOUS
  <2>1. ~Draining
    BY <1>4 DEF Draining
  <2>2. outbox = Loaded(log) /\ Loaded(log)' = Loaded(log)
    BY <1>1, <2>1 DEF BoxInv, Shape, Loaded
  <2> QED
    BY <1>1, <2>2 DEF Held
<1>7. Shape'
  <2>1. /\ \A v, w \in Writes : v < w /\ req'[w].pc # "new" => req'[v].pc # "new"
        /\ \A w \in Writes : req'[w].pc = "new" => req'[w].doc.write = w
    BY <1>3 DEF BoxInv, Shape
  <2>2. req'[flusher].pc # "removed"
    BY <1>2
  <2> QED
    BY <1>1, <1>2, <1>3, <1>4, <1>5, <2>1, <2>2 DEF Shape
<1>8. Current'
  BY <1>1, <1>2, <1>4, <1>5, <1>6 DEF BoxInv, Current
<1>9. StagedHeld'
  BY <1>1, <1>4, <1>6 DEF BoxInv, StagedHeld
<1> QED
  BY <1>7, <1>8, <1>9 DEF BoxInv

LEMMA BoxBoot ==
  ASSUME Inv, BoxInv, Boot
  PROVE  BoxInv'
<1>1. /\ ~up /\ up' = TRUE /\ outbox' = Loaded(log)
      /\ UNCHANGED <<row, req, log, staged, crossed, pushed>>
  BY DEF Boot, history
<1>2. \A x, y \in Loaded(log) : x = y
  BY LoadedIs DEF Inv
<1>3. Made' = Made /\ Draining' = Draining /\ AtWork' = AtWork /\ Held' = Held
      /\ Loaded(log)' = Loaded(log)
  BY <1>1 DEF Made, Draining, AtWork, Held, Loaded
<1>4. ~Draining
  BY <1>1 DEF BoxInv, Shape, Draining
<1>5. Shape'
  BY <1>1, <1>2, <1>3, <1>4 DEF BoxInv, Shape
<1>6. Current'
  BY <1>1, <1>3 DEF BoxInv, Current
<1>7. StagedHeld'
  BY <1>1, <1>3 DEF BoxInv, StagedHeld
<1> QED
  BY <1>5, <1>6, <1>7 DEF BoxInv

LEMMA BoxStep == Inv /\ BoxInv /\ [Next]_vars => BoxInv'
<1> SUFFICES ASSUME Inv, BoxInv, [Next]_vars PROVE BoxInv'
  OBVIOUS
<1>w. /\ flusher \in Writers /\ flusher \notin Writes /\ Writes \subseteq Writers
      /\ req \in [Writers -> [pc : Pcs, doc : Doc]] /\ Writers = Writes \cup {flusher}
  BY WriterIs DEF Inv, TypeInv, Writers
<1>1. CASE UNCHANGED <<row, req, up, outbox, log, staged, crossed, pushed>>
  BY <1>1, BoxMoves
<1>2. CASE \/ Wait \/ Run \/ StopPool \/ Isolate \/ Reconnect \/ UNCHANGED vars
           \/ \E r \in running : SendFails(r) \/ HandleOpBroadcast(r) \/ SendDone(r)
           \/ \E m \in relays : HandleRelay(m)
  <2>1. UNCHANGED <<row, req, up, outbox, log, staged, crossed, pushed>>
    BY <1>2 DEF Wait, Run, StopPool, Isolate, Reconnect, SendFails, HandleOpBroadcast,
                SendDone, HandleRelay, vars, pool, box, history
  <2> QED
    BY <1>1, <2>1
<1>3. ASSUME NEW a \in Writers, ObserveTip(a) PROVE BoxInv'
  <2>1. /\ req[a].pc = "appended" /\ req' = [req EXCEPT ![a].pc = "written"]
        /\ UNCHANGED <<row, up, outbox, log, staged, crossed, pushed>>
    BY <1>3 DEF ObserveTip, Go, box, history
  <2>2. /\ req'[a].pc = "written" /\ req'[a].doc = req[a].doc
        /\ \A v \in Writers \ {a} : req'[v] = req[v]
    BY <2>1, <1>w
  <2>3. up
    BY <2>1, <1>w DEF BoxInv, Shape
  <2>4. /\ \A w \in Writes :
              /\ req'[w].pc = "new" <=> req[w].pc = "new"
              /\ req'[w].pc \in {"appended", "written"} <=> req[w].pc \in {"appended", "written"}
              /\ req[w].pc = "new" => req'[w] = req[w]
        /\ req'[flusher].doc = req[flusher].doc
        /\ \A s \in {"idle", "dropped", "removed"} : req'[flusher].pc = s <=> req[flusher].pc = s
    BY <2>1, <2>2, <1>w
  <2> QED
    BY <2>1, <2>3, <2>4, BoxMoves
<1>4. ASSUME NEW w \in Writes, WaitFor(w) \/ \E timedOut \in BOOLEAN : Answer(w, timedOut)
      PROVE  BoxInv'
  <2>1. /\ \/ req[w].pc = "put" /\ req' = [req EXCEPT ![w].pc = "waiting"]
           \/ req[w].pc = "waiting" /\ req' = [req EXCEPT ![w] = At("done", NoDoc)]
        /\ UNCHANGED <<row, up, outbox, log, staged, crossed, pushed>>
    BY <1>4 DEF WaitFor, Answer, Go, box, history
  <2>2. /\ req'[w].pc \in {"waiting", "done"}
        /\ \A v \in Writers \ {w} : req'[v] = req[v]
    BY <2>1, <1>w, SMT DEF At
  <2>3. up
    BY <2>1 DEF BoxInv, Shape
  <2>4. /\ \A v \in Writes :
              /\ req'[v].pc = "new" <=> req[v].pc = "new"
              /\ req'[v].pc \in {"appended", "written"} <=> req[v].pc \in {"appended", "written"}
              /\ req[v].pc = "new" => req'[v] = req[v]
        /\ req'[flusher] = req[flusher]
    BY <2>1, <2>2, <1>w
  <2> QED
    BY <2>1, <2>3, <2>4, BoxMoves
<1>5. ASSUME NEW a \in Writers, PutDocument(a) \/ StageWrite(a) \/ BroadcastLocalWrite(a)
      PROVE  BoxInv'
  BY <1>5, <1>w, BoxPut, BoxReplay, BoxStage, BoxPush
<1>6. CASE DrainAll \/ CompactRemove \/ CompactRename \/ ReplayFails \/ Crash \/ Boot
  BY <1>6, BoxDrain, BoxCompact, BoxPutBack, BoxCrash, BoxBoot
<1> QED
  BY <1>2, <1>3, <1>4, <1>5, <1>6 DEF Next

LEMMA BoxInit == Init => BoxInv
<1> SUFFICES ASSUME Init PROVE BoxInv
  OBVIOUS
<1>1. /\ \A w \in Writes : req[w].pc = "new" /\ req[w].doc.write = w
      /\ req[flusher].pc = "idle"
  BY DurabilityAssumption DEF Init, At, NoDoc, Writers, flusher
<1>2. /\ row.write = 0 /\ outbox = {} /\ log = <<>> /\ up = TRUE /\ crossed = FALSE /\ staged = 0
  BY DEF Init, NoDoc
<1>3. Made = {0} /\ ~AtWork /\ ~Draining /\ Held = {} /\ Loaded(log) = {}
  BY <1>1, <1>2, SMT DEF Made, AtWork, Draining, Held, Loaded
<1>4. Shape
  BY <1>1, <1>2, <1>3 DEF Shape
<1>5. Current
  BY <1>1, <1>2, <1>3, SMT DEF Current
<1>6. StagedHeld
  BY <1>2 DEF StagedHeld
<1> QED
  BY <1>4, <1>5, <1>6 DEF BoxInv

LEMMA BoxInvariance == Spec => []BoxInv
BY BoxInit, BoxStep, Invariance, PTL DEF Spec

\* The write staged last is not lost: through any number of outages, failing
\* replays, drains and restarts it is in the outbox, in the hands of the flush
\* or pushed, as long as no flush crosses a request or the end of the process
\* (PutDocument, OutboxStore, FlushOutbox).
THEOREM StagedStays == Spec => []StagedIsKept
<1>1. BoxInv => StagedIsKept
  BY DEF BoxInv, StagedHeld, StagedIsKept, Held
<1> QED
  BY <1>1, BoxInvariance, PTL

\* The row shows the last of any number of writes: FlushOutbox, which writes
\* what it drained as a new local write, replays only what the row shows as
\* long as it crosses no request (PutDocument, FlushOutbox).
THEOREM ReplayShowsNewest == Spec => []RowIsNewest
<1>1. Inv /\ BoxInv => RowIsNewest
  <2> SUFFICES ASSUME Inv, BoxInv, ~crossed PROVE row.write = newest
    BY DEF RowIsNewest
  <2>1. row.write \in Made /\ \A v \in Made : v <= row.write
    BY DEF BoxInv, Current
  <2>2. Made \subseteq Nat
    BY WriterIs, SMT DEF Made, Inv
  <2>3. newest = CHOOSE x \in Made : \A y \in Made : x >= y
    BY DEF newest, Made, Max
  <2> HIDE DEF Made
  <2>4. \A y \in Made : row.write >= y
    BY <2>1, <2>2
  <2>5. newest \in Made /\ \A y \in Made : newest >= y
    <3>1. \E x \in Made : \A y \in Made : x >= y
      BY <2>1, <2>4
    <3> HIDE DEF newest
    <3> QED
      BY <2>3, <3>1
  <2>6. newest \in Nat /\ row.write \in Nat /\ row.write >= newest /\ newest >= row.write
    BY <2>1, <2>2, <2>4, <2>5
  <2> QED
    BY <2>6, SMT
<1> QED
  BY <1>1, BoxInvariance, Invariance, PTL

=============================================================================
