---------------------------- MODULE MeshProofs -----------------------------
(***************************************************************************)
(* Theorems about what a node keeps of the mesh it is in: the time, in the *)
(* hybrid logical clock of module HybridClock, and the members, in the     *)
(* peer table and the rings of module Membership.                          *)
(***************************************************************************)
EXTENDS HybridClock, Membership, TLAPS

\* Leaves are first-order unless they name another backend.
USE Zenon

-----------------------------------------------------------------------------
(* The hybrid logical clock *)

\* The lexicographic order of stamps is a strict total order.
LEMMA Order ==
    ASSUME NEW a \in Stamps, NEW b \in Stamps, NEW c \in Stamps
    PROVE  /\ LessEq(a, b) \/ Less(b, a)
           /\ LessEq(a, b) /\ Less(b, c) => Less(a, c)
           /\ LessEq(a, b) /\ LessEq(b, c) => LessEq(a, c)
           /\ Highest(a, b) \in Stamps
           /\ LessEq(a, Highest(a, b)) /\ LessEq(b, Highest(a, b))
           /\ LessEq(a, c) /\ LessEq(b, c) => LessEq(Highest(a, b), c)
           /\ Highest(a, b).p = a.p \/ Highest(a, b).p = b.p
BY ClockAssumption, SMT DEF Stamps, Less, LessEq, Highest

LEMMA ZeroStamp == Zero \in Stamps /\ \A a \in Stamps : LessEq(Zero, a)
BY ClockAssumption, SMT DEF Zero, Stamps, Less, LessEq

\* What Now() returns: it passes the clock unless the counter wraps.
LEMMA NextStampFacts ==
    ASSUME TypeOK
    PROVE  /\ NextStamp \in Stamps
           /\ Less(clk, NextStamp) \/ (wall <= clk.p /\ clk.l = MaxLogical)
           /\ NextStamp.p = clk.p \/ NextStamp.p = wall
<1>1. (clk.l + 1) % LogicalSize \in 0 .. LogicalSize - 1
  BY ClockAssumption, SMT DEF TypeOK, Stamps
<1>2. clk.l # MaxLogical => (clk.l + 1) % LogicalSize = clk.l + 1
  BY ClockAssumption, SMT DEF TypeOK, Stamps, MaxLogical
<1> QED
  BY <1>1, <1>2, ClockAssumption, SMT DEF TypeOK, Stamps, NextStamp, Less

\* What Observe leaves: a stamp beyond both the clock and the remote stamp.
LEMMA ObservedFacts ==
    ASSUME TypeOK, NEW r \in Stamps, Observable(r)
    PROVE  /\ Observed(r) \in Stamps
           /\ Less(clk, Observed(r)) /\ Less(r, Observed(r))
           /\ Observed(r).p \in {clk.p, r.p, wall}
BY ClockAssumption, SMT
DEF TypeOK, Stamps, Observable, MaxLogical, Observed, Less

\* The inductive invariant: the clock is at or above everything it has to
\* pass, and neither it nor its file is further ahead than the skew bound.
ClockInv ==
    /\ TypeOK
    /\ wall <= top
    /\ NoClockPinning
    /\ ~wrapped => /\ LessEq(floor, clk)
                   /\ up => LessEq(saved, clk)

LEMMA ClockInvInit == ClockInit => ClockInv
<1> SUFFICES ASSUME ClockInit PROVE ClockInv
  OBVIOUS
<1>1. TypeOK
  BY ZeroStamp DEF ClockInit, TypeOK
<1>2. wall <= top /\ NoClockPinning
  BY ClockAssumption, SMT DEF ClockInit, NoClockPinning, Zero
<1>3. LessEq(floor, clk) /\ LessEq(saved, clk)
  BY DEF ClockInit, LessEq
<1> QED
  BY <1>1, <1>2, <1>3 DEF ClockInv

LEMMA ClockInvStep == ClockInv /\ [ClockNext]_clockVars => ClockInv'
<1> SUFFICES ASSUME ClockInv, [ClockNext]_clockVars PROVE ClockInv'
  OBVIOUS
<1>0. TypeOK
  BY DEF ClockInv
<1>1. CASE PutDocument \/ StampLedgerEntry
  <2>1. /\ up /\ up' = up /\ wall' = wall /\ top' = top /\ clk' = NextStamp
        /\ floor' = Highest(floor, NextStamp)
        /\ wrapped' = (wrapped \/ (wall <= clk.p /\ clk.l = MaxLogical))
        /\ saved' \in {saved, NextStamp}
    BY <1>1 DEF PutDocument, StampLedgerEntry, Now, PersistClockIfDue
  <2>2. TypeOK'
    BY <1>0, <2>1, NextStampFacts, Order DEF TypeOK
  <2>3. NoClockPinning' /\ wall' <= top'
    BY <1>0, <2>1, NextStampFacts, ClockAssumption, SMT
    DEF ClockInv, NoClockPinning, TypeOK, Stamps
  <2>4. ASSUME ~wrapped' PROVE LessEq(floor', clk') /\ LessEq(saved', clk')
    <3>1. ~wrapped /\ Less(clk, NextStamp)
      BY <1>0, <2>1, <2>4, NextStampFacts
    <3>2. Less(floor, NextStamp) /\ Less(saved, NextStamp)
      BY <1>0, <2>1, <3>1, NextStampFacts, Order DEF ClockInv, TypeOK
    <3> QED
      BY <1>0, <2>1, <3>2, NextStampFacts, Order DEF TypeOK, LessEq
  <2> QED
    BY <2>2, <2>3, <2>4 DEF ClockInv
<1>2. ASSUME NEW r \in Stamps, MergeRemote(r) PROVE ClockInv'
  <2>1. /\ up /\ up' = up /\ wall' = wall /\ top' = top /\ clk' = Observed(r)
        /\ floor' = Highest(Highest(floor, r), Observed(r))
        /\ wrapped' = wrapped
        /\ saved' \in {saved, Observed(r)} /\ Observable(r)
    BY <1>2 DEF MergeRemote
  <2>2. TypeOK'
    BY <1>0, <2>1, ObservedFacts, Order, SMT DEF TypeOK
  <2>3. NoClockPinning' /\ wall' <= top'
    <3>1. Observed(r).p <= top + MaxSkew
      BY <1>0, <2>1, ObservedFacts, ClockAssumption, SMT
      DEF ClockInv, NoClockPinning, TypeOK, Stamps, Observable
    <3> QED
      BY <2>1, <3>1 DEF ClockInv, NoClockPinning
  <2>4. ASSUME ~wrapped' PROVE LessEq(floor', clk') /\ LessEq(saved', clk')
    <3>1. /\ LessEq(floor, Observed(r)) /\ LessEq(saved, Observed(r))
          /\ LessEq(r, Observed(r)) /\ Observed(r) \in Stamps
      BY <1>0, <2>1, <2>4, ObservedFacts, Order, SMT DEF ClockInv, TypeOK, LessEq
    <3>2. Highest(floor, r) \in Stamps /\ LessEq(Highest(floor, r), Observed(r))
      BY <1>0, <3>1, Order DEF TypeOK
    <3>3. LessEq(Observed(r), Observed(r))
      BY DEF LessEq
    <3> QED
      BY <2>1, <3>1, <3>2, <3>3, Order
  <2> QED
    BY <2>2, <2>3, <2>4 DEF ClockInv
<1>3. ASSUME NEW w \in 1 .. MaxWall, SetWall(w) PROVE ClockInv'
  BY <1>0, <1>3, ClockAssumption, SMT
  DEF SetWall, ClockInv, TypeOK, NoClockPinning, Stamps, LessEq, Less
<1>4. CASE Crash
  <2>1. TypeOK'
    BY <1>0, <1>4, ZeroStamp DEF Crash, TypeOK
  <2>2. wall' <= top' /\ NoClockPinning'
    BY <1>0, <1>4, ClockAssumption, SMT
    DEF Crash, ClockInv, TypeOK, NoClockPinning, Zero
  <2>3. LessEq(floor', clk') /\ ~up'
    BY <1>4 DEF Crash, LessEq
  <2> QED
    BY <2>1, <2>2, <2>3 DEF ClockInv
<1>5. CASE LoadClockState
  <2>1. Highest(clk, saved) \in Stamps /\ LessEq(saved, Highest(clk, saved))
    BY <1>0, Order DEF TypeOK
  <2>2. Highest(clk, saved).p \in {clk.p, saved.p}
    BY <1>0, Order DEF TypeOK
  <2> QED
    BY <1>5, <2>1, <2>2 DEF LoadClockState, ClockInv, TypeOK, NoClockPinning, LessEq
<1>6. CASE UNCHANGED clockVars
  BY <1>6 DEF clockVars, ClockInv, TypeOK, NoClockPinning, LessEq, Less
<1> QED
  BY <1>1, <1>2, <1>3, <1>4, <1>5, <1>6 DEF ClockNext

\* The clock and its file have their types and no peer can pin them, for
\* every range of times, counter width and skew bound (hlc.cpp:32-34).
THEOREM SkewIsBounded == ClockSpec => [](TypeOK /\ NoClockPinning)
<1>1. ClockInv => TypeOK /\ NoClockPinning
  BY DEF ClockInv
<1> QED
  BY <1>1, ClockInvInit, ClockInvStep, PTL DEF ClockSpec

LEMMA StampingFacts ==
    ASSUME ClockInv, Stamping, ~wrapped'
    PROVE  Less(floor, clk') /\ Less(saved, clk')
<1>1. TypeOK /\ up /\ ~wrapped /\ clk' = NextStamp /\ Less(clk, NextStamp)
  BY NextStampFacts DEF ClockInv, Stamping, PutDocument, StampLedgerEntry, Now
<1> QED
  BY <1>1, NextStampFacts, Order DEF ClockInv, TypeOK

\* Until the logical counter wraps, every stamp Now() returns is above all
\* that this clock has produced, observed or restored (hlc.h:53-54).
THEOREM StampsAreFresh == ClockSpec => NowIsFresh
<1>1. ClockInv /\ [ClockNext]_clockVars => [Stamping => Less(floor, clk') \/ wrapped']_clockVars
  BY StampingFacts
<1> QED
  BY <1>1, ClockInvInit, ClockInvStep, PTL DEF ClockSpec, NowIsFresh

\* Until the logical counter wraps, every stamp Now() returns is above the
\* checkpoint file, so that what a checkpoint covers is not issued again
\* after a restart (hlc.h:65-66).
THEOREM CheckpointIsRespected == ClockSpec => CheckpointedStampsStayUsed
<1>1. ClockInv /\ [ClockNext]_clockVars => [Stamping => Less(saved, clk') \/ wrapped']_clockVars
  BY StampingFacts
<1> QED
  BY <1>1, ClockInvInit, ClockInvStep, PTL DEF ClockSpec, CheckpointedStampsStayUsed

-----------------------------------------------------------------------------
(* The peer table *)

Ids == Nodes \cup DOMAIN Placeholders

IsTable(t) == DOMAIN t \subseteq Ids /\ t \in [DOMAIN t -> Peer]

Reclaimed(t, n) == n \in DOMAIN t /\ t[n].state = "reclaimed"

\* No peer that is reclaimed in t and still known in u is anything else there.
Keeps(t, u) == \A n \in DOMAIN u : Reclaimed(t, n) => Reclaimed(u, n)

LEMMA PeerFields ==
    ASSUME NEW p \in Peer
    PROVE  /\ p.age \in 0 .. DeadAge /\ p.supervisor \in BOOLEAN /\ p.state \in States
           /\ \A a \in 0 .. DeadAge : /\ [p EXCEPT !.age = a] \in Peer
                                      /\ [p EXCEPT !.age = a].state = p.state
           /\ \A v \in BOOLEAN : /\ [p EXCEPT !.supervisor = v] \in Peer
                                 /\ [p EXCEPT !.supervisor = v].state = p.state
           /\ \A v \in BOOLEAN : /\ [p EXCEPT !.full = v] \in Peer
                                 /\ [p EXCEPT !.full = v].state = p.state
           /\ \A h \in {"new", "good", "poor", "bad"} :
                 /\ [p EXCEPT !.health = h] \in Peer
                 /\ [p EXCEPT !.health = h].state = p.state
BY SMT DEF Peer

LEMMA StateField ==
    ASSUME NEW p \in Peer, NEW s \in States
    PROVE  [p EXCEPT !.state = s] \in Peer /\ [p EXCEPT !.state = s].state = s
BY SMT DEF Peer

LEMMA NewPeerIs == NewPeer \in Peer /\ NewPeer.state = "discovered"
BY PeerTableAssumption, SMT DEF NewPeer, Peer, States

\* Changing one entry, in any way that leaves a reclaimed one reclaimed.
LEMMA EditEntry ==
    ASSUME NEW t, IsTable(t), NEW id \in DOMAIN t, NEW p \in Peer,
           t[id].state = "reclaimed" => p.state = "reclaimed"
    PROVE  /\ IsTable([t EXCEPT ![id] = p]) /\ Keeps(t, [t EXCEPT ![id] = p])
           /\ DOMAIN [t EXCEPT ![id] = p] = DOMAIN t
BY DEF IsTable, Keeps, Reclaimed

LEMMA AddEntry ==
    ASSUME NEW t, IsTable(t), NEW id \in Ids \ DOMAIN t, NEW p \in Peer
    PROVE  /\ IsTable(Insert(t, id, p)) /\ Keeps(t, Insert(t, id, p))
           /\ DOMAIN Insert(t, id, p) = DOMAIN t \cup {id}
<1> DEFINE u == Insert(t, id, p)
<1>1. u = [x \in DOMAIN t \cup {id} |-> IF x = id THEN p ELSE t[x]]
  BY DEF Insert
<1> HIDE DEF u
<1>2. DOMAIN u = DOMAIN t \cup {id} /\ IsTable(u)
  BY <1>1 DEF IsTable
<1>3. Keeps(t, u)
  BY <1>1 DEF Keeps, Reclaimed
<1> QED
  BY <1>2, <1>3 DEF u

LEMMA DropEntries ==
    ASSUME NEW t, IsTable(t), NEW D \in SUBSET DOMAIN t
    PROVE  /\ IsTable(Restrict(t, D)) /\ Keeps(t, Restrict(t, D))
           /\ DOMAIN Restrict(t, D) = D
           /\ \A x \in D : Restrict(t, D)[x] = t[x]
BY DEF IsTable, Keeps, Reclaimed, Restrict

LEMMA KeepsIs == \A t, u, v : /\ Keeps(t, t)
                              /\ Keeps(t, u) /\ Keeps(u, v) /\ DOMAIN v \subseteq DOMAIN u
                                    => Keeps(t, v)
BY DEF Keeps, Reclaimed

\* What each call on the table leaves: a table, in which whoever was reclaimed
\* and is still there is reclaimed.
LEMMA UpsertIs ==
    ASSUME NEW t, IsTable(t), NEW id \in Ids, NEW info \in Peer, NEW source,
           NEW u \in Upsert(t, id, info, source)
    PROVE  IsTable(u) /\ Keeps(t, u)
<1>1. CASE id \in DOMAIN t
  <2> DEFINE v == t[id].supervisor \/ (info.supervisor /\ source # "discovery")
             s == IF info.state # "discovered" /\ ValidNodeTransition(t[id].state, info.state)
                  THEN info.state ELSE t[id].state
             q == [t[id] EXCEPT !.age = info.age]
             r == [q EXCEPT !.supervisor = v]
             known == [r EXCEPT !.state = s]
  <2>1. u = [t EXCEPT ![id] = known]
    BY <1>1 DEF Upsert
  <2>2. t[id] \in Peer
    BY <1>1 DEF IsTable
  <2>3. s \in States /\ v \in BOOLEAN /\ info.age \in 0 .. DeadAge
    BY <2>2, PeerFields
  <2>4. t[id].state = "reclaimed" => s = "reclaimed"
    BY DEF ValidNodeTransition
  <2> HIDE DEF s, v
  <2>5. q \in Peer
    BY <2>2, <2>3, PeerFields
  <2> HIDE DEF q
  <2>6. r \in Peer
    BY <2>3, <2>5, PeerFields
  <2> HIDE DEF r
  <2>7. known \in Peer /\ known.state = s
    BY <2>3, <2>6, StateField
  <2> HIDE DEF known
  <2> QED
    BY <1>1, <2>1, <2>4, <2>7, EditEntry
<1>2. CASE id \notin DOMAIN t
  <2> DEFINE v == info.supervisor /\ source # "discovery"
             fresh == [info EXCEPT !.supervisor = v]
  <2>1. u = t \/ \E r \in WithRoom(t) : u = Insert(r, id, fresh)
    BY <1>2 DEF Upsert
  <2>2. fresh \in Peer
    BY PeerFields
  <2> HIDE DEF fresh
  <2>3. ASSUME NEW r \in WithRoom(t), u = Insert(r, id, fresh) PROVE IsTable(u) /\ Keeps(t, u)
    <3>1. r = t \/ \E d \in DOMAIN t : r = Restrict(t, DOMAIN t \ {d})
      BY <2>3 DEF WithRoom
    <3>2. IsTable(r) /\ Keeps(t, r) /\ DOMAIN r \subseteq DOMAIN t
      <4>1. \A d \in DOMAIN t : DOMAIN t \ {d} \in SUBSET DOMAIN t
        OBVIOUS
      <4>2. \A d \in DOMAIN t : LET R == Restrict(t, DOMAIN t \ {d})
                                IN  IsTable(R) /\ Keeps(t, R) /\ DOMAIN R \subseteq DOMAIN t
        BY <4>1, DropEntries
      <4> QED
        BY <3>1, <4>2, KeepsIs
    <3>3. id \in Ids \ DOMAIN r
      BY <1>2, <3>2
    <3>4. IsTable(u) /\ Keeps(r, u) /\ DOMAIN u = DOMAIN r \cup {id}
      BY <2>2, <2>3, <3>2, <3>3, AddEntry
    <3>5. ASSUME NEW n \in DOMAIN u, Reclaimed(t, n) PROVE Reclaimed(u, n)
      <4>1. n \in DOMAIN r
        BY <1>2, <3>4, <3>5 DEF Reclaimed
      <4> QED
        BY <3>2, <3>4, <3>5, <4>1 DEF Keeps
    <3> QED
      BY <3>4, <3>5 DEF Keeps
  <2> QED
    BY <2>1, <2>3, KeepsIs
<1> QED
  BY <1>1, <1>2

LEMMA MarkHandshakeProvenIs ==
    ASSUME NEW t, IsTable(t), NEW id \in Ids
    PROVE  /\ IsTable(MarkHandshakeProven(t, id)) /\ Keeps(t, MarkHandshakeProven(t, id))
           /\ DOMAIN t \subseteq DOMAIN MarkHandshakeProven(t, id)
<1> DEFINE u == MarkHandshakeProven(t, id)
<1>1. CASE id \in DOMAIN t
  <2>1. u = [t EXCEPT ![id] = [t[id] EXCEPT !.age = 0]]
    BY <1>1 DEF MarkHandshakeProven
  <2>2. t[id] \in Peer
    BY <1>1 DEF IsTable
  <2>3. 0 \in 0 .. DeadAge
    BY PeerTableAssumption, SMT
  <2> DEFINE p == [t[id] EXCEPT !.age = 0]
  <2>4. p \in Peer /\ p.state = t[id].state
    BY <2>2, <2>3, PeerFields
  <2> HIDE DEF p
  <2>5. u = [t EXCEPT ![id] = p]
    BY <2>1 DEF p
  <2> HIDE DEF u
  <2>6. IsTable(u) /\ Keeps(t, u) /\ DOMAIN u = DOMAIN t
    BY <1>1, <2>4, <2>5, EditEntry
  <2> QED
    BY <2>6 DEF u
<1>2. CASE id \notin DOMAIN t
  <2>1. u = t \/ u = Insert(t, id, NewPeer)
    BY <1>2 DEF MarkHandshakeProven
  <2> HIDE DEF u
  <2>2. IsTable(u) /\ Keeps(t, u) /\ DOMAIN t \subseteq DOMAIN u
    <3>1. CASE u = t
      BY <3>1, KeepsIs
    <3>2. CASE u = Insert(t, id, NewPeer)
      <4>1. id \in Ids \ DOMAIN t
        BY <1>2
      <4>2. /\ IsTable(Insert(t, id, NewPeer)) /\ Keeps(t, Insert(t, id, NewPeer))
            /\ DOMAIN Insert(t, id, NewPeer) = DOMAIN t \cup {id}
        BY <4>1, NewPeerIs, AddEntry
      <4> QED
        BY <3>2, <4>2
    <3> QED
      BY <2>1, <3>1, <3>2
  <2> QED
    BY <2>2 DEF u
<1> QED
  BY <1>1, <1>2

LEMMA RecordProbeIs ==
    ASSUME NEW t, IsTable(t), NEW id, NEW ok \in BOOLEAN, NEW u \in RecordProbe(t, id, ok)
    PROVE  IsTable(u) /\ Keeps(t, u) /\ DOMAIN u = DOMAIN t
<1>1. CASE id \in DOMAIN t
  <2>1. PICK h \in Healths(t[id].health, ok) : u = [t EXCEPT ![id] = [t[id] EXCEPT !.health = h]]
    BY <1>1 DEF RecordProbe
  <2>2. t[id] \in Peer
    BY <1>1 DEF IsTable
  <2>3. t[id].health \in {"new", "good", "poor", "bad"}
    BY <2>2, SMT DEF Peer
  <2>4. h \in {"new", "good", "poor", "bad"}
    BY <2>1, <2>3, SMT DEF Healths
  <2> DEFINE p == [t[id] EXCEPT !.health = h]
  <2>5. p \in Peer /\ p.state = t[id].state
    BY <2>2, <2>4, PeerFields
  <2> HIDE DEF p
  <2>6. u = [t EXCEPT ![id] = p]
    BY <2>1 DEF p
  <2> QED
    BY <1>1, <2>5, <2>6, EditEntry
<1>2. CASE id \notin DOMAIN t
  BY <1>2, KeepsIs DEF RecordProbe
<1> QED
  BY <1>1, <1>2

LEMMA RecordReportIs ==
    ASSUME NEW t, IsTable(t), NEW id, NEW full \in BOOLEAN
    PROVE  /\ IsTable(RecordReport(t, id, full)) /\ Keeps(t, RecordReport(t, id, full))
           /\ DOMAIN RecordReport(t, id, full) = DOMAIN t
<1>1. CASE id \in DOMAIN t
  <2>1. RecordReport(t, id, full) = [t EXCEPT ![id] = [t[id] EXCEPT !.full = full]]
    BY <1>1 DEF RecordReport
  <2> DEFINE p == [t[id] EXCEPT !.full = full]
  <2>2. p \in Peer /\ p.state = t[id].state
    BY <1>1, PeerFields DEF IsTable
  <2> HIDE DEF p
  <2> DEFINE u == RecordReport(t, id, full)
  <2>3. u = [t EXCEPT ![id] = p]
    BY <2>1 DEF p
  <2> HIDE DEF u
  <2>4. IsTable(u) /\ Keeps(t, u) /\ DOMAIN u = DOMAIN t
    BY <1>1, <2>2, <2>3, EditEntry
  <2> QED
    BY <2>4 DEF u
<1>2. CASE id \notin DOMAIN t
  BY <1>2, KeepsIs DEF RecordReport
<1> QED
  BY <1>1, <1>2

LEMMA YoungerAge ==
    ASSUME NEW a \in 0 .. DeadAge, NEW b \in 0 .. DeadAge
    PROVE  Min({a, b}) \in 0 .. DeadAge
<1>1. \E m \in {a, b} : \A x \in {a, b} : m <= x
  BY PeerTableAssumption, SMT
<1>2. Min({a, b}) \in {a, b}
  BY <1>1 DEF Min
<1> QED
  BY <1>2

LEMMA AdoptIdentityIs ==
    ASSUME NEW t, IsTable(t), NEW old \in Ids, NEW real \in Nodes, old = real \/ old \notin Nodes
    PROVE  /\ IsTable(AdoptIdentity(t, old, real)) /\ Keeps(t, AdoptIdentity(t, old, real))
           /\ Nodes \cap DOMAIN t \subseteq DOMAIN AdoptIdentity(t, old, real)
           /\ old \in DOMAIN t => real \in DOMAIN AdoptIdentity(t, old, real)
<1> DEFINE u == AdoptIdentity(t, old, real)
           others == Restrict(t, DOMAIN t \ {old})
<1>1. CASE old = real \/ old \notin DOMAIN t
  BY <1>1, KeepsIs DEF AdoptIdentity
<1>2. CASE old # real /\ old \in DOMAIN t
  <2>1. /\ IsTable(others) /\ Keeps(t, others) /\ DOMAIN others = DOMAIN t \ {old}
        /\ \A x \in DOMAIN t \ {old} : others[x] = t[x]
    <3>1. DOMAIN t \ {old} \in SUBSET DOMAIN t
      OBVIOUS
    <3> QED
      BY <3>1, DropEntries
  <2>2. old \notin Nodes /\ t[old] \in Peer /\ real \in Ids
    BY <1>2 DEF IsTable, Ids
  <2>3. CASE real \in DOMAIN t
    <3> DEFINE a == Min({others[real].age, t[old].age})
               p == [others[real] EXCEPT !.age = a]
    <3>1. u = [others EXCEPT ![real] = p]
      BY <1>2, <2>3 DEF AdoptIdentity
    <3> HIDE DEF others
    <3>2. real \in DOMAIN others /\ others[real] \in Peer
      BY <1>2, <2>1, <2>3 DEF IsTable
    <3>3. a \in 0 .. DeadAge
      BY <2>2, <3>2, PeerFields, YoungerAge
    <3> HIDE DEF a
    <3>4. p \in Peer /\ p.state = others[real].state
      BY <3>2, <3>3, PeerFields
    <3> HIDE DEF p, u
    <3>5. IsTable(u) /\ Keeps(others, u) /\ DOMAIN u = DOMAIN others
      BY <2>1, <3>1, <3>2, <3>4, EditEntry
    <3>6. Keeps(t, u)
      BY <2>1, <3>5, KeepsIs
    <3>7. Nodes \cap DOMAIN t \subseteq DOMAIN u
      BY <2>1, <2>2, <3>5
    <3> QED
      BY <3>2, <3>5, <3>6, <3>7 DEF u
  <2>4. CASE real \notin DOMAIN t
    <3>1. u = Insert(others, real, t[old])
      BY <1>2, <2>4 DEF AdoptIdentity
    <3> HIDE DEF others, u
    <3>2. real \in Ids \ DOMAIN others
      BY <2>1, <2>2, <2>4
    <3>3. /\ IsTable(Insert(others, real, t[old])) /\ Keeps(others, Insert(others, real, t[old]))
          /\ DOMAIN Insert(others, real, t[old]) = DOMAIN others \cup {real}
      BY <2>1, <2>2, <3>2, AddEntry
    <3>4. IsTable(u) /\ Keeps(others, u) /\ DOMAIN u = DOMAIN others \cup {real}
      BY <3>1, <3>3
    <3>5. ASSUME NEW n \in DOMAIN u, Reclaimed(t, n) PROVE Reclaimed(u, n)
      <4>1. n \in DOMAIN others /\ others[n] = t[n]
        BY <2>1, <2>4, <3>4, <3>5 DEF Reclaimed
      <4> QED
        BY <3>4, <3>5, <4>1 DEF Keeps, Reclaimed
    <3>6. Nodes \cap DOMAIN t \subseteq DOMAIN u
      BY <2>1, <2>2, <3>4
    <3> QED
      BY <3>4, <3>5, <3>6 DEF Keeps, u
  <2> QED
    BY <2>3, <2>4
<1> QED
  BY <1>1, <1>2

LEMMA SetStateIs ==
    ASSUME NEW t, IsTable(t), NEW id, NEW s \in States
    PROVE  /\ IsTable(SetState(t, id, s)) /\ Keeps(t, SetState(t, id, s))
           /\ DOMAIN SetState(t, id, s) = DOMAIN t
           /\ s = "reclaimed" /\ id \in DOMAIN t => Reclaimed(SetState(t, id, s), id)
<1> DEFINE u == SetState(t, id, s)
<1>1. CASE id \in DOMAIN t /\ ValidNodeTransition(t[id].state, s)
  <2> DEFINE p == [t[id] EXCEPT !.state = s]
  <2>1. u = [t EXCEPT ![id] = p]
    BY <1>1 DEF SetState
  <2>2. t[id] \in Peer
    BY <1>1 DEF IsTable
  <2>3. p \in Peer /\ p.state = s
    BY <2>2, StateField
  <2>4. t[id].state = "reclaimed" => s = "reclaimed"
    BY <1>1 DEF ValidNodeTransition
  <2> HIDE DEF p, u
  <2>5. IsTable(u) /\ Keeps(t, u) /\ DOMAIN u = DOMAIN t
    BY <1>1, <2>1, <2>3, <2>4, EditEntry
  <2>6. u[id] = p
    BY <1>1, <2>1
  <2> QED
    BY <1>1, <2>3, <2>5, <2>6 DEF u, Reclaimed
<1>2. CASE ~(id \in DOMAIN t /\ ValidNodeTransition(t[id].state, s))
  <2>1. u = t
    BY <1>2 DEF SetState
  <2>2. ~(s = "reclaimed" /\ id \in DOMAIN t)
    BY <1>2 DEF ValidNodeTransition
  <2> QED
    BY <2>1, <2>2, KeepsIs
<1> QED
  BY <1>1, <1>2

LEMMA DegradeIs ==
    ASSUME NEW t, IsTable(t), NEW ids
    PROVE  /\ IsTable(Degrade(t, ids)) /\ Keeps(t, Degrade(t, ids))
           /\ DOMAIN Degrade(t, ids) = DOMAIN t
<1>1. "degraded" \in States
  BY DEF States
<1>2. ASSUME NEW id \in DOMAIN t
      PROVE  /\ SetState(t, id, "degraded")[id] \in Peer
             /\ Reclaimed(t, id) => SetState(t, id, "degraded")[id].state = "reclaimed"
  <2>1. /\ IsTable(SetState(t, id, "degraded")) /\ Keeps(t, SetState(t, id, "degraded"))
        /\ DOMAIN SetState(t, id, "degraded") = DOMAIN t
    BY <1>1, SetStateIs
  <2> QED
    BY <2>1 DEF IsTable, Keeps, Reclaimed
<1>3. DOMAIN Degrade(t, ids) = DOMAIN t
  BY DEF Degrade
<1>4. \A id \in DOMAIN t : Degrade(t, ids)[id] = IF id \in ids THEN SetState(t, id, "degraded")[id]
                                                 ELSE t[id]
  BY DEF Degrade
<1>5. IsTable(Degrade(t, ids))
  BY <1>2, <1>3, <1>4 DEF IsTable, Degrade
<1>6. Keeps(t, Degrade(t, ids))
  BY <1>2, <1>3, <1>4 DEF Keeps, Reclaimed
<1> QED
  BY <1>3, <1>5, <1>6

-----------------------------------------------------------------------------
(* The rings *)

Members == Nodes \cup {Self}

\* Of the nodes of S that want position p, n has the smallest id.
Wins(S, p, n) == /\ n \in S /\ p \in Positions[n]
                 /\ \A m \in S : p \in Positions[m] => Rank[n] <= Rank[m]

\* The ring of the nodes of S.
RingOf(S) ==
    [nodes |-> S,
     slots |-> [p \in UNION {Positions[n] : n \in S} |-> CHOOSE n \in S : Wins(S, p, n)]]

IsRing(r) ==
    /\ r = [nodes |-> r.nodes, slots |-> r.slots]
    /\ r.nodes \subseteq Members
    /\ r.slots = [p \in UNION {Positions[n] : n \in r.nodes} |-> r.slots[p]]
    /\ \A p \in DOMAIN r.slots : Wins(r.nodes, p, r.slots[p])

LEMMA RingUnique ==
    ASSUME NEW r, IsRing(r)
    PROVE  r = RingOf(r.nodes)
<1> DEFINE P == UNION {Positions[n] : n \in r.nodes}
<1>1. ASSUME NEW p \in P PROVE r.slots[p] = CHOOSE n \in r.nodes : Wins(r.nodes, p, n)
  <2>1. p \in DOMAIN r.slots
    BY DEF IsRing
  <2>2. Wins(r.nodes, p, r.slots[p])
    BY <2>1 DEF IsRing
  <2>3. \A m, n \in r.nodes : Wins(r.nodes, p, m) /\ Wins(r.nodes, p, n) => m = n
    <3> SUFFICES ASSUME NEW m \in r.nodes, NEW n \in r.nodes,
                        Wins(r.nodes, p, m), Wins(r.nodes, p, n)
                 PROVE  m = n
      OBVIOUS
    <3>1. Rank[m] <= Rank[n] /\ Rank[n] <= Rank[m]
      BY DEF Wins
    <3>2. m \in Nodes \cup {Self} /\ n \in Nodes \cup {Self}
      BY DEF IsRing, Members
    <3>3. Rank[m] \in Nat /\ Rank[n] \in Nat /\ (Rank[m] = Rank[n] => m = n)
      BY <3>2, MembershipAssumption
    <3> QED
      BY <3>1, <3>3, SMT
  <2>4. r.slots[p] \in r.nodes
    BY <2>2 DEF Wins
  <2> DEFINE w == CHOOSE n \in r.nodes : Wins(r.nodes, p, n)
  <2>5. w \in r.nodes /\ Wins(r.nodes, p, w)
    BY <2>2, <2>4
  <2> QED
    BY <2>2, <2>3, <2>4, <2>5
<1>2. r.slots = [p \in P |-> CHOOSE n \in r.nodes : Wins(r.nodes, p, n)]
  BY <1>1 DEF IsRing
<1> QED
  BY <1>2 DEF IsRing, RingOf

LEMMA ClearRing == IsRing(Clear) /\ Clear.nodes = {}
<1>1. Clear = [nodes |-> Clear.nodes, slots |-> Clear.slots] /\ Clear.nodes = {} /\ Clear.slots = <<>>
  BY DEF Clear
<1>2. UNION {Positions[n] : n \in {}} = {}
  OBVIOUS
<1>3. <<>> = [p \in {} |-> <<>>[p]]
  BY SMT
<1>4. Clear.slots = [p \in UNION {Positions[n] : n \in Clear.nodes} |-> Clear.slots[p]]
  BY <1>1, <1>2, <1>3
<1>5. \A p \in DOMAIN Clear.slots : FALSE
  BY <1>1, SMT
<1> QED
  BY <1>1, <1>4, <1>5 DEF IsRing

\* AddNode gives a position that is wanted by others too to the smallest id.
LEMMA AddNodeIs ==
    ASSUME NEW r, IsRing(r), NEW n \in Members
    PROVE  IsRing(AddNode(r, n)) /\ AddNode(r, n).nodes = r.nodes \cup {n}
<1> DEFINE a == AddNode(r, n)
<1>1. CASE n \in r.nodes
  BY <1>1 DEF AddNode
<1>2. CASE n \notin r.nodes
  <2> DEFINE keeps(p) == /\ p \in DOMAIN r.slots
                         /\ p \notin Positions[n] \/ Rank[r.slots[p]] <= Rank[n]
             D == DOMAIN r.slots \cup Positions[n]
             slots == [p \in D |-> IF keeps(p) THEN r.slots[p] ELSE n]
  <2>1. a = [nodes |-> r.nodes \cup {n}, slots |-> slots]
    BY <1>2 DEF AddNode
  <2> HIDE DEF slots, a
  <2>2. a.nodes = r.nodes \cup {n} /\ a.slots = slots /\ a = [nodes |-> a.nodes, slots |-> a.slots]
    BY <2>1
  <2> USE DEF slots
  <2>3. a.nodes \subseteq Members
    BY <2>2 DEF IsRing
  <2>4. D = UNION {Positions[m] : m \in r.nodes \cup {n}}
    <3>1. DOMAIN r.slots = UNION {Positions[m] : m \in r.nodes}
      BY DEF IsRing
    <3> QED
      BY <3>1
  <2>5. a.slots = [p \in UNION {Positions[m] : m \in a.nodes} |-> a.slots[p]]
    BY <2>2, <2>4
  <2>6. ASSUME NEW p \in D PROVE Wins(r.nodes \cup {n}, p, slots[p])
    <3>1. CASE keeps(p)
      <4>1. Wins(r.nodes, p, r.slots[p]) /\ slots[p] = r.slots[p]
        BY <3>1 DEF IsRing
      <4>2. p \in Positions[n] => Rank[r.slots[p]] <= Rank[n]
        BY <3>1
      <4> QED
        BY <4>1, <4>2 DEF Wins
    <3>2. CASE ~keeps(p)
      <4>1. slots[p] = n /\ p \in Positions[n]
        BY <3>2
      <4>2. n \in Nodes \cup {Self} /\ Rank[n] \in Nat
        BY MembershipAssumption DEF Members
      <4>3. ASSUME NEW m \in r.nodes, p \in Positions[m] PROVE Rank[n] <= Rank[m]
        <5>1. p \in DOMAIN r.slots
          BY <4>3 DEF IsRing
        <5>2. ~(Rank[r.slots[p]] <= Rank[n])
          BY <3>2, <5>1
        <5>3. r.slots[p] \in r.nodes /\ Rank[r.slots[p]] <= Rank[m]
          BY <4>3, <5>1 DEF IsRing, Wins
        <5>4. r.slots[p] \in Nodes \cup {Self} /\ m \in Nodes \cup {Self}
          BY <5>3 DEF IsRing, Members
        <5>5. Rank[r.slots[p]] \in Nat /\ Rank[m] \in Nat
          BY <5>4, MembershipAssumption
        <5> QED
          BY <4>2, <5>2, <5>3, <5>5, SMT
      <4>4. Rank[n] <= Rank[n]
        BY <4>2, SMT
      <4> QED
        BY <4>1, <4>3, <4>4 DEF Wins
    <3> QED
      BY <3>1, <3>2
  <2>7. DOMAIN a.slots = D
    BY <2>2
  <2> HIDE DEF slots, D
  <2>8. \A p \in DOMAIN a.slots : Wins(a.nodes, p, a.slots[p])
    BY <2>2, <2>6, <2>7
  <2> QED
    BY <2>2, <2>3, <2>5, <2>8 DEF IsRing, a
<1> QED
  BY <1>1, <1>2

LEMMA LocalRingIs == IsRing(LocalRing) /\ LocalRing.nodes \subseteq {Self}
<1>1. Self \in Members
  BY DEF Members
<1>2. IsRing(AddNode(Clear, Self)) /\ AddNode(Clear, Self).nodes = Clear.nodes \cup {Self}
  BY <1>1, ClearRing, AddNodeIs
<1> QED
  BY <1>2, ClearRing DEF LocalRing

-----------------------------------------------------------------------------
(* Membership *)

\* The nodes that were reclaimed: TransitionNode is done with them or at work.
Leaving == retired \cup {x.node : x \in transition}

\* The nodes on a ring, and those a Rebuild is going to add.
Placed ==
    ring.nodes \cup absent.nodes
        \cup UNION {builds[b].live \cup builds[b].away : b \in Rebuilders}

\* The inductive invariant.  That a retired node is on no ring rests on its
\* entry in the table, which is reclaimed as long as there is one, and on the
\* Rebuild at work, which goes by the table; with two at work, one may go by
\* an older table.
MeshInv ==
    /\ IsTable(peers)
    /\ \A c \in copy : c.id \in Nodes /\ c.info \in Peer
    /\ builds \in [Rebuilders -> [live : SUBSET Nodes, away : SUBSET Nodes]]
    /\ IsRing(ring) /\ IsRing(absent)
    /\ Leaving \subseteq Managed
    /\ \A n \in Leaving \ forgotten : Reclaimed(peers, n)
    /\ crossed \in BOOLEAN
    /\ ~crossed => Placed \cap (Leaving \ forgotten) = {}

LEMMA MeshInvInit == Init => MeshInv
<1> SUFFICES ASSUME Init PROVE MeshInv
  OBVIOUS
<1>1. IsTable(peers)
  BY NewPeerIs DEF Init, IsTable, Ids
<1>2. builds \in [Rebuilders -> [live : SUBSET Nodes, away : SUBSET Nodes]]
  BY DEF Init, Idle
<1>3. IsRing(ring) /\ IsRing(absent)
  BY ClearRing DEF Init
<1>4. Leaving = {} /\ copy = {} /\ crossed = FALSE
  BY DEF Init, Leaving
<1> QED
  BY <1>1, <1>2, <1>3, <1>4 DEF MeshInv

\* A Rebuild begins, by a table in which whoever is leaving is reclaimed.
LEMMA RebuildStep ==
    ASSUME MeshInv, NEW b \in Rebuilders, Rebuild(b, peers'), IsTable(peers'),
           \A c \in copy' : c.id \in Nodes /\ c.info \in Peer,
           Leaving' \subseteq Managed,
           \A n \in Leaving' \ forgotten' : Reclaimed(peers', n)
    PROVE  MeshInv'
<1> DEFINE C == Candidates(peers')
<1>1. /\ C.live \cup C.away \subseteq Nodes
      /\ \A n \in C.live \cup C.away : ~Reclaimed(peers', n)
  BY DEF Candidates, Reclaimed, IsTable, Ids
<1>2. C = [live |-> C.live, away |-> C.away]
  BY DEF Candidates
<1> HIDE DEF C
<1>3. /\ builds \in [Rebuilders -> [live : SUBSET Nodes, away : SUBSET Nodes]]
      /\ builds' = [builds EXCEPT ![b] = C] /\ ring' = LocalRing /\ absent' = LocalRing
      /\ crossed' = (crossed \/ \E c \in Rebuilders : builds[c] # Idle)
  BY DEF MeshInv, Rebuild, C
<1>4. builds' \in [Rebuilders -> [live : SUBSET Nodes, away : SUBSET Nodes]]
  BY <1>1, <1>2, <1>3
<1>5. IsRing(ring') /\ IsRing(absent')
  BY <1>3, LocalRingIs
<1>6. crossed' \in BOOLEAN
  BY <1>3
<1>7. ASSUME ~crossed', NEW n \in Placed', n \in Leaving' \ forgotten' PROVE FALSE
  <2>1. n \in Nodes /\ Reclaimed(peers', n) /\ n # Self
    BY <1>7, MembershipAssumption
  <2>2. n \notin ring'.nodes \cup absent'.nodes
    BY <1>3, <2>1, LocalRingIs
  <2>3. PICK c \in Rebuilders : n \in builds'[c].live \cup builds'[c].away
    BY <1>7, <2>2 DEF Placed
  <2>4. CASE c = b
    BY <1>1, <1>3, <2>1, <2>3, <2>4
  <2>5. CASE c # b
    <3>1. builds'[c] = Idle
      BY <1>3, <1>7, <2>5
    <3> QED
      BY <2>3, <3>1, SMT DEF Idle
  <2> QED
    BY <2>4, <2>5
<1> QED
  BY <1>4, <1>5, <1>6, <1>7 DEF MeshInv

\* The rings are left alone.
LEMMA QuietStep ==
    ASSUME MeshInv, UNCHANGED <<ring, absent, builds, crossed>>, IsTable(peers'),
           \A c \in copy' : c.id \in Nodes /\ c.info \in Peer,
           Leaving' \subseteq Managed,
           \A n \in Leaving' \ forgotten' : Reclaimed(peers', n),
           Leaving' \ forgotten' \subseteq Leaving \ forgotten
    PROVE  MeshInv'
<1>1. Placed' = Placed
  BY DEF Placed
<1> QED
  BY <1>1 DEF MeshInv

\* A change of the table loses no reclaimed peer but those that are forgotten.
LEMMA TableStep ==
    ASSUME MeshInv, UNCHANGED <<transition, retired>>, Keeps(peers, peers'),
           forgotten \subseteq forgotten',
           \A n \in Nodes : Reclaimed(peers, n) => n \in DOMAIN peers' \cup forgotten'
    PROVE  /\ Leaving' \subseteq Managed
           /\ \A n \in Leaving' \ forgotten' : Reclaimed(peers', n)
           /\ Leaving' \ forgotten' \subseteq Leaving \ forgotten
<1>1. Leaving' = Leaving
  BY DEF Leaving
<1>2. Leaving \subseteq Nodes
  BY MembershipAssumption DEF MeshInv
<1>3. ASSUME NEW n \in Leaving' \ forgotten' PROVE Reclaimed(peers', n)
  <2>1. Reclaimed(peers, n) /\ n \in DOMAIN peers'
    BY <1>1, <1>2, <1>3 DEF MeshInv
  <2> QED
    BY <2>1 DEF Keeps
<1> QED
  BY <1>1, <1>3 DEF MeshInv

\* Learn forgets the reclaimed peers that it evicts.
LEMMA LearnStep ==
    ASSUME MeshInv, UNCHANGED <<transition, retired>>, NEW t, Learn(t), IsTable(t), Keeps(peers, t)
    PROVE  /\ IsTable(peers') /\ Leaving' \subseteq Managed
           /\ \A n \in Leaving' \ forgotten' : Reclaimed(peers', n)
           /\ Leaving' \ forgotten' \subseteq Leaving \ forgotten
<1>1. /\ peers' = t
      /\ forgotten' = forgotten \cup {n \in DOMAIN peers \ DOMAIN t : peers[n].state = "reclaimed"}
  BY DEF Learn
<1>2. \A n \in Nodes : Reclaimed(peers, n) => n \in DOMAIN peers' \cup forgotten'
  BY <1>1 DEF Reclaimed
<1> QED
  BY <1>1, <1>2, TableStep

LEMMA LearnAndRebuildIf ==
    ASSUME MeshInv, UNCHANGED <<transition, retired>>, copy' = {}, NEW needed \in BOOLEAN,
           NEW t, Learn(t), RebuildIf(needed, t), IsTable(t), Keeps(peers, t)
    PROVE  MeshInv'
<1>1. /\ IsTable(peers') /\ Leaving' \subseteq Managed
      /\ \A n \in Leaving' \ forgotten' : Reclaimed(peers', n)
      /\ Leaving' \ forgotten' \subseteq Leaving \ forgotten
  BY LearnStep
<1>2. peers' = t
  BY DEF Learn
<1>3. CASE needed
  <2>1. PICK b \in Rebuilders : Rebuild(b, peers')
    BY <1>2, <1>3 DEF RebuildIf
  <2> QED
    BY <1>1, <2>1, RebuildStep
<1>4. CASE ~needed
  <2>1. UNCHANGED <<ring, absent, builds, crossed>>
    BY <1>4 DEF RebuildIf, rings
  <2> QED
    BY <1>1, <2>1, QuietStep
<1> QED
  BY <1>3, <1>4

LEMMA KeepsThrough ==
    ASSUME NEW t, NEW u, NEW v, Keeps(t, u), Keeps(u, v), DOMAIN t \subseteq DOMAIN u
    PROVE  Keeps(t, v)
  BY DEF Keeps, Reclaimed

LEMMA AddNextNodeStep ==
    ASSUME MeshInv, NEW b \in Rebuilders, AddNextNode(b)
    PROVE  MeshInv'
<1>1. PICK n \in builds[b].live \cup builds[b].away :
        /\ ring' = IF n \in builds[b].live THEN AddNode(ring, n) ELSE ring
        /\ absent' = AddNode(absent, n)
        /\ builds' = [builds EXCEPT ![b] = [live |-> @.live \ {n}, away |-> @.away \ {n}]]
        /\ UNCHANGED <<table, transition, history>>
  BY DEF AddNextNode
<1> DEFINE left == [live |-> builds[b].live \ {n}, away |-> builds[b].away \ {n}]
<1>2. \A c \in Rebuilders : builds[c].live \subseteq Nodes /\ builds[c].away \subseteq Nodes
  BY SMT DEF MeshInv
<1>3. n \in Members /\ n \in Placed
  BY <1>1, <1>2 DEF Members, Placed
<1>4. /\ IsRing(AddNode(ring, n)) /\ AddNode(ring, n).nodes = ring.nodes \cup {n}
      /\ IsRing(AddNode(absent, n)) /\ AddNode(absent, n).nodes = absent.nodes \cup {n}
  BY <1>3, AddNodeIs DEF MeshInv
<1>5. /\ IsRing(ring') /\ IsRing(absent')
      /\ ring'.nodes \cup absent'.nodes \subseteq Placed
  <2>1. ring' = AddNode(ring, n) \/ ring' = ring
    BY <1>1
  <2> QED
    BY <1>1, <1>3, <1>4, <2>1 DEF MeshInv, Placed
<1>6. left.live \subseteq builds[b].live /\ left.away \subseteq builds[b].away
  OBVIOUS
<1>7. left \in [live : SUBSET Nodes, away : SUBSET Nodes]
  BY <1>2
<1>8. builds \in [Rebuilders -> [live : SUBSET Nodes, away : SUBSET Nodes]]
  BY DEF MeshInv
<1>9. builds' = [builds EXCEPT ![b] = left]
  BY <1>1
<1> HIDE DEF left
<1>10. /\ builds' \in [Rebuilders -> [live : SUBSET Nodes, away : SUBSET Nodes]]
       /\ \A c \in Rebuilders : /\ builds'[c].live \subseteq builds[c].live
                                /\ builds'[c].away \subseteq builds[c].away
  BY <1>6, <1>7, <1>8, <1>9
<1>11. ASSUME NEW m \in Placed' PROVE m \in Placed
  <2>1. CASE m \in ring'.nodes \cup absent'.nodes
    BY <1>5, <2>1
  <2>2. CASE \E c \in Rebuilders : m \in builds'[c].live \cup builds'[c].away
    <3>1. PICK c \in Rebuilders : m \in builds'[c].live \cup builds'[c].away
      BY <2>2
    <3>2. m \in builds[c].live \cup builds[c].away
      BY <1>10, <3>1
    <3> QED
      BY <3>2 DEF Placed
  <2> QED
    BY <1>11, <2>1, <2>2 DEF Placed
<1>12. Leaving' = Leaving /\ UNCHANGED <<peers, copy, forgotten, crossed>>
  BY <1>1 DEF Leaving, table, history
<1> QED
  BY <1>5, <1>10, <1>11, <1>12 DEF MeshInv

LEMMA BeaconStep ==
    ASSUME MeshInv, NEW n \in Nodes, Beacon(n)
    PROVE  MeshInv'
<1> DEFINE info == [NewPeer EXCEPT !.supervisor = n \in Supervisors]
<1>1. info \in Peer
  <2>1. (n \in Supervisors) \in BOOLEAN
    BY SMT
  <2> QED
    BY <2>1, NewPeerIs, PeerFields
<1>2. PICK t \in Upsert(peers, n, info, "discovery") : Learn(t)
  BY DEF Beacon
<1> HIDE DEF info
<1>3. IsTable(t) /\ Keeps(peers, t)
  BY <1>1, <1>2, UpsertIs DEF MeshInv, Ids
<1>4. UNCHANGED <<transition, retired>> /\ UNCHANGED <<copy, ring, absent, builds, crossed>>
  BY DEF Beacon, rings
<1>5. /\ IsTable(peers') /\ Leaving' \subseteq Managed
      /\ \A m \in Leaving' \ forgotten' : Reclaimed(peers', m)
      /\ Leaving' \ forgotten' \subseteq Leaving \ forgotten
  BY <1>2, <1>3, <1>4, LearnStep
<1>6. \A c \in copy' : c.id \in Nodes /\ c.info \in Peer
  BY <1>4 DEF MeshInv
<1> QED
  BY <1>4, <1>5, <1>6, QuietStep

\* A step that changes the table, evicts no peer and leaves the rings alone.
LEMMA CallStep ==
    ASSUME MeshInv, IsTable(peers'), Keeps(peers, peers'),
           Nodes \cap DOMAIN peers \subseteq DOMAIN peers',
           \A c \in copy' : c.id \in Nodes /\ c.info \in Peer,
           UNCHANGED <<rings, transition, history>>
    PROVE  MeshInv'
<1>1. /\ UNCHANGED <<transition, retired>> /\ UNCHANGED <<ring, absent, builds, crossed>>
      /\ forgotten' = forgotten
  BY DEF rings, history
<1>2. \A n \in Nodes : Reclaimed(peers, n) => n \in DOMAIN peers' \cup forgotten'
  BY DEF Reclaimed
<1>3. /\ Leaving' \subseteq Managed
      /\ \A m \in Leaving' \ forgotten' : Reclaimed(peers', m)
      /\ Leaving' \ forgotten' \subseteq Leaving \ forgotten
  BY <1>1, <1>2, TableStep
<1> QED
  BY <1>1, <1>3, QuietStep

LEMMA InboundStep ==
    ASSUME MeshInv, NEW n \in Nodes, Inbound(n)
    PROVE  MeshInv'
<1> DEFINE t == MarkHandshakeProven(peers, n)
<1>1. /\ peers' = t
      /\ copy' = IF n \in DOMAIN t THEN {[id |-> n, info |-> t[n], source |-> "handshake"]} ELSE {}
      /\ UNCHANGED <<rings, transition, history>>
  BY DEF Inbound
<1>2. IsTable(t) /\ Keeps(peers, t) /\ DOMAIN peers \subseteq DOMAIN t
  BY MarkHandshakeProvenIs DEF MeshInv, Ids
<1> HIDE DEF t
<1>3. ASSUME NEW c \in copy' PROVE c.id \in Nodes /\ c.info \in Peer
  <2>1. n \in DOMAIN t /\ c = [id |-> n, info |-> t[n], source |-> "handshake"]
    BY <1>1, <1>3
  <2>2. c.id = n /\ c.info = t[n]
    BY <2>1
  <2> QED
    BY <1>2, <2>1, <2>2 DEF IsTable
<1> QED
  BY <1>1, <1>2, <1>3, CallStep

LEMMA HandleHeartbeatStep ==
    ASSUME MeshInv, NEW c \in copy, NEW full \in BOOLEAN, HandleHeartbeat(c, full)
    PROVE  MeshInv'
<1> DEFINE info == [c.info EXCEPT !.age = 0]
           new(r) == c.id \in Supervisors /\ c.id \in DOMAIN r /\ ~r[c.id].supervisor
           noted(r) == IF new(r) THEN [r EXCEPT ![c.id].supervisor = TRUE] ELSE r
<1>1. c.id \in Ids /\ c.info \in Peer
  BY DEF MeshInv, Ids
<1>2. info \in Peer
  <2>1. 0 \in 0 .. DeadAge
    BY PeerTableAssumption, SMT
  <2> QED
    BY <1>1, <2>1, PeerFields
<1>3. PICK t \in Upsert(peers, c.id, info, "handshake") :
        LET r == RecordReport(t, c.id, full) IN Learn(noted(r)) /\ RebuildIf(new(r), noted(r))
  BY DEF HandleHeartbeat
<1> DEFINE r == RecordReport(t, c.id, full)
           u == noted(r)
<1>4. Learn(u) /\ RebuildIf(new(r), u)
  BY <1>3
<1> HIDE DEF info
<1>5. IsTable(t) /\ Keeps(peers, t)
  BY <1>1, <1>2, <1>3, UpsertIs DEF MeshInv
<1>6. IsTable(r) /\ Keeps(t, r) /\ DOMAIN r = DOMAIN t
  BY <1>5, RecordReportIs
<1> HIDE DEF r
<1>7. IsTable(u) /\ Keeps(r, u) /\ DOMAIN u = DOMAIN r
  <2>1. CASE new(r)
    <3> DEFINE p == [r[c.id] EXCEPT !.supervisor = TRUE]
    <3>1. c.id \in DOMAIN r /\ r[c.id] \in Peer
      BY <1>6, <2>1 DEF IsTable
    <3>2. p \in Peer /\ p.state = r[c.id].state
      BY <3>1, PeerFields
    <3>3. u = [r EXCEPT ![c.id] = p]
      BY <2>1
    <3> HIDE DEF p, u
    <3> QED
      BY <1>6, <3>1, <3>2, <3>3, EditEntry
  <2>2. CASE ~new(r)
    BY <1>6, <2>2, KeepsIs
  <2> QED
    BY <2>1, <2>2
<1>8. new(r) \in BOOLEAN
  BY SMT
<1> HIDE DEF u, new
<1>9. Keeps(peers, u)
  BY <1>5, <1>6, <1>7, KeepsIs
<1>10. copy' = {} /\ UNCHANGED <<transition, retired>>
  BY DEF HandleHeartbeat
<1> QED
  BY <1>4, <1>7, <1>8, <1>9, <1>10, LearnAndRebuildIf

LEMMA ProbeDoneStep ==
    ASSUME MeshInv, NEW c \in copy, ProbeDone(c)
    PROVE  MeshInv'
<1>1. c.id \in Ids /\ c.info \in Peer
  BY DEF MeshInv, Ids
<1>2. PICK t \in Upsert(peers, c.id, c.info, "probe") :
        Learn(t) /\ RebuildIf(c.info.supervisor, t)
  BY DEF ProbeDone
<1>3. IsTable(t) /\ Keeps(peers, t)
  BY <1>1, <1>2, UpsertIs DEF MeshInv
<1>4. c.info.supervisor \in BOOLEAN
  BY <1>1, PeerFields
<1>5. copy' = {} /\ UNCHANGED <<transition, retired>>
  BY DEF ProbeDone
<1> QED
  BY <1>2, <1>3, <1>4, <1>5, LearnAndRebuildIf

LEMMA ProbeFailsStep ==
    ASSUME MeshInv, NEW id \in DOMAIN peers, ProbeFails(id)
    PROVE  MeshInv'
<1>1. PICK t \in RecordProbe(peers, id, FALSE) :
        peers' = IF Suspicion(t[id]) = "dead" THEN SetState(t, id, "degraded") ELSE t
  BY DEF ProbeFails
<1>2. IsTable(t) /\ Keeps(peers, t) /\ DOMAIN t = DOMAIN peers
  BY <1>1, RecordProbeIs DEF MeshInv
<1>3. "degraded" \in States
  BY DEF States
<1>4. /\ IsTable(SetState(t, id, "degraded")) /\ Keeps(t, SetState(t, id, "degraded"))
      /\ DOMAIN SetState(t, id, "degraded") = DOMAIN t
  BY <1>2, <1>3, SetStateIs
<1>5. Keeps(peers, SetState(t, id, "degraded"))
  BY <1>2, <1>4, KeepsThrough
<1>6. IsTable(peers') /\ Keeps(peers, peers') /\ DOMAIN peers' = DOMAIN peers
  BY <1>1, <1>2, <1>4, <1>5
<1>7. UNCHANGED copy /\ UNCHANGED <<rings, transition, history>>
  BY DEF ProbeFails
<1>8. \A c \in copy' : c.id \in Nodes /\ c.info \in Peer
  BY <1>7 DEF MeshInv
<1> QED
  BY <1>6, <1>7, <1>8, CallStep

LEMMA ProbeAnsweredStep ==
    ASSUME MeshInv, NEW id \in DOMAIN peers, NEW full \in BOOLEAN, ProbeAnswered(id, full)
    PROVE  MeshInv'
<1> DEFINE n == NodeOf(id)
           m == MarkHandshakeProven(peers, n)
           adopted(t) == AdoptIdentity(RecordReport(t, id, full), id, n)
           info(u) == [u[n] EXCEPT !.age = 0,
                                   !.supervisor = @ \/ n \in Supervisors,
                                   !.state = IF @ = "degraded" THEN "running" ELSE @]
<1>1. id \in Ids /\ n \in Nodes /\ (id = n \/ id \notin Nodes)
  BY MembershipAssumption DEF MeshInv, IsTable, Ids, NodeOf
<1>2. PICK t \in RecordProbe(m, id, TRUE) :
        /\ peers' = adopted(t)
        /\ copy' = {[id |-> n, info |-> info(adopted(t)), source |-> "probe"]}
  BY DEF ProbeAnswered
<1> HIDE DEF n
<1>3. IsTable(m) /\ Keeps(peers, m) /\ DOMAIN peers \subseteq DOMAIN m
  BY <1>1, MarkHandshakeProvenIs DEF MeshInv, Ids
<1> HIDE DEF m
<1>4. IsTable(t) /\ Keeps(m, t) /\ DOMAIN t = DOMAIN m
  BY <1>2, <1>3, RecordProbeIs
<1> DEFINE r == RecordReport(t, id, full)
           u == AdoptIdentity(r, id, n)
<1>5. peers' = u /\ copy' = {[id |-> n, info |-> info(u), source |-> "probe"]}
  BY <1>2
<1>6. IsTable(r) /\ Keeps(t, r) /\ DOMAIN r = DOMAIN t
  BY <1>4, RecordReportIs
<1> HIDE DEF r
<1>7. /\ IsTable(u) /\ Keeps(r, u) /\ n \in DOMAIN u
      /\ Nodes \cap DOMAIN r \subseteq DOMAIN u
  BY <1>1, <1>3, <1>4, <1>6, AdoptIdentityIs
<1> HIDE DEF u
<1>8. Keeps(peers, t) /\ Keeps(peers, r) /\ Keeps(peers, u)
  BY <1>3, <1>4, <1>6, <1>7, KeepsThrough
<1>9. info(u) \in Peer
  <2> DEFINE p == u[n]
             q == [p EXCEPT !.age = 0]
             v == p.supervisor \/ n \in Supervisors
             s == IF p.state = "degraded" THEN "running" ELSE p.state
             w == [q EXCEPT !.supervisor = v]
  <2>1. p \in Peer /\ 0 \in 0 .. DeadAge
    BY <1>7, PeerTableAssumption, SMT DEF IsTable
  <2>2. info(u) = [w EXCEPT !.state = s]
    BY <2>1, SMT DEF Peer
  <2>3. v \in BOOLEAN
    BY SMT
  <2>4. s \in States
    BY <2>1, PeerFields DEF States
  <2> HIDE DEF p, v, s, info
  <2>5. q \in Peer
    BY <2>1, PeerFields
  <2> HIDE DEF q
  <2>6. w \in Peer
    BY <2>3, <2>5, PeerFields
  <2> HIDE DEF w
  <2> QED
    BY <2>2, <2>4, <2>6, StateField
<1> HIDE DEF info
<1>10. ASSUME NEW c \in copy' PROVE c.id \in Nodes /\ c.info \in Peer
  <2>1. c = [id |-> n, info |-> info(u), source |-> "probe"]
    BY <1>5, <1>10
  <2>2. c.id = n /\ c.info = info(u)
    BY <2>1
  <2> QED
    BY <1>1, <1>9, <2>2
<1>11. UNCHANGED <<rings, transition, history>>
  BY DEF ProbeAnswered
<1>12. Nodes \cap DOMAIN peers \subseteq DOMAIN u
  BY <1>3, <1>4, <1>6, <1>7
<1> QED
  BY <1>5, <1>7, <1>8, <1>10, <1>11, <1>12, CallStep

LEMMA DegradeStep ==
    ASSUME MeshInv, NEW ids, peers' = Degrade(peers, ids), RebuildIf(TRUE, peers'),
           UNCHANGED <<copy, transition, retired, forgotten>>
    PROVE  MeshInv'
<1>1. IsTable(peers') /\ Keeps(peers, peers') /\ DOMAIN peers' = DOMAIN peers
  BY DegradeIs DEF MeshInv
<1>2. \A n \in Nodes : Reclaimed(peers, n) => n \in DOMAIN peers' \cup forgotten'
  BY <1>1 DEF Reclaimed
<1>3. /\ Leaving' \subseteq Managed
      /\ \A n \in Leaving' \ forgotten' : Reclaimed(peers', n)
  BY <1>1, <1>2, TableStep
<1>4. PICK b \in Rebuilders : Rebuild(b, peers')
  BY DEF RebuildIf
<1>5. \A c \in copy' : c.id \in Nodes /\ c.info \in Peer
  BY DEF MeshInv
<1> QED
  BY <1>1, <1>3, <1>4, <1>5, RebuildStep

LEMMA RebuildPlacementStep ==
    ASSUME MeshInv, NEW b \in Rebuilders, RebuildPlacement(b)
    PROVE  MeshInv'
<1>1. UNCHANGED <<peers, copy, transition, retired, forgotten>> /\ Rebuild(b, peers')
  BY DEF RebuildPlacement, table
<1>2. Leaving' = Leaving
  BY <1>1 DEF Leaving
<1>3. /\ IsTable(peers') /\ Leaving' \subseteq Managed
      /\ \A c \in copy' : c.id \in Nodes /\ c.info \in Peer
      /\ \A n \in Leaving' \ forgotten' : Reclaimed(peers', n)
  BY <1>1, <1>2 DEF MeshInv
<1> QED
  BY <1>1, <1>3, RebuildStep

LEMMA TransitionNodeStep ==
    ASSUME MeshInv, NEW n \in Managed, NEW to \in States, NEW b \in Rebuilders,
           TransitionNode(n, to, b)
    PROVE  MeshInv'
<1>1. /\ transition = {} /\ peers' = SetState(peers, n, to)
      /\ forgotten' = IF to = "reclaimed" /\ n \notin DOMAIN peers
                      THEN forgotten \cup {n} ELSE forgotten
      /\ Rebuild(b, peers') /\ UNCHANGED <<copy, retired>>
      /\ transition' = IF to = "reclaimed" THEN {[node |-> n, in |-> b]} ELSE {}
  BY DEF TransitionNode
<1>2. /\ IsTable(peers') /\ Keeps(peers, peers') /\ DOMAIN peers' = DOMAIN peers
      /\ to = "reclaimed" /\ n \in DOMAIN peers => Reclaimed(peers', n)
  BY <1>1, SetStateIs DEF MeshInv
<1>3. Leaving = retired /\ Leaving' \subseteq retired \cup {n}
      /\ (to # "reclaimed" => Leaving' = retired)
  <2>1. CASE to = "reclaimed"
    BY <1>1, <2>1, SMT DEF Leaving
  <2>2. CASE to # "reclaimed"
    BY <1>1, <2>2 DEF Leaving
  <2> QED
    BY <2>1, <2>2
<1>4. ASSUME NEW x \in Leaving' \ forgotten' PROVE Reclaimed(peers', x)
  <2>1. CASE x \in retired
    <3>1. Reclaimed(peers, x)
      BY <1>1, <1>3, <1>4, <2>1 DEF MeshInv
    <3> QED
      BY <1>2, <3>1 DEF Keeps, Reclaimed
  <2>2. CASE x \notin retired
    BY <1>1, <1>2, <1>3, <1>4, <2>2
  <2> QED
    BY <2>1, <2>2
<1>5. \A c \in copy' : c.id \in Nodes /\ c.info \in Peer
  BY <1>1 DEF MeshInv
<1>6. Leaving' \subseteq Managed
  BY <1>3 DEF MeshInv
<1> QED
  BY <1>1, <1>2, <1>4, <1>5, <1>6, RebuildStep

LEMMA TransitionDoneStep ==
    ASSUME MeshInv, TransitionDone
    PROVE  MeshInv'
<1>1. PICK x \in transition :
        /\ transition' = {} /\ retired' = retired \cup {x.node}
        /\ UNCHANGED <<table, rings, forgotten, crossed>>
  BY DEF TransitionDone
<1>2. UNCHANGED <<peers, copy, ring, absent, builds, crossed, forgotten>>
  BY <1>1 DEF table, rings
<1>3. Leaving' \subseteq Leaving
  BY <1>1 DEF Leaving
<1>4. /\ IsTable(peers') /\ Leaving' \subseteq Managed
      /\ \A c \in copy' : c.id \in Nodes /\ c.info \in Peer
      /\ \A n \in Leaving' \ forgotten' : Reclaimed(peers', n)
      /\ Leaving' \ forgotten' \subseteq Leaving \ forgotten
  BY <1>2, <1>3 DEF MeshInv
<1> QED
  BY <1>2, <1>4, QuietStep

LEMMA TickStep ==
    ASSUME MeshInv, Tick
    PROVE  MeshInv'
<1> DEFINE older(id) == [peers[id] EXCEPT !.age = Min({@ + 1, DeadAge})]
<1>1. /\ peers' = [id \in DOMAIN peers |-> older(id)]
      /\ copy' = copy /\ UNCHANGED <<rings, transition, history>>
  BY DEF Tick
<1>2. ASSUME NEW id \in DOMAIN peers PROVE older(id) \in Peer /\ older(id).state = peers[id].state
  <2> DEFINE a == peers[id].age
  <2>1. peers[id] \in Peer
    BY DEF MeshInv, IsTable
  <2>2. a \in 0 .. DeadAge
    BY <2>1, PeerFields
  <2>3. Min({a + 1, DeadAge}) \in 0 .. DeadAge
    <3>1. CASE a = DeadAge
      <4>1. Min({a + 1, DeadAge}) = DeadAge
        BY <2>2, <3>1, PeerTableAssumption, SMT DEF Min
      <4> QED
        BY <4>1, PeerTableAssumption, SMT
    <3>2. CASE a # DeadAge
      <4>1. a + 1 \in 0 .. DeadAge /\ DeadAge \in 0 .. DeadAge
        BY <2>2, <3>2, PeerTableAssumption, SMT
      <4> QED
        BY <4>1, YoungerAge
    <3> QED
      BY <3>1, <3>2
  <2> QED
    BY <2>1, <2>3, PeerFields
<1> HIDE DEF older
<1>3. /\ DOMAIN peers' = DOMAIN peers /\ IsTable(peers') /\ Keeps(peers, peers')
  BY <1>1, <1>2 DEF MeshInv, IsTable, Keeps, Reclaimed
<1>4. \A c \in copy' : c.id \in Nodes /\ c.info \in Peer
  BY <1>1 DEF MeshInv
<1> QED
  BY <1>1, <1>3, <1>4, CallStep

LEMMA MeshInvStep == MeshInv /\ [Next]_vars => MeshInv'
<1> SUFFICES ASSUME MeshInv, [Next]_vars PROVE MeshInv'
  OBVIOUS
<1>1. ASSUME NEW b \in Rebuilders, RebuildPlacement(b) PROVE MeshInv'
  BY <1>1, RebuildPlacementStep
<1>2. ASSUME NEW b \in Rebuilders, AddNextNode(b) PROVE MeshInv'
  BY <1>2, AddNextNodeStep
<1>3. ASSUME NEW n \in Nodes, Beacon(n) PROVE MeshInv'
  BY <1>3, BeaconStep
<1>4. ASSUME NEW n \in Nodes, Inbound(n) PROVE MeshInv'
  BY <1>4, InboundStep
<1>5. ASSUME NEW c \in copy, NEW full \in BOOLEAN, HandleHeartbeat(c, full) PROVE MeshInv'
  BY <1>5, HandleHeartbeatStep
<1>6. ASSUME NEW id \in DOMAIN peers, NEW full \in BOOLEAN, ProbeAnswered(id, full)
      PROVE  MeshInv'
  BY <1>6, ProbeAnsweredStep
<1>7. ASSUME NEW c \in copy, ProbeDone(c) PROVE MeshInv'
  BY <1>7, ProbeDoneStep
<1>8. ASSUME NEW id \in DOMAIN peers, ProbeFails(id) PROVE MeshInv'
  BY <1>8, ProbeFailsStep
<1>9. CASE MarkStalePeersDegraded
  BY <1>9, DegradeStep DEF MarkStalePeersDegraded
<1>10. CASE EnforceQuota
  BY <1>10, DegradeStep DEF EnforceQuota
<1>11. ASSUME NEW n \in Managed, NEW to \in States, NEW b \in Rebuilders, TransitionNode(n, to, b)
       PROVE  MeshInv'
  BY <1>11, TransitionNodeStep
<1>12. CASE TransitionDone
  BY <1>12, TransitionDoneStep
<1>13. CASE Tick
  BY <1>13, TickStep
<1>14. CASE UNCHANGED vars
  <2>1. /\ UNCHANGED <<peers, copy, ring, absent, builds, crossed, forgotten>>
        /\ UNCHANGED <<transition, retired>>
    BY <1>14 DEF vars, table, rings, history
  <2>2. Leaving' = Leaving
    BY <2>1 DEF Leaving
  <2>3. Placed' = Placed
    BY <2>1 DEF Placed
  <2> QED
    BY <2>1, <2>2, <2>3 DEF MeshInv
<1> QED
  BY <1>1, <1>2, <1>3, <1>4, <1>5, <1>6, <1>7, <1>8, <1>9, <1>10, <1>11, <1>12, <1>13, <1>14
     DEF Next

\* Once TransitionNode has reclaimed a node it is on no ring, whatever beacon,
\* request, probe or Rebuild was under way, as long as the table keeps its entry
\* and no two Rebuilds overlap: for any number of nodes, positions and Rebuilds.
THEOREM RetiredStaysOut == Spec => []ReclaimedStaysOut
<1>1. MeshInv => ReclaimedStaysOut
  BY DEF MeshInv, ReclaimedStaysOut, Placed, Leaving
<1> QED
  BY MeshInvInit, MeshInvStep, <1>1, PTL DEF Spec

\* Placement depends on who is in the mesh alone: however the rings came about,
\* through whichever order of AddNode and interleaving of Rebuilds, each is the
\* ring of its nodes, where the smallest id has a position that two nodes want.
THEOREM RingIsItsNodes ==
    Spec => [](ring = RingOf(ring.nodes) /\ absent = RingOf(absent.nodes))
<1>1. MeshInv => ring = RingOf(ring.nodes) /\ absent = RingOf(absent.nodes)
  BY RingUnique DEF MeshInv
<1> QED
  BY MeshInvInit, MeshInvStep, <1>1, PTL DEF Spec

=============================================================================
