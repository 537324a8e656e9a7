----------------------------- MODULE PeerTable ------------------------------
(***************************************************************************)
(* The peer table of a node (src/src/net/peer.cpp) as operators on its     *)
(* value, a function from node ids to what is known of the peer.           *)
(*                                                                         *)
(* Time is the age of the last contact, in ticks up to DeadAge.  The probe *)
(* statistics are kept as far as the code compares them: no probe yet, a   *)
(* success rate of at least 0.5, below it, or below 0.15.  Addresses and   *)
(* keys are left out.                                                      *)
(***************************************************************************)
EXTENDS Naturals, FiniteSets, FiniteSetsExt, Functions

CONSTANTS
    MaxPeers,             \* kMaxPeers
    SuspectAge, DeadAge,  \* silent past the liveness threshold, past three times it
    StaleAge              \* silent past three gossip intervals and five seconds

ASSUME PeerTableAssumption ==
    /\ {SuspectAge, DeadAge, StaleAge} \subseteq Nat \ {0}
    /\ SuspectAge <= DeadAge /\ StaleAge <= DeadAge
    /\ MaxPeers \in Nat

States == {"discovered", "allocated", "provisioned", "running", "degraded", "reclaimed"}

Peer == [age : 0 .. DeadAge, supervisor : BOOLEAN, state : States,
         health : {"new", "good", "poor", "bad"}, full : BOOLEAN]

\* What a beacon, a handshake or a bootstrap address says of a peer.
NewPeer == [age |-> 0, supervisor |-> FALSE, state |-> "discovered", health |-> "new", full |-> FALSE]

\* Mutant: a node that is heard from again is taken back.
ValidNodeTransitionBack(from, to) == from = to \/ to = "running" \/ to = "reclaimed"

\* The edges of the lifecycle; reclaimed has none.
ValidNodeTransition(from, to) ==
    \/ from = to
    \/ <<from, to>> \in {<<"discovered", "allocated">>, <<"allocated", "provisioned">>,
                         <<"provisioned", "running">>, <<"provisioned", "degraded">>,
                         <<"running", "degraded">>, <<"degraded", "running">>}
    \/ from # "reclaimed" /\ to = "reclaimed"

Suspicion(p) ==
    CASE p.age >= DeadAge \/ p.health = "bad" -> "dead"
      [] p.age >= SuspectAge \/ p.health = "poor" -> "suspect"
      [] OTHER -> "healthy"

\* A new entry needs room, which the entry of a dead peer makes.
WithRoom(peers) ==
    IF Cardinality(DOMAIN peers) < MaxPeers THEN {peers}
    ELSE {Restrict(peers, DOMAIN peers \ {d}) :
              d \in {d \in DOMAIN peers : Suspicion(peers[d]) = "dead"}}

\* The table with a new entry.
Insert(peers, id, info) == [x \in DOMAIN peers \cup {id} |-> IF x = id THEN info ELSE peers[x]]

\* Upsert of info under id: the tables it may leave, one for every peer it may
\* evict.  Discovery never says that a peer is a supervisor, and the state only
\* moves along the lifecycle.
Upsert(peers, id, info, source) ==
    LET trusted == source # "discovery"
        fresh == [info EXCEPT !.supervisor = @ /\ trusted]
        old == peers[id]
        known == [old EXCEPT !.age = info.age,
                             !.supervisor = @ \/ (info.supervisor /\ trusted),
                             !.state = IF info.state # "discovered"
                                          /\ ValidNodeTransition(@, info.state)
                                       THEN info.state ELSE @]
    IN IF id \in DOMAIN peers THEN {[peers EXCEPT ![id] = known]}
       ELSE IF WithRoom(peers) = {} THEN {peers}
       ELSE {Insert(t, id, fresh) : t \in WithRoom(peers)}

\* A handshake never evicts.
MarkHandshakeProven(peers, id) ==
    IF id \in DOMAIN peers THEN [peers EXCEPT ![id].age = 0]
    ELSE IF Cardinality(DOMAIN peers) >= MaxPeers THEN peers
    ELSE Insert(peers, id, NewPeer)

\* The moving average of the outcomes, as far as it can cross 0.5 and 0.15.
Healths(health, ok) ==
    CASE health = "new" -> {"good"}
      [] health = "good" -> IF ok THEN {"good"} ELSE {"good", "poor"}
      [] health = "poor" -> IF ok THEN {"good", "poor"} ELSE {"poor", "bad"}
      [] health = "bad" -> IF ok THEN {"poor"} ELSE {"bad"}

RecordProbe(peers, id, ok) ==
    IF id \notin DOMAIN peers THEN {peers}
    ELSE {[peers EXCEPT ![id].health = h] : h \in Healths(peers[id].health, ok)}

RecordReport(peers, id, full) ==
    IF id \notin DOMAIN peers THEN peers ELSE [peers EXCEPT ![id].full = full]

\* The peer behind a bootstrap address is known by its own id from now on; an
\* entry it already has is kept and takes the fresher contact.
AdoptIdentity(peers, old, real) ==
    LET others == Restrict(peers, DOMAIN peers \ {old}) IN
    IF old = real \/ old \notin DOMAIN peers THEN peers
    ELSE IF real \in DOMAIN peers
    THEN [others EXCEPT ![real].age = Min({@, peers[old].age})]
    ELSE Insert(others, real, peers[old])

SetState(peers, id, state) ==
    IF id \in DOMAIN peers /\ ValidNodeTransition(peers[id].state, state)
    THEN [peers EXCEPT ![id].state = state] ELSE peers

StalerThan(peers, age) == {id \in DOMAIN peers : peers[id].age >= age}

=============================================================================
