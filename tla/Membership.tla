----------------------------- MODULE Membership -----------------------------
(***************************************************************************)
(* Who is in the mesh, as one node sees it: discovery beacons              *)
(* (src/src/net/udp_discovery.cpp), handshakes, heartbeats and the probe   *)
(* loop (src/src/net/network_manager.cpp) fill the peer table, the         *)
(* supervisor (src/src/supervisor/supervisor.cpp) moves peers through      *)
(* their lifecycle, and every change is followed by a Rebuild of the rings *)
(* that place data.                                                        *)
(*                                                                         *)
(* The table and each ring have a lock of their own, and no lock spans two *)
(* calls: a request and a probe hold a copy of an entry between their Get  *)
(* and their Upsert, and a Rebuild clears the rings and then adds nodes,   *)
(* while another may run.  The calls of one Rebuild on the two rings are   *)
(* paired here, which only an overlapping Rebuild could tell: properties   *)
(* that relate the rings are stated for Rebuilds that did not overlap.     *)
(***************************************************************************)
EXTENDS PeerTable, HashRing

CONSTANTS
    Self,          \* this node
    Nodes,         \* the others
    Managed,       \* those in the supervisor's registry
    Supervisors,   \* those that are supervisors, Self included
    Limited,       \* those with a quota
    Placeholders,  \* bootstrap addresses, each a function to the node behind it
    Rebuilders     \* as many Rebuilds may run at a time

ASSUME MembershipAssumption ==
    /\ Supervisors \cup Limited \subseteq Nodes \cup {Self}
    /\ Managed \subseteq Nodes
    /\ Placeholders \in [DOMAIN Placeholders -> Nodes]
    /\ Self \notin Nodes
    /\ DOMAIN Placeholders \cap (Nodes \cup {Self}) = {}
    /\ \A m, n \in Nodes \cup {Self} :
          Positions[n] \subseteq Nat /\ Rank[n] \in Nat /\ (Rank[m] = Rank[n] => m = n)

VARIABLES
    peers,       \* the peer table
    copy,        \* the entry a request or a probe is working on: {} or one
    ring, absent,  \* ring_ and ring_with_absent_
    builds,      \* the nodes each Rebuild has still to add
    transition,  \* the TransitionNode to reclaimed at work: {} or one
    retired,     \* history: the nodes whose TransitionNode to reclaimed is done
    forgotten,   \* history: the nodes reclaimed while the table did not have them
    crossed      \* history: two Rebuilds ran at a time

table == <<peers, copy>>
rings == <<ring, absent, builds>>
history == <<retired, forgotten, crossed>>
vars == <<table, rings, transition, history>>

Idle == [live |-> {}, away |-> {}]

NodeOf(id) == IF id \in DOMAIN Placeholders THEN Placeholders[id] ELSE id

Init ==
    /\ peers = [id \in DOMAIN Placeholders |-> NewPeer]
    /\ copy = {}
    /\ ring = Clear /\ absent = Clear
    /\ builds = [b \in Rebuilders |-> Idle]
    /\ transition = {}
    /\ retired = {} /\ forgotten = {} /\ crossed = FALSE

-----------------------------------------------------------------------------
(* Rebuild *)

\* What Rebuild makes of table t: the live peers, and those that are away but
\* still owed writes.
Candidates(t) ==
    LET named == {n \in DOMAIN t \ DOMAIN Placeholders :
                     ~t[n].supervisor /\ t[n].state # "reclaimed"}
        away == {n \in named : t[n].state = "degraded" \/ t[n].age >= StaleAge}
    IN [live |-> named \ away, away |-> away]

\* A ring that is cleared and has the local node, unless that is a supervisor.
LocalRing == IF Self \in Supervisors THEN Clear ELSE AddNode(Clear, Self)

\* Rebuild b begins on table t.
Rebuild(b, t) ==
    /\ builds[b] = Idle
    /\ builds' = [builds EXCEPT ![b] = Candidates(t)]
    /\ ring' = LocalRing /\ absent' = LocalRing
    /\ crossed' = (crossed \/ \E c \in Rebuilders : builds[c] # Idle)

\* A step that rebuilds when needed.
RebuildIf(needed, t) ==
    IF needed THEN \E b \in Rebuilders : Rebuild(b, t)
    ELSE UNCHANGED <<rings, crossed>>

RebuildPlacement(b) ==
    /\ Rebuild(b, peers)
    /\ UNCHANGED <<table, transition, retired, forgotten>>

\* The peers are added in the order of an unordered map, one that is away only
\* to ring_with_absent_.
AddNextNode(b) ==
    \E n \in builds[b].live \cup builds[b].away :
        /\ ring' = IF n \in builds[b].live THEN AddNode(ring, n) ELSE ring
        /\ absent' = AddNode(absent, n)
        /\ builds' = [builds EXCEPT ![b] = [live |-> @.live \ {n}, away |-> @.away \ {n}]]
        /\ UNCHANGED <<table, transition, history>>

-----------------------------------------------------------------------------
(* Discovery, requests and probes *)

\* The table becomes t; whoever is reclaimed and has no entry is forgotten.
Learn(t) ==
    /\ peers' = t
    /\ forgotten' = forgotten \cup {n \in DOMAIN peers \ DOMAIN t : peers[n].state = "reclaimed"}

\* ListenLoop: a beacon.
Beacon(n) ==
    /\ \E t \in Upsert(peers, n, [NewPeer EXCEPT !.supervisor = n \in Supervisors], "discovery") :
           Learn(t)
    /\ UNCHANGED <<copy, rings, transition, retired, crossed>>

\* A request from n: the handshake callback, and HandleRequest takes a copy of
\* the entry, if there is one.
Inbound(n) ==
    /\ copy = {}
    /\ LET t == MarkHandshakeProven(peers, n) IN
       /\ peers' = t
       /\ copy' = IF n \in DOMAIN t THEN {[id |-> n, info |-> t[n], source |-> "handshake"]} ELSE {}
    /\ UNCHANGED <<rings, transition, history>>

\* HandleRequest refreshes the entry, and HandleHeartbeat notes the report and
\* a supervisor it did not know, after which it rebuilds.
HandleHeartbeat(c, full) ==
    /\ c.source = "handshake"
    /\ full => c.id \in Limited
    /\ \E t \in Upsert(peers, c.id, [c.info EXCEPT !.age = 0], "handshake") :
          LET r == RecordReport(t, c.id, full)
              new == c.id \in Supervisors /\ c.id \in DOMAIN r /\ ~r[c.id].supervisor
              u == IF new THEN [r EXCEPT ![c.id].supervisor = TRUE] ELSE r
          IN Learn(u) /\ RebuildIf(new, u)
    /\ copy' = {}
    /\ UNCHANGED <<transition, retired>>

\* ProbePeer, answered: the handshake callback, the probe and the report on
\* the id that was probed, the real id, and a copy of the entry.
ProbeAnswered(id, full) ==
    LET n == NodeOf(id) IN
    /\ copy = {}
    /\ id \in DOMAIN peers
    /\ full => n \in Limited
    /\ \E t \in RecordProbe(MarkHandshakeProven(peers, n), id, TRUE) :
          LET u == AdoptIdentity(RecordReport(t, id, full), id, n)
              info == [u[n] EXCEPT !.age = 0,
                                   !.supervisor = @ \/ n \in Supervisors,
                                   !.state = IF @ = "degraded" THEN "running" ELSE @]
          IN /\ peers' = u
             /\ copy' = {[id |-> n, info |-> info, source |-> "probe"]}
    /\ UNCHANGED <<rings, transition, history>>

\* The copy goes back.
ProbeDone(c) ==
    /\ c.source = "probe"
    /\ \E t \in Upsert(peers, c.id, c.info, "probe") :
          Learn(t) /\ RebuildIf(c.info.supervisor, t)
    /\ copy' = {}
    /\ UNCHANGED <<transition, retired>>

\* ProbePeer, not answered: a peer that reads dead is degraded.
ProbeFails(id) ==
    /\ copy = {}
    /\ id \in DOMAIN peers
    /\ \E t \in RecordProbe(peers, id, FALSE) :
          peers' = IF Suspicion(t[id]) = "dead" THEN SetState(t, id, "degraded") ELSE t
    /\ UNCHANGED <<copy, rings, transition, history>>

-----------------------------------------------------------------------------
(* The supervisor *)

Degrade(t, ids) == [id \in DOMAIN t |-> IF id \in ids THEN SetState(t, id, "degraded")[id] ELSE t[id]]

MarkStalePeersDegraded ==
    LET marked == {id \in StalerThan(peers, StaleAge) : peers[id].state = "running"} IN
    /\ marked # {}
    /\ peers' = Degrade(peers, marked)
    /\ RebuildIf(TRUE, peers')
    /\ UNCHANGED <<copy, transition, retired, forgotten>>

EnforceQuota ==
    LET over == {id \in DOMAIN peers : peers[id].full /\ peers[id].health = "good"} IN
    /\ over # {}
    /\ peers' = Degrade(peers, over)
    /\ RebuildIf(TRUE, peers')
    /\ UNCHANGED <<copy, transition, retired, forgotten>>

\* TransitionNode, when the registry allows it: the table, and a Rebuild ...
TransitionNode(n, to, b) ==
    /\ transition = {}
    /\ peers' = SetState(peers, n, to)
    /\ forgotten' = IF to = "reclaimed" /\ n \notin DOMAIN peers THEN forgotten \cup {n} ELSE forgotten
    /\ Rebuild(b, peers')
    /\ transition' = IF to = "reclaimed" THEN {[node |-> n, in |-> b]} ELSE {}
    /\ UNCHANGED <<copy, retired>>

\* ... until that is done.
TransitionDone ==
    \E x \in transition :
        /\ builds[x.in] = Idle
        /\ transition' = {}
        /\ retired' = retired \cup {x.node}
        /\ UNCHANGED <<table, rings, forgotten, crossed>>

-----------------------------------------------------------------------------
(* The mesh *)

Tick ==
    /\ \E id \in DOMAIN peers : peers[id].age < DeadAge
    /\ peers' = [id \in DOMAIN peers |-> [peers[id] EXCEPT !.age = Min({@ + 1, DeadAge})]]
    /\ UNCHANGED <<copy, rings, transition, history>>

Next ==
    \/ \E b \in Rebuilders : RebuildPlacement(b)
    \/ \E b \in Rebuilders : AddNextNode(b)
    \/ \E n \in Nodes : Beacon(n)
    \/ \E n \in Nodes : Inbound(n)
    \/ \E c \in copy, full \in BOOLEAN : HandleHeartbeat(c, full)
    \/ \E id \in DOMAIN peers, full \in BOOLEAN : ProbeAnswered(id, full)
    \/ \E c \in copy : ProbeDone(c)
    \/ \E id \in DOMAIN peers : ProbeFails(id)
    \/ MarkStalePeersDegraded
    \/ EnforceQuota
    \/ \E n \in Managed, to \in States, b \in Rebuilders : TransitionNode(n, to, b)
    \/ TransitionDone
    \/ Tick

Spec == Init /\ [][Next]_vars

-----------------------------------------------------------------------------
(* Properties *)

\* A node whose decommissioning is done is on no ring and owed nothing: no
\* probe, request or beacon that was under way brings it back (ProbePeer,
\* HandleRequest, Upsert, Rebuild), unless the table did not have it or lost
\* it, or two Rebuilds overlapped.
ReclaimedStaysOut ==
    \A n \in retired \ forgotten : ~crossed => n \notin ring.nodes \cup absent.nodes

=============================================================================
