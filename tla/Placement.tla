----------------------------- MODULE Placement ------------------------------
(***************************************************************************)
(* Replica placement (src/src/net/placement.cpp, class PlacementPolicy):   *)
(* what Place answers from the rings that Membership keeps.                *)
(***************************************************************************)
EXTENDS Membership, Sequences, SequencesExt

CONSTANTS
    KeyPositions,  \* the positions keys hash to
    ReplicationFactor

\* The positions of all virtual nodes, in the order of the ring's map.
Circle == SetToSortSeq(UNION {Positions[n] : n \in Nodes \cup {Self}}, <)

\* Replicas: the distinct nodes met from the key's position on, wrapping.
Replicas(r, key, count) ==
    LET ahead == SelectSeq(Circle, LAMBDA p : p \in DOMAIN r.slots /\ p >= key)
        behind == SelectSeq(Circle, LAMBDA p : p \in DOMAIN r.slots /\ p < key)
        distinct == FoldLeft(LAMBDA s, p : IF r.slots[p] \in ToSet(s) THEN s
                                           ELSE Append(s, r.slots[p]),
                             <<>>, ahead \o behind)
    IN SubSeq(distinct, 1, Min({count, Len(distinct)}))

\* Place: the replicas among the live nodes, and the nodes that would be
\* replicas if everyone were up.
Place(key) ==
    LET replicas == Replicas(ring, key, ReplicationFactor)
        owners == Replicas(absent, key, ReplicationFactor)
    IN [replicas |-> replicas,
        displaced |-> IF Cardinality(absent.nodes) > Cardinality(ring.nodes)
                      THEN ToSet(owners) \ ToSet(replicas) ELSE {}]

-----------------------------------------------------------------------------
(* Properties *)

\* The nodes of S by the clockwise distance from key to the first position
\* that no smaller id of S wants too.
Nearest(S, key, n) ==
    LET span == 1 + Max(UNION {Positions[m] : m \in DOMAIN Positions} \cup KeyPositions)
        won == {p \in Positions[n] : \A m \in S : p \in Positions[m] => Rank[n] <= Rank[m]}
    IN Min({(p + span - key) % span : p \in won} \cup {span})

IdealOwners ==
    [S \in SUBSET (Nodes \cup {Self}), key \in KeyPositions |->
        {n \in S : Cardinality({m \in S : Nearest(S, key, m) < Nearest(S, key, n)})
                      < ReplicationFactor}]

\* Whatever the order in which members came and Rebuilds ran, a key goes to
\* the nodes next on the circle among those alive, and whoever would be one of
\* them and is away is owed the bytes, unless Rebuilds overlapped, which leaves
\* two rings that need not match (AddNode, Replicas, Rebuild, Place).
PlanIsExact ==
    (\A b \in Rebuilders : builds[b] = Idle) =>
        \A key \in KeyPositions :
            LET plan == Place(key) IN
            /\ ToSet(plan.replicas) = IdealOwners[ring.nodes, key]
            /\ crossed \/ IdealOwners[absent.nodes, key] \subseteq ToSet(plan.replicas) \cup plan.displaced

=============================================================================
