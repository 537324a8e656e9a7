------------------------------ MODULE HashRing ------------------------------
(***************************************************************************)
(* The consistent hash ring with virtual nodes (src/src/net/placement.cpp, *)
(* class ConsistentHashRing) as operators on its value: the nodes it has,  *)
(* and a function from occupied positions to nodes.  Hashing is the        *)
(* constant Positions.                                                     *)
(***************************************************************************)
EXTENDS Naturals, TLC

CONSTANTS
    Positions,  \* the ring positions of each node's virtual nodes
    Rank        \* the order of node ids, which settles collisions

Clear == [nodes |-> {}, slots |-> <<>>]

\* Mutant: the node that comes last takes the position.
AddNodeLast(ring, n) ==
    [nodes |-> ring.nodes \cup {n}, slots |-> [p \in Positions[n] |-> n] @@ ring.slots]

\* A position both want goes to the smaller id.
AddNode(ring, n) ==
    LET taken(p) == p \in DOMAIN ring.slots
                    /\ (p \notin Positions[n] \/ Rank[ring.slots[p]] <= Rank[n])
    IN IF n \in ring.nodes THEN ring
       ELSE [nodes |-> ring.nodes \cup {n},
             slots |-> [p \in DOMAIN ring.slots \cup Positions[n] |->
                           IF taken(p) THEN ring.slots[p] ELSE n]]

=============================================================================
