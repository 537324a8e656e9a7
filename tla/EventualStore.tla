---------------------------- MODULE EventualStore ----------------------------
(***************************************************************************)
(* What replication promises, with no word about how: every node has a     *)
(* view of the documents, a local write shows at once in the writer's      *)
(* view, and a view otherwise changes only by learning writes that some    *)
(* node really made and that are newer than what it showed.                *)
(***************************************************************************)
EXTENDS Naturals

CONSTANTS
    Node, Keys, Fields,
    Stamps  \* positive numbers, one for each write

VARIABLES
    written,  \* written[k][f]: the stamps of all writes to field f of k
    view      \* view[n][k][f]: the stamp of the write n shows, 0 if none

vars == <<written, view>>

Init ==
    /\ written = [k \in Keys |-> [f \in Fields |-> {}]]
    /\ view = [n \in Node |-> [k \in Keys |-> [f \in Fields |-> 0]]]

Write(n, k, f, s) ==
    /\ \A g \in Fields : view[n][k][g] < s
    /\ s \notin written[k][f]
    /\ written' = [written EXCEPT ![k][f] = @ \cup {s}]
    /\ view' = [view EXCEPT ![n][k][f] = s]

Learn(n) ==
    /\ \E v \in [Keys -> [Fields -> Stamps \cup {0}]] :
          /\ view' = [view EXCEPT ![n] = v]
          /\ \A k \in Keys, f \in Fields :
                \/ v[k][f] = view[n][k][f]
                \/ v[k][f] > view[n][k][f] /\ v[k][f] \in written[k][f]
    /\ UNCHANGED written

Next ==
    \E n \in Node :
        \/ \E k \in Keys, f \in Fields, s \in Stamps : Write(n, k, f, s)
        \/ Learn(n)

Spec == Init /\ [][Next]_vars

=============================================================================
