-------------------------- MODULE MCAccessControl --------------------------
(* Two nodes, the wall clock of the second one ahead; a collection and its  *)
(* parent, whose catalog.json may have been edited into a cycle.            *)
EXTENDS AccessControl, TLC

CONSTANTS n1, n2, c1, c2

MCAhead == (n1 :> 0) @@ (n2 :> 1)
MCApiAcls == [owner : Nodes, private : {TRUE}, readers : {{}}, parent : {None}]
ChildOf(p) == [acl |-> [Public EXCEPT !.parent = p], ms |-> 0]
MCHandEdited == {<<>>, (c1 :> ChildOf(c2)) @@ (c2 :> ChildOf(c1))}

=============================================================================
