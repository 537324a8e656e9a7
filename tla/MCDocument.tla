----------------------------- MODULE MCDocument -----------------------------
(***************************************************************************)
(* Three nodes write at the same time, two of them in the same tick of     *)
(* their clocks, over a document that was never written, or that holds an  *)
(* array, an object, or what removals left.                                *)
(***************************************************************************)
EXTENDS Document

Scalar(x) == [scalar |-> x]
Array(s) == [array |-> [i \in DOMAIN s |-> Scalar(s[i])]]
Object(f) == [object |-> [k \in DOMAIN f |-> Scalar(f[k])]]

MCTimeOf == <<4, 3, 4>>

MCPasts ==
    {<<>>, <<Array(<<1>>)>>, <<Array(<<1, 2>>), Array(<<2>>)>>,
     <<Object([r |-> 1])>>, <<Object([r |-> 1, s |-> 1]), Object([s |-> 1])>>}

MCValues ==
    {Scalar(1), Array(<<1, 1>>), Array(<<2>>), Object([r |-> 1]), Object([r |-> 2, s |-> 1])}

=============================================================================
