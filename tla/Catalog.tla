------------------------------ MODULE Catalog -------------------------------
(***************************************************************************)
(* The catalog of a node (src/src/storage/catalog.cpp) as operators on its *)
(* value, a function from the collections the node knows to their access   *)
(* control list and its version.  The other metadata of a collection       *)
(* (schema, placement, retention) is left out; the engine binding is in    *)
(* Engines.                                                                *)
(***************************************************************************)
EXTENDS Naturals

CONSTANTS
    Nodes, Collections,
    None,                 \* the empty owner, the empty parent
    kMaxAclParentDepth

ASSUME CatalogAssumption ==
    /\ None \notin Nodes \cup Collections
    /\ kMaxAclParentDepth \in Nat \ {0}

Acl == [owner : Nodes \cup {None}, private : BOOLEAN, readers : SUBSET Nodes,
        parent : Collections \cup {None}]

IsCatalog(cat) ==
    /\ DOMAIN cat \subseteq Collections
    /\ \A c \in DOMAIN cat : cat[c] \in [acl : Acl, ms : Nat]

\* A collection with no ACL is public.
Public == [owner |-> None, private |-> FALSE, readers |-> {}, parent |-> None]

\* Private, and its owner is no node.
Denied == [Public EXCEPT !.private = TRUE]

EnsureCollection(cat, c) ==
    [x \in DOMAIN cat \cup {c} |-> IF x \in DOMAIN cat THEN cat[x] ELSE [acl |-> Public, ms |-> 0]]

\* The conditions of SetAclAt: the version never moves backwards.
Accepts(cat, c, acl, ms) == acl.parent # c /\ ms >= cat[c].ms

\* Mutant: whatever comes last is taken.
SetAclAtLast(cat, c, acl, ms) ==
    IF acl.parent = c THEN cat ELSE [cat EXCEPT ![c] = [acl |-> acl, ms |-> ms]]

SetAclAt(cat, c, acl, ms) ==
    IF Accepts(cat, c, acl, ms) THEN [cat EXCEPT ![c] = [acl |-> acl, ms |-> ms]] ELSE cat

AssertsOwn(acl) == acl.private \/ acl.owner # None \/ acl.readers # {}

\* EffectiveAcl: the nearest collection up the parent links that asserts
\* something or has no parent; past the depth limit, nobody is allowed.
EffectiveAcl(cat, c) ==
    LET Walk[x \in Collections, d \in 0 .. kMaxAclParentDepth] ==
          IF d = 0 THEN Denied
          ELSE IF x \notin DOMAIN cat THEN Public
          ELSE IF cat[x].acl.parent = None \/ AssertsOwn(cat[x].acl) THEN cat[x].acl
          ELSE Walk[cat[x].acl.parent, d - 1]
    IN Walk[c, kMaxAclParentDepth]

CanWrite(cat, c, n) ==
    LET acl == EffectiveAcl(cat, c) IN ~acl.private \/ n = acl.owner

=============================================================================
