------------------------------ MODULE Document ------------------------------
(***************************************************************************)
(* The document itself: the tree of src/src/crdt/document.cpp that mirrors *)
(* a JSON value and carries a stamp at every node, how a write of plain    *)
(* JSON becomes such a tree, and how two trees are merged.                 *)
(*                                                                         *)
(* A JSON value is a record whose one field tells its kind: a scalar (null *)
(* is 0), an array or an object.  A tree has the stamp ts, whether it is a *)
(* tombstone, and likewise a scalar, the elements of an array by tag or    *)
(* the fields of an object by key.  Encode writes fields by key and        *)
(* elements by tag, so two trees have the same bytes when they are equal.  *)
(***************************************************************************)
EXTENDS Naturals, FiniteSets, FiniteSetsExt, SequencesExt, TLC

CONSTANTS
    Node,     \* nodes by number, in the order of their names
    TimeOf,   \* the clock's reading when each of them writes
    Pasts,    \* what the field was written as before, at times 1, 2, ...
    Values    \* what it may be written as

ASSUME DocumentAssumption ==
    /\ Node \subseteq Nat /\ IsFiniteSet(Node)
    /\ TimeOf \in [Node -> Nat]
    /\ \A writes \in Pasts, n \in Node : TimeOf[n] > Len(writes)

VARIABLES
    past,   \* the writes every node has
    doc,    \* the copy each node holds
    has,    \* the nodes whose writes went into it
    sent    \* by writer: the value, the copy it broadcast, the writes in that

vars == <<past, doc, has, sent>>

Null == [scalar |-> 0]

HasKind(v, kind) == kind \in DOMAIN v

\* Two values with the same shape and the same scalars.
JsonEquals(a, b) == a = b

\* A stamp is a time and the node that breaks ties.
Before(s, t) == s[1] < t[1] \/ (s[1] = t[1] /\ s[2] < t[2])

\* The i-th tag that the write stamped ts takes from the counter: the name of
\* the node comes first, and tags are ordered as their text is.
NextTag(ts, i) == <<ts[2], ts[1], i>>

TagLess(g, h) ==
    \/ g[1] < h[1]
    \/ g[1] = h[1] /\ g[2] < h[2]
    \/ g[1] = h[1] /\ g[2] = h[2] /\ g[3] < h[3]

MakeTombstone(ts) == [ts |-> ts, tombstone |-> TRUE, scalar |-> 0]

RECURSIVE FromJson(_, _)
FromJson(json, ts) ==
    IF HasKind(json, "array")
    THEN [ts |-> ts, tombstone |-> FALSE,
          elems |-> [g \in {NextTag(ts, i) : i \in DOMAIN json.array} |->
                        [value |-> FromJson(json.array[g[3]], ts), tombstone |-> FALSE]]]
    ELSE IF HasKind(json, "object")
    THEN [ts |-> ts, tombstone |-> FALSE,
          fields |-> [k \in DOMAIN json.object |-> FromJson(json.object[k], ts)]]
    ELSE [ts |-> ts, tombstone |-> FALSE, scalar |-> json.scalar]

LiveTags(v) == {g \in DOMAIN v.elems : ~v.elems[g].tombstone}

LiveFields(v) == {k \in DOMAIN v.fields : ~v.fields[k].tombstone}

\* What a reader sees, the elements of an array in the order of their tags.
RECURSIVE ToJson(_)
ToJson(v) ==
    IF v.tombstone THEN Null
    ELSE IF HasKind(v, "elems")
    THEN LET order == SetToSortSeq(LiveTags(v), TagLess) IN
         [array |-> [i \in DOMAIN order |-> ToJson(v.elems[order[i]].value)]]
    ELSE IF HasKind(v, "fields")
    THEN [object |-> [k \in LiveFields(v) |-> ToJson(v.fields[k])]]
    ELSE [scalar |-> v.scalar]

\* The live elements of v that show json.
Showing(v, json) == {g \in LiveTags(v) : JsonEquals(ToJson(v.elems[g].value), json)}

\* Every new element takes the first live element of v that shows it and that
\* no earlier one took ...
Kept(v, new) ==
    {g \in LiveTags(v) :
        LET json == ToJson(v.elems[g].value) IN
        Cardinality({h \in Showing(v, json) : h = g \/ TagLess(h, g)})
            <= Cardinality({i \in DOMAIN new : JsonEquals(new[i], json)})}

\* ... and those that find none are added.
Added(v, new) ==
    {i \in DOMAIN new :
        Cardinality({j \in 1 .. i : JsonEquals(new[j], new[i])})
            > Cardinality(Showing(v, new[i]))}

\* Mutant: elements that are gone are forgotten, not buried.
UpdateArrayForgets(v, new, ts) ==
    LET fresh == {NextTag(ts, i) : i \in Added(v, new)} IN
    [ts |-> ts, tombstone |-> FALSE,
     elems |-> [g \in Kept(v, new) \cup fresh |->
                   IF g \in fresh
                   THEN [value |-> FromJson(new[g[3]], ts), tombstone |-> FALSE]
                   ELSE v.elems[g]]]

\* ApplyJsonUpdate of an array: no tag is ever forgotten.
UpdateArray(v, new, ts) ==
    LET fresh == {NextTag(ts, i) : i \in Added(v, new)} IN
    [ts |-> ts, tombstone |-> FALSE,
     elems |-> [g \in DOMAIN v.elems \cup fresh |->
                   IF g \in fresh
                   THEN [value |-> FromJson(new[g[3]], ts), tombstone |-> FALSE]
                   ELSE IF g \in Kept(v, new) THEN v.elems[g]
                   ELSE [v.elems[g] EXCEPT !.tombstone = TRUE]]]

\* What a field of an object that the new one lacks becomes.
Dropped(v, ts) == IF v.tombstone THEN v ELSE MakeTombstone(ts)

\* A write of json over previous: what it leaves alone keeps its stamp and tags.
RECURSIVE ApplyJsonUpdate(_, _, _)
ApplyJsonUpdate(previous, json, ts) ==
    IF ~previous.tombstone /\ JsonEquals(ToJson(previous), json) THEN previous
    ELSE IF ~previous.tombstone /\ HasKind(previous, "fields") /\ HasKind(json, "object")
    THEN LET old == previous.fields
             new == json.object
         IN [ts |-> ts, tombstone |-> FALSE,
             fields |-> [k \in DOMAIN old \cup DOMAIN new |->
                            IF k \notin DOMAIN new THEN Dropped(old[k], ts)
                            ELSE IF k \in DOMAIN old THEN ApplyJsonUpdate(old[k], new[k], ts)
                            ELSE FromJson(new[k], ts)]]
    ELSE IF ~previous.tombstone /\ HasKind(previous, "elems") /\ HasKind(json, "array")
    THEN UpdateArray(previous, json.array, ts)
    ELSE FromJson(json, ts)

\* The whole value with the later stamp, a when there is none later.
Later(a, b) == IF Before(a.ts, b.ts) THEN b ELSE a

\* Mutant: the element's removal counts on one side only.
MergeElemOneSided(a, b, value) == [value |-> value, tombstone |-> b.tombstone]

\* An element that either side removed stays removed.
MergeElem(a, b, value) == [value |-> value, tombstone |-> a.tombstone \/ b.tombstone]

RECURSIVE Merge(_, _)
Merge(a, b) ==
    IF a.tombstone \/ b.tombstone THEN Later(a, b)
    ELSE IF HasKind(a, "fields") /\ HasKind(b, "fields")
    THEN [ts |-> Later(a, b).ts, tombstone |-> FALSE,
          fields |-> [k \in DOMAIN a.fields \cup DOMAIN b.fields |->
                         IF k \notin DOMAIN b.fields THEN a.fields[k]
                         ELSE IF k \notin DOMAIN a.fields THEN b.fields[k]
                         ELSE Merge(a.fields[k], b.fields[k])]]
    ELSE IF HasKind(a, "elems") /\ HasKind(b, "elems")
    THEN [ts |-> Later(a, b).ts, tombstone |-> FALSE,
          elems |-> [g \in DOMAIN a.elems \cup DOMAIN b.elems |->
                        IF g \notin DOMAIN b.elems THEN a.elems[g]
                        ELSE IF g \notin DOMAIN a.elems THEN b.elems[g]
                        ELSE MergeElem(a.elems[g], b.elems[g],
                                       Merge(a.elems[g].value, b.elems[g].value))]]
    ELSE Later(a, b)

-----------------------------------------------------------------------------
(* Nodes that write one field of a document and exchange their copies *)

Absent == [absent |-> TRUE]

\* A request writes the field as value, or leaves it out.
Gone == [gone |-> TRUE]

Body(value) == [object |-> [k \in IF value = Gone THEN {} ELSE {"field"} |-> value]]

\* PutDocument over the copy that is there, if one is.
Put(copy, value, ts) ==
    IF copy = Absent THEN FromJson(Body(value), ts)
    ELSE ApplyJsonUpdate(copy, Body(value), ts)

\* What the writes of the past made; a node of another name made them.
RECURSIVE After(_)
After(writes) ==
    IF writes = <<>> THEN Absent
    ELSE Put(After(Front(writes)), Last(writes), <<Len(writes), Max(Node) + 1>>)

Init ==
    /\ past \in Pasts
    /\ doc = [n \in Node |-> After(past)]
    /\ has = [n \in Node |-> {}]
    /\ sent = <<>>

Stamp(n) == <<TimeOf[n], n>>

\* The clock has observed whatever was merged: a new stamp is past it.
PutDocument(n, value) ==
    /\ n \notin DOMAIN sent
    /\ \A m \in has[n] : Before(Stamp(m), Stamp(n))
    /\ doc' = [doc EXCEPT ![n] = Put(@, value, Stamp(n))]
    /\ has' = [has EXCEPT ![n] = @ \cup {n}]
    /\ sent' = (n :> [value |-> value, copy |-> doc'[n], has |-> has'[n]]) @@ sent
    /\ UNCHANGED past

\* MergeRemote of a copy that has the writes of S.
MergeRemote(n, copy, S) ==
    /\ copy # Absent
    /\ doc' = [doc EXCEPT ![n] = IF @ = Absent THEN copy ELSE Merge(@, copy)]
    /\ has' = [has EXCEPT ![n] = @ \cup S]
    /\ UNCHANGED <<past, sent>>

\* A broadcast arrives, late, again or out of order.
HandleOpBroadcast(n, m) ==
    /\ m \in DOMAIN sent
    /\ MergeRemote(n, sent[m].copy, sent[m].has)

\* Gossip brings the copy a node holds.
ExchangeDocuments(n, m) == MergeRemote(n, doc[m], has[m])

Next ==
    \/ \E n \in Node, value \in Values \cup {Gone} : PutDocument(n, value)
    \/ \E n \in Node : \E m \in Node \ {n} : HandleOpBroadcast(n, m)
    \/ \E n \in Node : \E m \in Node \ {n} : ExchangeDocuments(n, m)

Spec == Init /\ [][Next]_vars

-----------------------------------------------------------------------------
(* Properties *)

\* How often value is in array json, 0 when it is no array.
Count(json, value) ==
    IF HasKind(json, "array")
    THEN Cardinality({i \in DOMAIN json.array : json.array[i] = value}) ELSE 0

\* Json with its arrays as bags.
RECURSIVE Unordered(_)
Unordered(json) ==
    IF HasKind(json, "array")
    THEN [bag |-> {<<v, Count(json, v)>> : v \in ToSet(json.array)}]
    ELSE IF HasKind(json, "object")
    THEN [object |-> [k \in DOMAIN json.object |-> Unordered(json.object[k])]]
    ELSE json

Field(json, k) ==
    IF HasKind(json, "object") /\ k \in DOMAIN json.object THEN json.object[k] ELSE Gone

\* How often value is in what concurrent writes x and y made of array base: the
\* elements both kept, and what each added.
Copies(base, x, y, value) ==
    LET n == Count(base, value)
        beyond(m) == IF m > n THEN m - n ELSE 0
    IN Min({n, Count(x, value), Count(y, value)})
       + beyond(Count(x, value)) + beyond(Count(y, value))

\* The result of concurrent writes x and, later, y over base, by what each of
\* them changed: a change on one side stands, objects and arrays combine, and
\* otherwise the later write wins.
RECURSIVE ThreeWay(_, _, _)
ThreeWay(base, x, y) ==
    IF x = base THEN Unordered(y)
    ELSE IF y = base THEN Unordered(x)
    ELSE IF HasKind(x, "object") /\ HasKind(y, "object")
    THEN LET result == [k \in DOMAIN x.object \cup DOMAIN y.object |->
                           ThreeWay(Field(base, k), Field(x, k), Field(y, k))]
         IN [object |-> [k \in {i \in DOMAIN result : result[i] # Gone} |-> result[k]]]
    ELSE IF HasKind(x, "array") /\ HasKind(y, "array")
    THEN [bag |-> {<<v, Copies(base, x, y, v)>> :
                      v \in {u \in ToSet(x.array) \cup ToSet(y.array) :
                                Copies(base, x, y, u) > 0}}]
    ELSE Unordered(y)

\* Two writes made at the same time combine to the three-way merge of what each
\* of them changed, on every node that has both: a field that a write left
\* alone never wins, an element added survives the removal of others, and one
\* that was removed stays away (ApplyJsonUpdate, Merge; document.h:70-78).
MergeIsThreeWay ==
    \A n, x, y \in Node :
        (/\ has[n] = {x, y} /\ Before(Stamp(x), Stamp(y))
         /\ sent[x].has = {x} /\ sent[y].has = {y}) =>
            LET base == IF After(past) = Absent THEN Gone ELSE ToJson(After(past)) IN
            Unordered(ToJson(doc[n])) = ThreeWay(base, Body(sent[x].value), Body(sent[y].value))

\* No field is an object or an array in one of the trees and something else,
\* or deleted, in another.
Container(v) == ~v.tombstone /\ ~HasKind(v, "scalar")

Shape(v) == IF ~Container(v) THEN "leaf" ELSE IF HasKind(v, "elems") THEN "elems" ELSE "fields"

RECURSIVE SameShape(_)
SameShape(trees) ==
    /\ Cardinality({Shape(v) : v \in trees}) <= 1
    /\ (\A v \in trees : Shape(v) = "fields") =>
          \A k \in UNION {DOMAIN v.fields : v \in trees} :
              SameShape({v.fields[k] : v \in {u \in trees : k \in DOMAIN u.fields}})

\* "two peers that have seen the same set of writes always converge to the
\* exact same document regardless of what order they received them in"
\* (document.h:22-24): to the same bytes, as long as no writer turned an object
\* or array into something else or deleted it.  When one did the copies may
\* differ, and one more exchange makes them the same for good.
SameWritesSameCopy ==
    \A m, n \in Node :
        (has[m] = has[n] /\ doc[m] # doc[n]) =>
            /\ ~SameShape({sent[i].copy : i \in DOMAIN sent})
            /\ LET both == Merge(doc[m], doc[n]) IN
               /\ both = Merge(doc[n], doc[m])
               /\ both = Merge(both, doc[m]) /\ both = Merge(both, doc[n])

=============================================================================
