------------------------------ MODULE GraphAdj ------------------------------
(***************************************************************************)
(* The graph engine, src/src/storage/engines/graph_adj.cpp, for one        *)
(* collection.  The documents are in an embedded kv engine; the edges they *)
(* declare are kept beside it in memory, in both directions, and are       *)
(* written as a blob by Flush.  A document d declares d.at: a `parent`,    *)
(* its `children` or `edges`, a standalone link, and a class.  Labels are  *)
(* left out.  Of the kv engine there is what a crash can keep of it: for   *)
(* each key the document flushed last or one written since.                *)
(***************************************************************************)
EXTENDS Naturals, Sequences, FiniteSets

CONSTANT kGraphMaxWalkDepth

Seg == INSTANCE SegmentStore

With(f, k, v) == [x \in DOMAIN f \cup {k} |-> IF x = k THEN v ELSE f[x]]

New ==
    [docs |-> <<>>, flushed |-> <<>>,   \* docs_: its rows, and those of its last flush
     out |-> {},        \* out_edges: <<from, to, owner>>
     in |-> {},         \* in_edges: <<to, from, owner>>
     declared |-> {},   \* <<owner, from, to>>
     nodes |-> {},      \* the keys of out_edges
     class |-> <<>>,    \* key_class; class_members is its inverse
     dirty |-> FALSE,
     snapshot |-> 0,    \* snapshot_page_id, 0 for none
     manifest |-> 0,    \* graph.json
     store |-> Seg!EmptyStore]

\* The pairs add_edge is called with for document at of key k.
DeriveEdges(k, at) ==
    at.link \cup {<<p, k>> : p \in at.parent} \cup {<<k, c>> : c \in at.children}

\* Mutant: the reverse edges stay.
UnindexDocumentForward(s, k) ==
    LET mine == {<<e[2], e[3]>> : e \in {x \in s.declared : x[1] = k}} IN
    [s EXCEPT !.out = @ \ {<<e[1], e[2], k>> : e \in mine},
              !.declared = {x \in @ : x[1] # k},
              !.class = [j \in DOMAIN @ \ {k} |-> s.class[j]]]

\* Only the edges this document declared go; a node, once seen, stays.
UnindexDocumentLocked(s, k) ==
    LET mine == {<<e[2], e[3]>> : e \in {x \in s.declared : x[1] = k}} IN
    [s EXCEPT !.out = @ \ {<<e[1], e[2], k>> : e \in mine},
              !.in = @ \ {<<e[2], e[1], k>> : e \in mine},
              !.declared = {x \in @ : x[1] # k},
              !.class = [j \in DOMAIN @ \ {k} |-> s.class[j]]]

IndexDocumentLocked(s, k, d) ==
    LET u == UnindexDocumentLocked(s, k)
        pairs == DeriveEdges(k, d.at) IN
    [u EXCEPT !.out = @ \cup {<<e[1], e[2], k>> : e \in pairs},
              !.in = @ \cup {<<e[2], e[1], k>> : e \in pairs},
              !.declared = @ \cup {<<k, e[1], e[2]>> : e \in pairs},
              !.nodes = @ \cup {k} \cup UNION {{e[1], e[2]} : e \in pairs},
              !.class = IF d.at.class = "" THEN @ ELSE With(@, k, d.at.class),
              !.dirty = TRUE]

\* Put, first half: the embedded engine has the document.
PutDocument(s, k, d) == [s EXCEPT !.docs = With(@, k, d)]

Get(s, k) == IF k \in DOMAIN s.docs THEN {s.docs[k]} ELSE {}

Scan(s) == s.docs

\* What a walk along these edges meets: cycles end at what was seen before.
Walk(edges, root) ==
    LET seen[n \in 0 .. kGraphMaxWalkDepth] ==
            IF n = 0 THEN {root}
            ELSE seen[n - 1] \cup {e[2] : e \in {x \in edges : x[1] \in seen[n - 1]}} IN
    seen[kGraphMaxWalkDepth] \ {root}

Descendants(s, root) == Walk(s.out, root)

Ancestors(s, node) == Walk(s.in, node)

Roots(s) == {k \in s.nodes : \A e \in s.in : e[1] # k}

\* The table of a class: its members that have a document, each with its
\* parents and the number of its children.
ObjectView(s, class) ==
    [k \in {j \in DOMAIN s.class : s.class[j] = class /\ j \in DOMAIN s.docs} |->
        [parents |-> {e[2] : e \in {x \in s.in : x[1] = k}},
         children |-> Cardinality({e[2] : e \in {x \in s.out : x[1] = k}})]]

\* Rebuild, once it has scanned these rows: each is indexed, from nothing on.
RebuildFrom(s, rows) ==
    LET pairs == UNION {{<<k, e[1], e[2]>> : e \in DeriveEdges(k, rows[k].at)} : k \in DOMAIN rows}
    IN [s EXCEPT !.out = {<<e[2], e[3], e[1]>> : e \in pairs},
                 !.in = {<<e[3], e[2], e[1]>> : e \in pairs},
                 !.declared = pairs,
                 !.nodes = DOMAIN rows \cup UNION {{e[2], e[3]} : e \in pairs},
                 !.class = [k \in {j \in DOMAIN rows : rows[j].at.class # ""} |-> rows[k].at.class],
                 !.dirty = TRUE]

\* EncodeAdjacency keeps the nodes with their out-edges, and the classes.
EncodeAdjacency(s) == [out |-> s.out, nodes |-> s.nodes, class |-> s.class]

\* The reverse edges and what each document declared come from the out-edges.
DecodeAdjacency(s, blob) ==
    [s EXCEPT !.out = blob.out,
              !.in = {<<e[2], e[1], e[3]>> : e \in blob.out},
              !.declared = {<<e[3], e[1], e[2]>> : e \in blob.out},
              !.nodes = blob.nodes,
              !.class = blob.class]

FlushDocuments(s) == [s EXCEPT !.flushed = s.docs]

SnapshotLocked(s) ==
    IF ~s.dirty THEN s
    ELSE LET st == Seg!AppendBlob(s.store, EncodeAdjacency(s)) IN
         [s EXCEPT !.snapshot = Seg!Newest(st), !.dirty = FALSE, !.store = st]

\* Snapshots, and the manifest that names them.
FlushManifest(s) ==
    LET snap == SnapshotLocked(s) IN [snap EXCEPT !.manifest = snap.snapshot]

FlushStore(s) == [s EXCEPT !.store = Seg!Flush(@)]

\* The file has the blobs W and, of the keys K, the documents written since
\* the last flush.
Crash(s, W, K) ==
    LET evicted == DOMAIN s.docs \cap K
        docs == [k \in evicted \cup DOMAIN s.flushed |->
                    IF k \in evicted THEN s.docs[k] ELSE s.flushed[k]] IN
    [New EXCEPT !.docs = docs, !.flushed = docs,
                !.manifest = s.manifest, !.store = Seg!Crash(s.store, W)]

LoadManifestOK(s) == s.manifest # 0 => Seg!Decodes(s.store, s.manifest)

LoadManifest(s) ==
    IF s.manifest = 0 THEN s
    ELSE DecodeAdjacency([s EXCEPT !.snapshot = s.manifest], Seg!ReadBlob(s.store, s.manifest))

=============================================================================
