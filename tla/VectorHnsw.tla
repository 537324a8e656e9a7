----------------------------- MODULE VectorHnsw -----------------------------
(***************************************************************************)
(* The vector engine, src/src/storage/engines/vector_hnsw_lite.cpp, for    *)
(* one collection.  A document d has an embedding of d.at components, none *)
(* when d.at is 0; the embedding itself is that of version d.v.  Search is *)
(* the exhaustive one below kHnswFlatThreshold rows: which nodes it scores,*)
(* and with which vector.  The neighbour graph, which only larger          *)
(* collections consult, and quantization are left out.                     *)
(***************************************************************************)
EXTENDS Naturals, Sequences

Seg == INSTANCE SegmentStore

With(f, k, v) == [x \in DOMAIN f \cup {k} |-> IF x = k THEN v ELSE f[x]]

New ==
    [docs |-> <<>>,
     nodes |-> <<>>,    \* key_to_node and the node's vector: the version it is of
     dim |-> 0,
     dirty |-> FALSE,
     snapshot |-> 0,    \* snapshot_page_id, 0 for none
     manifest |-> 0,    \* index.json
     store |-> Seg!EmptyStore]

\* Put succeeds: no embedding, or one of the collection's dimension.
Fits(s, d) == d.at = 0 \/ s.dim \in {0, d.at}

\* Mutant: an update leaves the vector that is there.
PutKeepsVector(s, k, d) ==
    LET stored == [s EXCEPT !.docs = With(@, k, d), !.dirty = TRUE] IN
    IF d.at = 0 \/ ~Fits(s, d) THEN stored
    ELSE [stored EXCEPT !.dim = d.at, !.nodes = IF k \in DOMAIN @ THEN @ ELSE With(@, k, d.v)]

\* The document is stored before its embedding is looked at, also when the
\* embedding is then refused.
Put(s, k, d) ==
    LET stored == [s EXCEPT !.docs = With(@, k, d), !.dirty = TRUE] IN
    IF d.at = 0 \/ ~Fits(s, d) THEN stored
    ELSE [stored EXCEPT !.dim = d.at, !.nodes = With(@, k, d.v)]

Get(s, k) == IF k \in DOMAIN s.docs THEN {s.docs[k]} ELSE {}

Scan(s) == s.docs

\* The hits of a query, each with the version its vector is of.
Search(s) == s.nodes

SnapshotLocked(s) ==
    IF ~s.dirty THEN s
    ELSE LET st == Seg!AppendBlob(s.store, [docs |-> s.docs, nodes |-> s.nodes, dim |-> s.dim]) IN
         [s EXCEPT !.snapshot = Seg!Newest(st), !.dirty = FALSE, !.store = st]

FlushManifest(s) ==
    LET snap == SnapshotLocked(s) IN [snap EXCEPT !.manifest = snap.snapshot]

FlushStore(s) == [s EXCEPT !.store = Seg!Flush(@)]

Crash(s, W) == [New EXCEPT !.manifest = s.manifest, !.store = Seg!Crash(s.store, W)]

LoadManifestOK(s) == s.manifest # 0 => Seg!Decodes(s.store, s.manifest)

LoadManifest(s) ==
    IF s.manifest = 0 THEN s
    ELSE LET blob == Seg!ReadBlob(s.store, s.manifest) IN
         [s EXCEPT !.docs = blob.docs, !.nodes = blob.nodes, !.dim = blob.dim,
                   !.snapshot = s.manifest]

=============================================================================
