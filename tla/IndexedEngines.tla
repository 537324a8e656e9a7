--------------------------- MODULE IndexedEngines ---------------------------
(***************************************************************************)
(* A collection on one of the engines that keep an index beside their      *)
(* documents: graph_adj (module GraphAdj) its edges, vector_hnsw_lite      *)
(* (module VectorHnsw) its vectors.  Both write the index as one blob that *)
(* a manifest names.                                                       *)
(***************************************************************************)
EXTENDS Router

CONSTANT MaxWalkDepth

ASSUME IndexedAssumption == MaxWalkDepth \in Nat \ {0}

Graph == INSTANCE GraphAdj WITH kGraphMaxWalkDepth <- MaxWalkDepth
Vec == INSTANCE VectorHnsw

IndexedTargets == {"graph_adj", "vector_hnsw_lite"}

OnGraph == target = "graph_adj"

Init ==
    /\ target \in IndexedTargets
    /\ be = IF OnGraph THEN Graph!New ELSE Vec!New
    /\ RouterInit

\* An embedding that does not fit.
Accepts(d) == bound = "vector_hnsw_lite" => Vec!Fits(be, d)

\* The first critical section of Put.
Materialise(t) ==
    /\ MaterialiseAs(t, Accepts(req[t].doc), IF bound = "graph_adj" THEN "stored" ELSE "put")
    /\ be' = CASE bound = "kv" -> be
               [] bound = "graph_adj" -> Graph!PutDocument(be, req[t].key, req[t].doc)
               [] bound = "vector_hnsw_lite" -> Vec!Put(be, req[t].key, req[t].doc)

\* The edges are indexed by a second critical section.
IndexDocument(t) ==
    /\ pc = "up"
    /\ req[t].pc = "stored"
    /\ be' = Graph!IndexDocumentLocked(be, req[t].key, req[t].doc)
    /\ Continue(t, [req[t] EXCEPT !.pc = "put"])
    /\ UNCHANGED <<target, bound, kv, index, ledger, scanned, pc, todo, puts, upkeep, stops,
                   acked, raced, torn, cutoff, strands>>

\* Rebuild scans the documents and takes the lock only then.
Rebuild ==
    /\ Upkeep("graph_adj")
    /\ scanned = {}
    /\ scanned' = {Graph!Scan(be)}
    /\ raced' = raced \cup {req[t].key : t \in Busy}
    /\ UNCHANGED <<be, cutoff>>

RebuildIndexes ==
    /\ pc = "up"
    /\ \E rows \in scanned : be' = Graph!RebuildFrom(be, rows)
    /\ scanned' = {}
    /\ UNCHANGED <<target, bound, kv, index, ledger, req, pc, todo, puts, upkeep, stops, acked,
                   raced, torn, cutoff, strands>>

FlushStep ==
    FlushTo(CASE pc = "flush" -> IF OnGraph THEN Graph!FlushDocuments(be) ELSE be
              [] pc = "flush manifest" ->
                    IF OnGraph THEN Graph!FlushManifest(be) ELSE Vec!FlushManifest(be)
              [] pc = "flush store" -> IF OnGraph THEN Graph!FlushStore(be) ELSE Vec!FlushStore(be))

\* The file keeps documents whose edges are lost: those of the keys K that were
\* evicted, or all when the process ends between the two halves of a flush.
Outlives(K) ==
    \/ \E k \in K \cap DOMAIN be.docs : k \notin DOMAIN be.flushed \/ be.flushed[k] # be.docs[k]
    \/ pc = "flush manifest" /\ be.dirty

Crash ==
    IF OnGraph
    THEN \E W \in Graph!Seg!Written(be.store), K \in SUBSET Keys :
            CrashTo(Graph!Crash(be, W, K), Outlives(K))
    ELSE \E W \in Vec!Seg!Written(be.store) : CrashTo(Vec!Crash(be, W), FALSE)

Open ==
    IF OnGraph THEN OpenAs(Graph!LoadManifestOK(be), Graph!LoadManifest(be))
    ELSE OpenAs(Vec!LoadManifestOK(be), Vec!LoadManifest(be))

Replay ==
    /\ todo # <<>>
    /\ LET p == ledger[Head(todo)] IN
       IF OnGraph
       THEN ReplayPut(p, Graph!Get(be, p.key),
                      Graph!IndexDocumentLocked(Graph!PutDocument(be, p.key, p.doc), p.key, p.doc),
                      TRUE)
       ELSE ReplayPut(p, Vec!Get(be, p.key), Vec!Put(be, p.key, p.doc), Accepts(p.doc))

Next ==
    \/ RouterNext
    \/ \E t \in Threads : Materialise(t)
    \/ \E t \in Threads : IndexDocument(t)
    \/ Rebuild
    \/ RebuildIndexes
    \/ FlushStep
    \/ Crash
    \/ Open
    \/ Replay

Spec == Init /\ [][Next]_vars

-----------------------------------------------------------------------------
(* Properties *)

RowsOfIndexed ==
    IF OnGraph THEN HasLastPuts(LAMBDA k : Graph!Get(be, k), Graph!Scan(be), Accepts)
    ELSE HasLastPuts(LAMBDA k : Vec!Get(be, k), Vec!Scan(be), Accepts)

\* "every out-edge must have a matching in-edge" (graph_adj.cpp:595-598), at
\* every point, so that walks down and walks up agree; and "the adjacency maps
\* are a pure function of the documents" (graph_adj.h:18-19): unless requests
\* overlapped, or a crash kept documents whose edges it lost, the edges and the
\* classes are those the documents declare.
EdgesMatchDocuments ==
    target = "graph_adj" =>
        /\ be.in = {<<e[2], e[1], e[3]>> : e \in be.out}
        /\ \A j, k \in Keys : k \in Graph!Descendants(be, j) <=> j \in Graph!Ancestors(be, k)
        /\ (pc = "up" /\ Busy = {} /\ scanned = {} /\ raced = {} /\ ~torn) =>
              /\ be.out = UNION {{<<e[1], e[2], k>> : e \in Graph!DeriveEdges(k, be.docs[k].at)}
                                    : k \in DOMAIN be.docs}
              /\ \A k \in Keys :
                    k \in DOMAIN be.class <=> k \in DOMAIN be.docs /\ be.docs[k].at.class # ""

\* A search scores every document that has an embedding of the collection's
\* dimension, and with that embedding (Put, DecodeSnapshot).
VectorsMatchRows ==
    target = "vector_hnsw_lite" =>
        \A k \in DOMAIN be.docs :
            (be.docs[k].at # 0 /\ be.docs[k].at = be.dim) =>
                k \in DOMAIN Vec!Search(be) /\ Vec!Search(be)[k] = be.docs[k].v

=============================================================================
