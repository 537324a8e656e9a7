----------------------------- MODULE MCStorage -----------------------------
(***************************************************************************)
(* Times of two chunks, one of them with two buckets; documents that       *)
(* declare nothing, a parent, or a child and a class; embeddings of two    *)
(* sizes.  On the default engine, with two keys per node, the first load   *)
(* is one insertion away from three levels, and the second from a split of *)
(* a leaf inside the chain.                                                *)
(***************************************************************************)
EXTENDS Storage, TLC

Shape(parent, children, class) ==
    [link |-> {}, parent |-> parent, children |-> children, class |-> class]

MCReadings(e) ==
    CASE e = "columnar_lite" -> {0}
      [] e = "ts_rollup" -> 0 .. 2
      [] e = "graph_adj" -> {Shape({}, {}, ""), Shape({1}, {}, ""), Shape({}, {2}, "c")}
      [] e = "vector_hnsw_lite" -> 0 .. 2

MCWorkers(e) == IF e = "graph_adj" THEN 2 ELSE 1

MCMaxPuts(e) ==
    CASE e = "columnar_lite" -> 4
      [] e = "ts_rollup" -> 3
      [] e = "graph_adj" -> 2
      [] e = "vector_hnsw_lite" -> 3

MCMaxStops(e) == IF e = "ts_rollup" THEN 1 ELSE 2

MCLoads == {<<>>, <<1, 2, 3, 4>>, <<1, 4, 5, 2>>}

Symmetry == Permutations(Threads)

=============================================================================
