------------------------------ MODULE Storage ------------------------------
(***************************************************************************)
(* A collection on any of the five engines: on one of the specialised ones,*)
(* after or without a stay on the default engine, whose rows Router takes  *)
(* as a whole; or on the default engine throughout, down to its pages and  *)
(* files (KvStore).                                                        *)
(***************************************************************************)
EXTENDS IndexedEngines

CONSTANTS
    RowsPerSegment, MinRunLength, ChunkMillis, RollupBucketMs,   \* of SegmentEngines
    KvKeys, MaxKeysPerNode, SlotsPerPage, MaxDescent, Loads,     \* of KvStore
    KvPuts, MaxEvictions, KvStops

ASSUME StorageAssumption ==
    /\ {RowsPerSegment, MinRunLength, ChunkMillis, RollupBucketMs} \subseteq Nat \ {0}
    /\ IsFiniteSet(KvKeys) /\ KvKeys \subseteq Nat \ {0}
    /\ {MaxKeysPerNode, SlotsPerPage} \subseteq Nat \ {0}
    /\ Loads \subseteq Seq(KvKeys)
    /\ {MaxDescent, MaxEvictions, KvPuts, KvStops} \subseteq Nat

VARIABLES spilled, lost   \* of KvStore

Segments == INSTANCE SegmentEngines

Kv == INSTANCE KvStore WITH Keys <- KvKeys,
                            evictions <- upkeep

others == <<target, bound, be, index, req, scanned, raced, cutoff, strands>>

KvInit ==
    /\ Kv!Init
    /\ target = "kv_bplus"
    /\ bound = "kv" /\ be = <<>> /\ index = <<>>
    /\ req = [t \in Threads |-> None]
    /\ scanned = {}
    /\ raced = {} /\ cutoff = 0 /\ strands = {}

StorageInit ==
    \/ (Init \/ Segments!Init) /\ spilled = FALSE /\ lost = FALSE
    \/ KvInit

StorageNext ==
    \/ target \in IndexedTargets /\ Next /\ UNCHANGED <<spilled, lost>>
    \/ target \in Segments!SegmentTargets /\ Segments!Next /\ UNCHANGED <<spilled, lost>>
    \/ target = "kv_bplus" /\ Kv!Next /\ UNCHANGED others

StorageSpec == StorageInit /\ [][StorageNext]_<<vars, spilled, lost>>

-----------------------------------------------------------------------------
(* Properties *)

\* Whatever was sealed, compacted, pruned, flushed, lost with the process and
\* replayed in between: the engine answers with the last PUT of a key, by Get
\* and by Scan alike (Get, Scan of the engines; ReplayLedger); and the
\* cross-engine index names that engine, "which engine ... holds this key?"
\* (router.h:142-143), when the PUT was reported as done and is not one that
\* the engine refuses on replay.
RowsAreLastPuts ==
    /\ target \in IndexedTargets => RowsOfIndexed
    /\ target \in Segments!SegmentTargets => Segments!RowsOfSegments

\* A time-range query has every row that Scan has in that range, and counts
\* each (SegmentEngines, QueriesCoverRows).
QueriesCoverRows == bound = "ts_rollup" => Segments!QueriesCoverRows

\* The default engine, for every key: the last PUT by lookup and by scan, and
\* a sound tree (KvStore, LookupsExact).
LookupsExact == target = "kv_bplus" => Kv!LookupsExact

=============================================================================
