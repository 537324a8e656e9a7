--------------------------- MODULE SegmentEngines ---------------------------
(***************************************************************************)
(* A collection on one of the engines that gather rows and seal them into  *)
(* blobs: columnar_lite (module ColumnarLite) and ts_rollup (module        *)
(* TsRollup).                                                              *)
(***************************************************************************)
EXTENDS Router, FiniteSetsExt

CONSTANTS RowsPerSegment, MinRunLength, ChunkMillis, RollupBucketMs

Col == INSTANCE ColumnarLite WITH kColumnarRowsPerSegment <- RowsPerSegment,
                                  kColumnarMinRunLength <- MinRunLength
Ts == INSTANCE TsRollup WITH kTsChunkMillis <- ChunkMillis,
                             kTsRollupBucketMs <- RollupBucketMs,
                             kTsMaxOpenRows <- RowsPerSegment

SegmentTargets == {"columnar_lite", "ts_rollup"}

OnColumns == target = "columnar_lite"

Init ==
    /\ target \in SegmentTargets
    /\ be = IF OnColumns THEN Col!New ELSE Ts!New
    /\ RouterInit

Put(k, d) == IF OnColumns THEN Col!Put(be, k, d) ELSE Ts!Put(be, k, d)

Get(k) == IF OnColumns THEN Col!Get(be, k) ELSE Ts!Get(be, k)

Materialise(t) ==
    /\ MaterialiseAs(t, TRUE, "put")
    /\ be' = IF bound = "kv" THEN be ELSE Put(req[t].key, req[t].doc)

SealOpenSegment ==
    /\ Upkeep("columnar_lite")
    /\ be' = Col!SealLocked(be)
    /\ UNCHANGED <<scanned, raced, cutoff>>

Compact ==
    /\ Upkeep("columnar_lite")
    /\ be' = Col!Compact(be)
    /\ UNCHANGED <<scanned, raced, cutoff>>

SealOpenChunk ==
    /\ Upkeep("ts_rollup")
    /\ be' = Ts!SealLocked(be)
    /\ UNCHANGED <<scanned, raced, cutoff>>

ApplyRetention(c) ==
    /\ Upkeep("ts_rollup")
    /\ be' = Ts!Prune(be, c)
    /\ cutoff' = Max({cutoff, c})
    /\ UNCHANGED <<scanned, raced>>

FlushStep ==
    FlushTo(CASE pc = "flush" -> be
              [] pc = "flush manifest" ->
                    IF OnColumns THEN Col!FlushManifest(be) ELSE Ts!FlushManifest(be)
              [] pc = "flush store" -> IF OnColumns THEN Col!FlushStore(be) ELSE Ts!FlushStore(be))

Crash ==
    \E W \in Col!Seg!Written(be.store) :
        CrashTo(IF OnColumns THEN Col!Crash(be, W) ELSE Ts!Crash(be, W), FALSE)

Open ==
    IF OnColumns THEN OpenAs(Col!LoadManifestOK(be), Col!LoadManifest(be))
    ELSE OpenAs(Ts!LoadManifestOK(be), Ts!LoadManifest(be))

Replay ==
    /\ todo # <<>>
    /\ LET p == ledger[Head(todo)] IN ReplayPut(p, Get(p.key), Put(p.key, p.doc), TRUE)

Next ==
    \/ RouterNext
    \/ \E t \in Threads : Materialise(t)
    \/ SealOpenSegment
    \/ Compact
    \/ SealOpenChunk
    \/ \E c \in Readings("ts_rollup") \ {0} : ApplyRetention(c)
    \/ FlushStep
    \/ Crash
    \/ Open
    \/ Replay

-----------------------------------------------------------------------------
(* Properties *)

RowsOfSegments ==
    HasLastPuts(Get, IF OnColumns THEN Col!Scan(be) ELSE Ts!Scan(be), LAMBDA d : TRUE)

\* A time-range query has every row that Scan has in that range, and counts
\* each; when no key is in two chunks it has and counts nothing else
\* (RangeQuery, Rollups: chunks are skipped by their first and last time).
QueriesCoverRows ==
    (bound = "ts_rollup" /\ pc = "up") =>
        LET rows == Ts!Scan(be)
            times == Readings("ts_rollup")
            sets == [i \in DOMAIN be.chunks |-> DOMAIN Ts!LoadChunkRows(be, be.chunks[i])]
            once == /\ \A i, j \in DOMAIN sets : i # j => sets[i] \cap sets[j] = {}
                    /\ \A i \in DOMAIN sets : sets[i] \cap DOMAIN be.open = {} IN
        \A from \in times : \A to \in {t \in times : t >= from} :
            LET hits == Ts!RangeQuery(be, from, to) IN
            /\ \A k \in DOMAIN rows : rows[k].at \in from .. to =>
                  k \in DOMAIN hits /\ hits[k] = rows[k]
            /\ once => \A k \in DOMAIN hits : hits[k] = rows[k]
            /\ \A b \in from .. to :
                  LET n == Cardinality({k \in DOMAIN rows : Ts!AlignDown(rows[k].at, RollupBucketMs) = b}) IN
                  b % RollupBucketMs = 0 =>
                      /\ Ts!Rollups(be, from, to, b) >= n
                      /\ once => Ts!Rollups(be, from, to, b) = n

=============================================================================
