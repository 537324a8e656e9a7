------------------------------ MODULE TsRollup ------------------------------
(***************************************************************************)
(* The time-series engine, src/src/storage/engines/ts_rollup.cpp, for one  *)
(* collection with one series of numeric points.  A document d has the     *)
(* time d.at.  Points of one chunk of time gather in the open chunk; a     *)
(* point of another chunk seals it.  A sealed chunk carries its points,    *)
(* their aggregate per bucket (here the count) and its first and last time.*)
(***************************************************************************)
EXTENDS Integers, Sequences, FiniteSets, FiniteSetsExt, SequencesExt, TLC

CONSTANTS kTsChunkMillis, kTsRollupBucketMs, kTsMaxOpenRows

Seg == INSTANCE SegmentStore

New ==
    [open |-> <<>>,         \* open_rows
     start |-> 0,           \* open_chunk_start_ms
     active |-> FALSE,      \* open_active
     chunks |-> <<>>,       \* newest first
     index |-> <<>>,        \* key_to_chunk
     manifest |-> <<>>,     \* chunks.json
     store |-> Seg!EmptyStore]

AlignDown(value, modulus) == value - (value % modulus)

ComputeRollups(rows) ==
    [b \in {AlignDown(rows[k].at, kTsRollupBucketMs) : k \in DOMAIN rows} |->
        Cardinality({k \in DOMAIN rows : AlignDown(rows[k].at, kTsRollupBucketMs) = b})]

EncodeChunk(rows) == [rollups |-> ComputeRollups(rows), rows |-> rows]

SaveManifest(s) == [s EXCEPT !.manifest = s.chunks]

\* Mutant: the last time of a chunk is taken from its first point.
ChunkMetaFirstPoint(id, s) ==
    LET times == {s.open[k].at : k \in DOMAIN s.open} IN
    [id |-> id, start |-> s.start, min |-> Min(times), max |-> Min(times)]

ChunkMeta(id, s) ==
    LET times == {s.open[k].at : k \in DOMAIN s.open} IN
    [id |-> id, start |-> s.start, min |-> Min(times), max |-> Max(times)]

SealLocked(s) ==
    IF s.open = <<>> THEN [s EXCEPT !.active = FALSE]
    ELSE LET st == Seg!AppendBlob(s.store, EncodeChunk(s.open)) IN
         SaveManifest([s EXCEPT !.open = <<>>,
                                !.active = FALSE,
                                !.chunks = <<ChunkMeta(Seg!Newest(st), s)>> \o @,
                                !.index = [k \in DOMAIN s.open |-> 1]
                                             @@ [k \in DOMAIN s.index |-> s.index[k] + 1],
                                !.store = st])

Put(s, k, d) ==
    LET start == AlignDown(d.at, kTsChunkMillis)
        room == IF s.active /\ s.start # start THEN SealLocked(s) ELSE s
        put == [room EXCEPT !.start = IF room.active THEN @ ELSE start,
                            !.active = TRUE,
                            !.open = (k :> d) @@ @] IN
    IF Cardinality(DOMAIN put.open) >= kTsMaxOpenRows THEN SealLocked(put) ELSE put

LoadChunkRows(s, c) == Seg!ReadBlob(s.store, c.id).rows

LoadChunkRollups(s, c) == Seg!ReadBlob(s.store, c.id).rollups

Get(s, k) ==
    IF k \in DOMAIN s.open THEN {s.open[k]}
    ELSE IF k \notin DOMAIN s.index THEN {}
    ELSE LET rows == LoadChunkRows(s, s.chunks[s.index[k]]) IN
         IF k \in DOMAIN rows THEN {rows[k]} ELSE {}

\* The rows of these chunks and of the open one, newest wins.
Merged(s, chunks) ==
    s.open @@ FoldLeft(LAMBDA rows, c : rows @@ LoadChunkRows(s, c), <<>>, chunks)

Scan(s) == Merged(s, s.chunks)

\* The chunks a query of [from, to] reads.
Overlapping(s, from, to) ==
    SelectSeq(s.chunks, LAMBDA c : ~(c.max < from \/ c.min > to))

RangeQuery(s, from, to) ==
    LET rows == Merged(s, Overlapping(s, from, to)) IN
    [k \in {j \in DOMAIN rows : rows[j].at \in from .. to} |-> rows[k]]

\* The count the query reports for bucket b of [from, to].
Rollups(s, from, to, b) ==
    IF b + kTsRollupBucketMs <= from \/ b > to THEN 0
    ELSE LET In(rollups) == IF b \in DOMAIN rollups THEN rollups[b] ELSE 0 IN
         FoldLeft(LAMBDA n, c : n + In(LoadChunkRollups(s, c)),
                  In(ComputeRollups(s.open)), Overlapping(s, from, to))

\* key_to_chunk of a list of chunks: the first, that is the newest, wins.
IndexOf(s, chunks) ==
    FoldLeftDomain(LAMBDA idx, i : idx @@ [k \in DOMAIN LoadChunkRows(s, chunks[i]) |-> i],
                   <<>>, chunks)

Prune(s, cutoff) ==
    LET kept == SelectSeq(s.chunks, LAMBDA c : c.max >= cutoff) IN
    IF kept = s.chunks THEN s
    ELSE SaveManifest([s EXCEPT !.chunks = kept, !.index = IndexOf(s, kept)])

FlushManifest(s) == SealLocked(s)

FlushStore(s) == [s EXCEPT !.store = Seg!Flush(@)]

Crash(s, W) == [New EXCEPT !.manifest = s.manifest, !.store = Seg!Crash(s.store, W)]

LoadManifestOK(s) == \A i \in DOMAIN s.manifest : Seg!Decodes(s.store, s.manifest[i].id)

LoadManifest(s) == [s EXCEPT !.chunks = s.manifest, !.index = IndexOf(s, s.manifest)]

=============================================================================
