---------------------------- MODULE ColumnarLite ----------------------------
(***************************************************************************)
(* The column-segmented engine, src/src/storage/engines/columnar_lite.cpp, *)
(* for one collection.  Rows gather in an open segment and are sealed into *)
(* a blob; the newest occurrence of a key wins.  A sealed segment is the   *)
(* blob ColumnarCodec makes of its rows.  The bytes of a document are the  *)
(* document, once or as a run; those of a key start alike.                 *)
(***************************************************************************)
EXTENDS Integers, Sequences, FiniteSets, SequencesExt, TLC

CONSTANTS kColumnarRowsPerSegment, kColumnarMinRunLength

Seg == INSTANCE SegmentStore
Codec == INSTANCE ColumnarCodec

KeyBytes(k) == <<0, k>>
DocBytes(d) == [i \in 1 .. 1 + (d.v % kColumnarMinRunLength) |-> d]

\* The segment of rows, in key order.
EncodeRows(rows) ==
    LET keys == SetToSortSeq(DOMAIN rows, <) IN
    Codec!EncodeSegment([i \in DOMAIN keys |-> <<KeyBytes(keys[i]), DocBytes(rows[keys[i]])>>])

Key(bytes) == bytes[2]

Docs(bytes) == {d \in ToSet(bytes) : bytes = DocBytes(d)}

\* The rows of a segment; bytes that are of no document are no row.
DecodeRows(blob) ==
    FoldLeft(LAMBDA rows, r :
                IF Docs(r[2]) = {} THEN rows
                ELSE (Key(r[1]) :> CHOOSE d \in Docs(r[2]) : TRUE) @@ rows,
             <<>>, Codec!DecodeSegment(blob))

\* The engine before anything was written: a row set is a function on keys.
New ==
    [open |-> <<>>,       \* open_rows
     segments |-> <<>>,   \* the sealed segments, newest first
     index |-> <<>>,      \* key_to_segment: a position in segments
     manifest |-> <<>>,   \* segments.json
     store |-> Seg!EmptyStore]

SaveManifest(s) == [s EXCEPT !.manifest = s.segments]

\* Mutant: the positions of the older segments are not shifted.
SealLockedKeepsPositions(s) ==
    IF s.open = <<>> THEN s
    ELSE LET st == Seg!AppendBlob(s.store, EncodeRows(s.open)) IN
         SaveManifest([s EXCEPT !.open = <<>>,
                                !.segments = <<Seg!Newest(st)>> \o @,
                                !.index = [k \in DOMAIN s.open |-> 1] @@ @,
                                !.store = st])

SealLocked(s) ==
    IF s.open = <<>> THEN s
    ELSE LET st == Seg!AppendBlob(s.store, EncodeRows(s.open)) IN
         SaveManifest([s EXCEPT !.open = <<>>,
                                !.segments = <<Seg!Newest(st)>> \o @,
                                !.index = [k \in DOMAIN s.open |-> 1]
                                             @@ [k \in DOMAIN s.index |-> s.index[k] + 1],
                                !.store = st])

Put(s, k, d) ==
    LET p == [s EXCEPT !.open = (k :> d) @@ @] IN
    IF Cardinality(DOMAIN p.open) >= kColumnarRowsPerSegment THEN SealLocked(p) ELSE p

LoadSegment(s, i) == DecodeRows(Seg!ReadBlob(s.store, s.segments[i]))

\* The document of k, or nothing: neither the key nor a segment that has it.
Get(s, k) ==
    IF k \in DOMAIN s.open THEN {s.open[k]}
    ELSE IF k \notin DOMAIN s.index THEN {}
    ELSE LET rows == LoadSegment(s, s.index[k]) IN
         IF k \in DOMAIN rows THEN {rows[k]} ELSE {}

\* The rows of the sealed segments, newest wins.
Sealed(s) ==
    FoldLeft(LAMBDA rows, id : rows @@ DecodeRows(Seg!ReadBlob(s.store, id)), <<>>, s.segments)

Scan(s) == s.open @@ Sealed(s)

Compact(s) ==
    IF Len(s.segments) < 2 THEN s
    ELSE LET rows == Sealed(s)
             st == Seg!AppendBlob(s.store, EncodeRows(rows)) IN
         SaveManifest([s EXCEPT !.segments = <<Seg!Newest(st)>>,
                                !.index = [k \in DOMAIN rows |-> 1],
                                !.store = st])

\* Flush seals and commits the manifest, and only then writes the pages.
FlushManifest(s) == SealLocked(s)

FlushStore(s) == [s EXCEPT !.store = Seg!Flush(@)]

Crash(s, W) == [New EXCEPT !.manifest = s.manifest, !.store = Seg!Crash(s.store, W)]

\* LoadManifest: an error of one segment is an error of Open.
LoadManifestOK(s) == \A i \in DOMAIN s.manifest : Seg!Decodes(s.store, s.manifest[i])

\* The first, that is the newest, segment of a key is the one indexed, by the
\* key columns alone.
LoadManifest(s) ==
    [s EXCEPT !.segments = s.manifest,
              !.index = FoldLeftDomain(
                  LAMBDA idx, i :
                      LET keys == Codec!DecodeSegmentKeys(Seg!ReadBlob(s.store, s.manifest[i]))
                      IN idx @@ [k \in {Key(b) : b \in ToSet(keys)} |-> i],
                  <<>>, s.manifest)]

=============================================================================
