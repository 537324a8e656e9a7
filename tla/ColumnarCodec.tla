--------------------------- MODULE ColumnarCodec ----------------------------
(***************************************************************************)
(* The column codec of src/src/storage/engines/columnar_lite.cpp: sorted   *)
(* rows, pairs of a key and a document, to a segment of three columns and  *)
(* back.  Keys and documents are sequences of bytes, a byte is any value.  *)
(* Keys are front coded, lengths are zigzag coded differences, the         *)
(* documents are run-length coded as one string.  Numbers of a column are  *)
(* numbers (no varints); a block of the payload is a run or a literal.     *)
(***************************************************************************)
EXTENDS Integers, Sequences, FiniteSetsExt, SequencesExt

CONSTANT kColumnarMinRunLength

-----------------------------------------------------------------------------
(* Columns *)

ZigZag(v) == IF v >= 0 THEN 2 * v ELSE -2 * v - 1

UnZigZag(u) == IF u % 2 = 0 THEN u \div 2 ELSE -((u + 1) \div 2)

SharedPrefix(a, b) ==
    Max({i \in 0 .. Min({Len(a), Len(b)}) : SubSeq(a, 1, i) = SubSeq(b, 1, i)})

\* What came before place i of a column, at first the empty key or length 0.
Before(column, i, first) == IF i = 1 THEN first ELSE column[i - 1]

EncodeKeyColumn(keys) ==
    [i \in DOMAIN keys |->
        LET shared == SharedPrefix(Before(keys, i, <<>>), keys[i]) IN
        [shared |-> shared, suffix |-> SubSeq(keys[i], shared + 1, Len(keys[i]))]]

DecodeKeyColumn(column) ==
    FoldLeft(LAMBDA keys, c :
                Append(keys, SubSeq(Before(keys, Len(keys) + 1, <<>>), 1, c.shared) \o c.suffix),
             <<>>, column)

EncodeLengths(lens) == [i \in DOMAIN lens |-> ZigZag(lens[i] - Before(lens, i, 0))]

DecodeLengths(column) ==
    FoldLeft(LAMBDA lens, u : Append(lens, Before(lens, Len(lens) + 1, 0) + UnZigZag(u)),
             <<>>, column)

-----------------------------------------------------------------------------
(* The payload *)

\* s as a sequence of its longest runs.
Runs(s) ==
    FoldLeft(LAMBDA runs, b :
                IF runs # <<>> /\ Last(runs)[1] = b
                THEN Append(Front(runs), Append(Last(runs), b))
                ELSE Append(runs, <<b>>),
             <<>>, s)

\* Short runs that follow each other are one literal block.
RleEncode(s) ==
    FoldLeft(LAMBDA blocks, r :
                IF Len(r) >= kColumnarMinRunLength
                THEN Append(blocks, [count |-> Len(r), run |-> TRUE, bytes |-> <<r[1]>>])
                ELSE IF blocks # <<>> /\ ~Last(blocks).run
                THEN Append(Front(blocks), [count |-> Last(blocks).count + Len(r), run |-> FALSE,
                                            bytes |-> Last(blocks).bytes \o r])
                ELSE Append(blocks, [count |-> Len(r), run |-> FALSE, bytes |-> r]),
             <<>>, Runs(s))

RleDecode(blocks) ==
    FoldLeft(LAMBDA s, b : s \o IF b.run THEN [i \in 1 .. b.count |-> b.bytes[1]] ELSE b.bytes,
             <<>>, blocks)

-----------------------------------------------------------------------------
(* Segments *)

EncodeSegment(rows) ==
    [keys |-> EncodeKeyColumn([i \in DOMAIN rows |-> rows[i][1]]),
     lens |-> EncodeLengths([i \in DOMAIN rows |-> Len(rows[i][2])]),
     payload |-> RleEncode(FlattenSeq([i \in DOMAIN rows |-> rows[i][2]]))]

DecodeSegmentKeys(blob) == DecodeKeyColumn(blob.keys)

DecodeSegment(blob) ==
    LET keys == DecodeKeyColumn(blob.keys)
        lens == DecodeLengths(blob.lens)
        payload == RleDecode(blob.payload)
        ends == FoldLeft(LAMBDA e, n : Append(e, Before(e, Len(e) + 1, 0) + n), <<>>, lens)
    IN [i \in DOMAIN keys |-> <<keys[i], SubSeq(payload, ends[i] - lens[i] + 1, ends[i])>>]

=============================================================================
