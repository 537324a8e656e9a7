---------------------------- MODULE SegmentStore ----------------------------
(***************************************************************************)
(* The blob file under every engine but kv: src/src/storage/               *)
(* segment_store.cpp.  A blob is a chain of pages that is written once and *)
(* named by its first page; here blobs are numbered in the order of their  *)
(* append.  AppendBlob only dirties frames of the buffer pool: the file    *)
(* has a page once the pool evicts it or once Flush returns.               *)
(***************************************************************************)
EXTENDS Naturals, Sequences

\* A chain that lacks a page.  ReadBlob ends it at the first zero page and
\* returns what came before; every decoder refuses the short blob.
Hole == [whole |-> FALSE]

EmptyStore == [blobs |-> <<>>, clean |-> {}]

AppendBlob(st, body) == [st EXCEPT !.blobs = Append(@, [whole |-> TRUE, body |-> body])]

\* The blob appended last.
Newest(st) == Len(st.blobs)

\* The blob decodes: every page of it is in the pool or in the file.
Decodes(st, id) == id \in DOMAIN st.blobs /\ st.blobs[id].whole

ReadBlob(st, id) == st.blobs[id].body

Flush(st) == [st EXCEPT !.clean = DOMAIN st.blobs]

\* The process ends with the blobs W in the file, those flushed among them.
\* The file ends with the last of them and has holes for the others.
Crash(st, W) ==
    LET upto == {id \in DOMAIN st.blobs : \E w \in W : id <= w} IN
    [blobs |-> [id \in upto |-> IF id \in W THEN st.blobs[id] ELSE Hole],
     clean |-> W]

\* What the file may hold when the process ends.
Written(st) == {W \in SUBSET DOMAIN st.blobs : st.clean \subseteq W}

=============================================================================
