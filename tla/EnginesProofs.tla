--------------------------- MODULE EnginesProofs ---------------------------
(***************************************************************************)
(* Theorems about the engines of module IndexedEngines.                    *)
(***************************************************************************)
EXTENDS IndexedEngines, WellFoundedInduction, TLAPS

\* Leaves are first-order unless they name another backend.
USE Zenon

-----------------------------------------------------------------------------
(* The invariants *)

Seg == INSTANCE SegmentStore

\* The blob of this id, if it can be read.
Body(st, id) == IF Seg!Decodes(st, id) THEN {Seg!ReadBlob(st, id)} ELSE {}

IsStore(st) ==
    /\ st = [blobs |-> st.blobs, clean |-> st.clean]
    /\ st.blobs = [id \in DOMAIN st.blobs |-> st.blobs[id]]
    /\ \E n \in Nat : DOMAIN st.blobs = 1 .. n

IsRequest(engine, r) ==
    \/ r = None
    \/ r.pc \in {"appended", "put"}
    \/ engine = "graph_adj" /\ r = [pc |-> "stored", key |-> r.key, doc |-> r.doc, engine |-> r.engine]

\* What the router keeps to: a request that has its document stored and its
\* edges not yet indexed, and a Rebuild, are of the graph engine.
RouterInv ==
    /\ target \in IndexedTargets
    /\ bound \in {"kv", target}
    /\ req = [t \in Threads |-> req[t]]
    /\ \A t \in Threads : IsRequest(target, req[t])
    /\ scanned # {} => OnGraph
    /\ pc # "up" => Busy = {} /\ scanned = {}
    /\ pc \in Flushing => todo \in {<<"up">>, <<"down">>}

IsVec(s) ==
    /\ DOMAIN s = {"docs", "nodes", "dim", "dirty", "snapshot", "manifest", "store"}
    /\ IsStore(s.store)

\* Every document with an embedding of this dimension has its vector.
Searchable(docs, nodes, dim) ==
    /\ dim = 0 => \A k \in DOMAIN docs : docs[k].at = 0
    /\ \A k \in DOMAIN docs :
          (docs[k].at # 0 /\ docs[k].at = dim) => k \in DOMAIN nodes /\ nodes[k] = docs[k].v

\* The inductive invariant of the vector engine: so it is in memory and in
\* every snapshot.
VecInv(s) ==
    /\ IsVec(s)
    /\ Searchable(s.docs, s.nodes, s.dim)
    /\ \A id \in DOMAIN s.store.blobs : \A b \in Body(s.store, id) : Searchable(b.docs, b.nodes, b.dim)

IsGraph(s) ==
    /\ DOMAIN s = {"docs", "flushed", "out", "in", "declared", "nodes", "class", "dirty", "snapshot",
                   "manifest", "store"}
    /\ IsStore(s.store)

IsEdges(out) == \A e \in out : e = <<e[1], e[2], e[3]>>

Reverse(out) == {<<e[2], e[1], e[3]>> : e \in out}

ByOwner(out) == {<<e[3], e[1], e[2]>> : e \in out}

\* The reverse edges and the declarations are those of the edges, in memory and
\* for every snapshot.
LinkInv(s) ==
    /\ IsGraph(s)
    /\ IsEdges(s.out)
    /\ s.in = Reverse(s.out)
    /\ s.declared = ByOwner(s.out)
    /\ \A id \in DOMAIN s.store.blobs : \A b \in Body(s.store, id) : IsEdges(b.out)

EdgesOf(k, d) == {<<e[1], e[2], k>> : e \in Graph!DeriveEdges(k, d.at)}

\* These edges and classes are those the documents declare, but for the keys P.
Exact(out, class, docs, P) ==
    /\ \A e \in out : e[3] \notin P => e[3] \in DOMAIN docs /\ e \in EdgesOf(e[3], docs[e[3]])
    /\ \A k \in DOMAIN docs \ P : EdgesOf(k, docs[k]) \subseteq out
    /\ \A k \in (DOMAIN class \cup DOMAIN docs) \ P :
          k \in DOMAIN class <=> k \in DOMAIN docs /\ docs[k].at.class # ""

\* The keys between the two halves of a Put.
Halfway == {req[t].key : t \in {u \in Threads : req[u].pc = "stored"}}

\* What the manifest names is exact for the documents of the last flush.
Saved(s) ==
    IF s.manifest = 0 THEN Exact({}, <<>>, s.flushed, {})
    ELSE \A b \in Body(s.store, s.manifest) : Exact(b.out, b.class, s.flushed, {})

\* The snapshot is what the manifest names, and unless something changed since
\* it has the edges and classes in memory.
Snapshotted(s) ==
    /\ s.snapshot = s.manifest
    /\ ~s.dirty => IF s.snapshot = 0 THEN s.out = {} /\ DOMAIN s.class = {}
                   ELSE /\ s.snapshot \in DOMAIN s.store.blobs
                        /\ \A b \in Body(s.store, s.snapshot) : b.out = s.out /\ b.class = s.class

\* The edges of engine s when the node is at this point of its life and the
\* keys P are halfway: in memory they are exact, and what the manifest names is
\* exact for the documents in the file, except in the middle of a flush.
EdgeInv(s, at, P) ==
    /\ s.docs = [k \in DOMAIN s.docs |-> s.docs[k]]
    /\ s.flushed = [k \in DOMAIN s.flushed |-> s.flushed[k]]
    /\ at \notin {"down", "refused"} => Exact(s.out, s.class, s.docs, P) /\ Snapshotted(s)
    /\ at \in {"flush manifest", "flush store", "down"} => s.flushed = s.docs
    /\ at \in {"flush store", "down"} => ~s.dirty
    /\ at = "down" /\ s.manifest = 0 => s.out = {} /\ DOMAIN s.class = {} /\ s.snapshot = 0
    /\ at # "refused" /\ ~(at = "flush manifest" /\ s.dirty) => Saved(s)

\* A request halfway has its document stored; no two requests work on a key,
\* and none while a Rebuild is between its halves.
RequestInv ==
    /\ \A t \in Threads : req[t].pc = "stored" =>
          req[t].key \in DOMAIN be.docs /\ be.docs[req[t].key] = req[t].doc
    /\ \A t, u \in Busy : req[t].key = req[u].key => t = u
    /\ \A rows \in scanned : rows = be.docs /\ Busy = {}

\* The inductive invariant of the graph engine, as long as no two operations
\* worked on a key at once and no crash left documents without their edges.
GraphInv == EdgeInv(be, pc, Halfway) /\ RequestInv

EngInv ==
    /\ RouterInv
    /\ ~OnGraph => VecInv(be)
    /\ OnGraph => LinkInv(be) /\ (raced = {} /\ ~torn => GraphInv)

-----------------------------------------------------------------------------
(* The blob file *)

\* What holds of the first number and of the number after each holds of the last.
LEMMA Induct ==
    ASSUME NEW N \in Nat, NEW T, 0 \in T, \A i \in 1 .. N : i - 1 \in T => i \in T
    PROVE  \A i \in 0 .. N : i \in T
<1> SUFFICES ASSUME NEW j \in 0 .. N, j \notin T PROVE FALSE
  OBVIOUS
<1> DEFINE B == {i \in Nat : i <= N /\ i \notin T}
<1>1. B \subseteq Nat /\ B # {}
  BY SMT
<1>2. PICK m \in B : \A i \in B : ~(<<i, m>> \in OpToRel(<, Nat))
  BY <1>1, NatLessThanWellFounded, WFMin
<1>3. m # 0 /\ m \in 1 .. N /\ m - 1 \in Nat /\ m - 1 <= N
  BY SMT
<1>4. m - 1 \notin B
  <2>1. m - 1 < m
    BY <1>3, SMT
  <2>2. <<m - 1, m>> \in OpToRel(<, Nat)
    BY <1>1, <1>3, <2>1 DEF OpToRel
  <2> QED
    BY <1>2, <2>2
<1>5. m - 1 \in T
  BY <1>3, <1>4
<1> QED
  BY <1>3, <1>5

\* The file ends with the last blob that was written.
LEMMA LastWritten ==
    ASSUME NEW n \in Nat, NEW W, W \subseteq 1 .. n
    PROVE  \E m \in Nat : {i \in 1 .. n : \E w \in W : i <= w} = 1 .. m
<1> DEFINE B == {i \in Nat : \A w \in W : w <= i}
<1>1. B \subseteq Nat /\ B # {}
  <2>1. n \in B
    BY SMT
  <2> QED
    BY <2>1
<1>2. PICK m \in B : \A i \in B : ~(<<i, m>> \in OpToRel(<, Nat))
  BY <1>1, NatLessThanWellFounded, WFMin
<1>3. m \in Nat /\ \A w \in W : w <= m
  BY <1>2
<1>4. m \in W \/ m = 0
  <2> SUFFICES ASSUME m \notin W, m # 0 PROVE FALSE
    OBVIOUS
  <2>1. m - 1 \in Nat /\ m - 1 < m /\ \A w \in W : w <= m - 1
    BY <1>3, SMT
  <2>2. <<m - 1, m>> \in OpToRel(<, Nat)
    BY <1>3, <2>1 DEF OpToRel
  <2> QED
    BY <1>2, <2>1, <2>2
<1>5. {i \in 1 .. n : \E w \in W : i <= w} = 1 .. m
  BY <1>3, <1>4, SMT
<1> QED
  BY <1>3, <1>5

\* An append leaves the blobs that are there and reads back.
LEMMA Appended ==
    ASSUME NEW st, IsStore(st), NEW body, NEW a, a = Seg!AppendBlob(st, body)
    PROVE  /\ IsStore(a)
           /\ Seg!Newest(a) # 0 /\ Seg!Newest(a) \in DOMAIN a.blobs
           /\ Body(a, Seg!Newest(a)) = {body}
           /\ \A id \in DOMAIN a.blobs : id = Seg!Newest(a) \/ (id \in DOMAIN st.blobs /\ Body(a, id) = Body(st, id))
           /\ \A id \in DOMAIN st.blobs : Body(a, id) = Body(st, id)
<1>1. PICK n \in Nat : DOMAIN st.blobs = 1 .. n
  BY DEF IsStore
<1> DEFINE blob == [whole |-> TRUE, body |-> body]
           S == {st.blobs[id] : id \in 1 .. n} \cup {blob}
<1>2. st.blobs \in Seq(S) /\ blob \in S /\ Len(st.blobs) = n
  <2>1. st.blobs \in [1 .. n -> S]
    BY <1>1 DEF IsStore
  <2> HIDE DEF S, blob
  <2>2. blob \in S
    BY DEF S
  <2> QED
    BY <1>1, <2>1, <2>2, SMT
<1>3. a = [blobs |-> Append(st.blobs, blob), clean |-> st.clean]
  <2>1. st = [blobs |-> st.blobs, clean |-> st.clean]
    BY DEF IsStore
  <2>2. \A X : [st EXCEPT !.blobs = X] = [blobs |-> X, clean |-> st.clean]
    BY <2>1, SMT
  <2> QED
    BY <2>2 DEF Seg!AppendBlob
<1> HIDE DEF S
<1>4. /\ DOMAIN a.blobs = 1 .. n + 1
      /\ Seg!Newest(a) = n + 1
      /\ a.blobs[n + 1] = blob
      /\ a.blobs = [id \in DOMAIN a.blobs |-> a.blobs[id]]
      /\ \A id \in 1 .. n : a.blobs[id] = st.blobs[id]
  BY <1>2, <1>3, SMT DEF Seg!Newest
<1>5. n + 1 \in Nat /\ n + 1 # 0 /\ n + 1 \in 1 .. n + 1 /\ \A id \in 1 .. n + 1 : id = n + 1 \/ id \in 1 .. n
  BY SMT
<1>6. IsStore(a)
  BY <1>3, <1>4, <1>5 DEF IsStore
<1>7. Body(a, n + 1) = {body}
  <2>1. a.blobs[n + 1].whole = TRUE /\ a.blobs[n + 1].body = body
    BY <1>4, SMT
  <2>2. Seg!Decodes(a, n + 1) /\ Seg!ReadBlob(a, n + 1) = body
    BY <1>4, <1>5, <2>1 DEF Seg!Decodes, Seg!ReadBlob
  <2> QED
    BY <2>2 DEF Body
<1>8. \A id \in 1 .. n : id \in 1 .. n + 1
  BY SMT
<1>9. \A id \in 1 .. n : Body(a, id) = Body(st, id)
  BY <1>1, <1>4, <1>8 DEF Body, Seg!Decodes, Seg!ReadBlob
<1> QED
  BY <1>1, <1>4, <1>5, <1>6, <1>7, <1>9

LEMMA Flushed ==
    ASSUME NEW st, IsStore(st), NEW a, a = Seg!Flush(st)
    PROVE  /\ IsStore(a)
           /\ DOMAIN a.blobs = DOMAIN st.blobs
           /\ \A id \in DOMAIN st.blobs : Body(a, id) = Body(st, id)
<1>1. a = [blobs |-> st.blobs, clean |-> DOMAIN st.blobs]
  <2>1. st = [blobs |-> st.blobs, clean |-> st.clean]
    BY DEF IsStore
  <2> QED
    BY <2>1, SMT DEF Seg!Flush
<1>2. a.blobs = st.blobs /\ a = [blobs |-> a.blobs, clean |-> a.clean]
  BY <1>1, SMT
<1>3. IsStore(a)
  BY <1>2 DEF IsStore
<1> QED
  BY <1>2, <1>3 DEF Body, Seg!Decodes, Seg!ReadBlob

\* A crash makes no blob.
LEMMA Crashed ==
    ASSUME NEW st, IsStore(st), NEW W \in Seg!Written(st), NEW a, a = Seg!Crash(st, W)
    PROVE  /\ IsStore(a)
           /\ \A id \in DOMAIN a.blobs : \A b \in Body(a, id) : id \in DOMAIN st.blobs /\ b \in Body(st, id)
           /\ \A id : Body(a, id) \subseteq Body(st, id)
<1>1. PICK n \in Nat : DOMAIN st.blobs = 1 .. n
  BY DEF IsStore
<1>2. W \subseteq 1 .. n
  BY <1>1 DEF Seg!Written
<1>3. PICK m \in Nat : {i \in 1 .. n : \E w \in W : i <= w} = 1 .. m
  BY <1>2, LastWritten
<1>4. a = [blobs |-> [id \in 1 .. m |-> IF id \in W THEN st.blobs[id] ELSE Seg!Hole], clean |-> W]
  BY <1>1, <1>3 DEF Seg!Crash
<1> DEFINE held == [id \in 1 .. m |-> IF id \in W THEN st.blobs[id] ELSE Seg!Hole]
<1>a. a.blobs = held /\ a = [blobs |-> a.blobs, clean |-> a.clean]
  <2> HIDE DEF held
  <2>1. a = [blobs |-> held, clean |-> W]
    BY <1>4 DEF held
  <2> QED
    BY <2>1, SMT
<1>b. DOMAIN held = 1 .. m /\ held = [id \in 1 .. m |-> held[id]]
  OBVIOUS
<1>c. \A id \in 1 .. m : held[id] = IF id \in W THEN st.blobs[id] ELSE Seg!Hole
  OBVIOUS
<1> HIDE DEF held
<1>5. IsStore(a) /\ DOMAIN a.blobs = 1 .. m
  BY <1>3, <1>a, <1>b DEF IsStore
<1>6. ASSUME NEW id, NEW b \in Body(a, id) PROVE id \in DOMAIN st.blobs /\ b \in Body(st, id)
  <2>1. Seg!Decodes(a, id) /\ b = Seg!ReadBlob(a, id)
    BY <1>6 DEF Body
  <2>2. id \in 1 .. m /\ a.blobs[id].whole
    BY <1>5, <2>1 DEF Seg!Decodes
  <2>3. id \in W
    <3>1. Seg!Hole.whole = FALSE
      BY SMT DEF Seg!Hole
    <3> QED
      BY <1>a, <1>c, <2>2, <3>1
  <2>4. a.blobs[id] = st.blobs[id]
    BY <1>a, <1>c, <2>2, <2>3
  <2> QED
    BY <1>1, <1>2, <2>1, <2>2, <2>3, <2>4 DEF Body, Seg!Decodes, Seg!ReadBlob
<1> QED
  BY <1>5, <1>6

-----------------------------------------------------------------------------
(* The vector engine *)

\* Put: the document has its vector, or none that fits.
LEMMA VecPut ==
    ASSUME NEW s, VecInv(s), NEW k, NEW d, NEW n, n = Vec!Put(s, k, d)
    PROVE  VecInv(n)
<1> DEFINE docs == Vec!With(s.docs, k, d)
           p == [s EXCEPT !.docs = docs, !.dirty = TRUE]
<1>1. IsVec(s) /\ IsStore(s.store) /\ Searchable(s.docs, s.nodes, s.dim)
  BY DEF VecInv, IsVec
<1>2. /\ DOMAIN docs = DOMAIN s.docs \cup {k}
      /\ docs[k] = d
      /\ \A j \in DOMAIN s.docs : j # k => docs[j] = s.docs[j]
  BY DEF Vec!With
<1> HIDE DEF docs
<1>a. /\ DOMAIN p = DOMAIN s /\ p.docs = docs /\ p.nodes = s.nodes /\ p.dim = s.dim
      /\ p.store = s.store
  BY <1>1, SMT DEF IsVec
<1>4. CASE d.at = 0 \/ ~Vec!Fits(s, d)
  <2>1. n = p
    BY <1>4 DEF Vec!Put, docs
  <2> HIDE DEF p
  <2>2. s.dim = 0 => d.at = 0
    BY <1>4 DEF Vec!Fits
  <2>3. d.at # 0 => d.at # s.dim
    BY <1>4 DEF Vec!Fits
  <2>4. Searchable(docs, s.nodes, s.dim)
    BY <1>1, <1>2, <2>2, <2>3 DEF Searchable
  <2> QED
    BY <1>a, <2>1, <2>4 DEF VecInv, IsVec
<1>5. CASE d.at # 0 /\ Vec!Fits(s, d)
  <2> DEFINE nodes == Vec!With(s.nodes, k, d.v)
  <2>1. n = [p EXCEPT !.dim = d.at, !.nodes = nodes]
    <3>1. n = [p EXCEPT !.dim = d.at, !.nodes = Vec!With(p.nodes, k, d.v)]
      BY <1>5 DEF Vec!Put, docs
    <3> QED
      BY <1>a, <3>1
  <2> HIDE DEF p
  <2>2. /\ DOMAIN nodes = DOMAIN s.nodes \cup {k}
        /\ nodes[k] = d.v
        /\ \A j \in DOMAIN s.nodes : j # k => nodes[j] = s.nodes[j]
    BY DEF Vec!With
  <2> HIDE DEF nodes
  <2>4. DOMAIN n = DOMAIN s /\ n.docs = docs /\ n.nodes = nodes /\ n.dim = d.at /\ n.store = s.store
    BY <1>1, <1>a, <2>1, SMT DEF IsVec
  <2>5. s.dim = 0 \/ s.dim = d.at
    BY <1>5 DEF Vec!Fits
  <2>6. Searchable(docs, nodes, d.at)
    <3>1. ASSUME NEW j \in DOMAIN docs, docs[j].at # 0, docs[j].at = d.at
          PROVE  j \in DOMAIN nodes /\ nodes[j] = docs[j].v
      <4>1. CASE j = k
        BY <1>2, <2>2, <4>1
      <4>2. CASE j # k
        <5>1. j \in DOMAIN s.docs /\ docs[j] = s.docs[j]
          BY <1>2, <4>2
        <5>2. s.dim # 0
          BY <1>1, <3>1, <5>1 DEF Searchable
        <5> QED
          BY <1>1, <2>2, <2>5, <3>1, <4>2, <5>1, <5>2 DEF Searchable
      <4> QED
        BY <4>1, <4>2
    <3> QED
      BY <1>5, <3>1 DEF Searchable
  <2> QED
    BY <1>1, <2>4, <2>6 DEF VecInv, IsVec
<1> QED
  BY <1>4, <1>5

\* Flush: the new snapshot has what is in memory.
LEMMA VecFlush ==
    ASSUME NEW s, VecInv(s)
    PROVE  VecInv(Vec!FlushManifest(s)) /\ VecInv(Vec!FlushStore(s))
<1>1. DOMAIN s = {"docs", "nodes", "dim", "dirty", "snapshot", "manifest", "store"} /\ IsStore(s.store)
  BY DEF VecInv, IsVec
<1>2. VecInv(Vec!FlushStore(s))
  <2> DEFINE st == Vec!Seg!Flush(s.store)
             n == [s EXCEPT !.store = st]
  <2>1. IsStore(st) /\ DOMAIN st.blobs = DOMAIN s.store.blobs
        /\ \A id \in DOMAIN s.store.blobs : Body(st, id) = Body(s.store, id)
    <3>1. st = Seg!Flush(s.store)
      BY DEF Vec!Seg!Flush, Seg!Flush
    <3> HIDE DEF st
    <3> QED
      BY <1>1, <3>1, Flushed
  <2>2. Vec!FlushStore(s) = n
    BY DEF Vec!FlushStore
  <2> HIDE DEF st
  <2>3. DOMAIN n = DOMAIN s /\ n.docs = s.docs /\ n.nodes = s.nodes /\ n.dim = s.dim /\ n.store = st
    BY <1>1, SMT
  <2> HIDE DEF n
  <2> QED
    BY <1>1, <2>1, <2>2, <2>3 DEF VecInv, IsVec
<1>3. VecInv(Vec!FlushManifest(s))
  <2> DEFINE snap == Vec!SnapshotLocked(s)
             n == [snap EXCEPT !.manifest = snap.snapshot]
  <2>1. VecInv(snap)
    <3>1. CASE ~s.dirty
      BY <3>1 DEF Vec!SnapshotLocked
    <3>2. CASE s.dirty
      <4> DEFINE body == [docs |-> s.docs, nodes |-> s.nodes, dim |-> s.dim]
                 st == Vec!Seg!AppendBlob(s.store, body)
                 m == [s EXCEPT !.snapshot = Vec!Seg!Newest(st), !.dirty = FALSE, !.store = st]
      <4>1. snap = m
        BY <3>2 DEF Vec!SnapshotLocked
      <4>2. st = Seg!AppendBlob(s.store, body)
        BY DEF Vec!Seg!AppendBlob, Seg!AppendBlob
      <4>3. body.docs = s.docs /\ body.nodes = s.nodes /\ body.dim = s.dim
        OBVIOUS
      <4> HIDE DEF body, st
      <4>4. DOMAIN m = DOMAIN s /\ m.docs = s.docs /\ m.nodes = s.nodes /\ m.dim = s.dim /\ m.store = st
        BY <1>1, SMT
      <4> HIDE DEF m, snap
      <4>5. /\ IsStore(st)
            /\ Body(st, Seg!Newest(st)) = {body}
            /\ \A id \in DOMAIN st.blobs :
                  id = Seg!Newest(st) \/ (id \in DOMAIN s.store.blobs /\ Body(st, id) = Body(s.store, id))
        BY <1>1, <4>2, Appended, SMTT(20)
      <4>6. ASSUME NEW id \in DOMAIN st.blobs, NEW b \in Body(st, id) PROVE Searchable(b.docs, b.nodes, b.dim)
        <5>1. CASE id = Seg!Newest(st)
          <6>1. b = body
            BY <4>5, <4>6, <5>1
          <6> QED
            BY <4>3, <6>1 DEF VecInv
        <5>2. CASE id # Seg!Newest(st)
          BY <4>5, <4>6, <5>2 DEF VecInv
        <5> QED
          BY <5>1, <5>2
      <4>7. Searchable(m.docs, m.nodes, m.dim)
        BY <4>4 DEF VecInv
      <4>8. IsVec(m)
        BY <1>1, <4>4, <4>5 DEF IsVec
      <4> QED
        BY <4>1, <4>4, <4>6, <4>7, <4>8 DEF VecInv
    <3> QED
      BY <3>1, <3>2
  <2>2. Vec!FlushManifest(s) = n
    BY DEF Vec!FlushManifest
  <2> HIDE DEF snap
  <2>3. IsVec(snap)
    BY <2>1 DEF VecInv
  <2>4. DOMAIN n = DOMAIN snap /\ n.docs = snap.docs /\ n.nodes = snap.nodes /\ n.dim = snap.dim
        /\ n.store = snap.store
    BY <2>3, SMT DEF IsVec
  <2> HIDE DEF n
  <2> QED
    BY <2>1, <2>2, <2>4 DEF VecInv, IsVec
<1> QED
  BY <1>2, <1>3

\* A crash leaves the blobs of a store, and an engine as it is at first.
LEMMA VecCrash ==
    ASSUME NEW s, VecInv(s), NEW W \in Vec!Seg!Written(s.store)
    PROVE  VecInv(Vec!Crash(s, W))
<1> DEFINE st == Vec!Seg!Crash(s.store, W)
           n == [Vec!New EXCEPT !.manifest = s.manifest, !.store = st]
<1>1. IsStore(s.store)
  BY DEF VecInv, IsVec
<1>2. W \in Seg!Written(s.store) /\ st = Seg!Crash(s.store, W)
  BY DEF Vec!Seg!Written, Seg!Written, Vec!Seg!Crash, Seg!Crash, Vec!Seg!Hole, Seg!Hole
<1>3. Vec!Crash(s, W) = n
  BY DEF Vec!Crash
<1> HIDE DEF st
<1>4. /\ DOMAIN n = {"docs", "nodes", "dim", "dirty", "snapshot", "manifest", "store"}
      /\ n.docs = <<>> /\ n.nodes = <<>> /\ n.dim = 0 /\ n.store = st
  BY SMT DEF Vec!New
<1> HIDE DEF n
<1>5. Searchable(<<>>, <<>>, 0)
  BY SMT DEF Searchable
<1>6. /\ IsStore(st)
      /\ \A id \in DOMAIN st.blobs : \A b \in Body(st, id) :
            id \in DOMAIN s.store.blobs /\ b \in Body(s.store, id)
  BY <1>1, <1>2, Crashed
<1> QED
  BY <1>3, <1>4, <1>5, <1>6 DEF VecInv, IsVec

\* Open reads what a snapshot has.
LEMMA VecLoad ==
    ASSUME NEW s, VecInv(s), Vec!LoadManifestOK(s)
    PROVE  VecInv(Vec!LoadManifest(s))
<1>1. CASE s.manifest = 0
  BY <1>1 DEF Vec!LoadManifest
<1>2. CASE s.manifest # 0
  <2> DEFINE blob == Vec!Seg!ReadBlob(s.store, s.manifest)
             n == [s EXCEPT !.docs = blob.docs, !.nodes = blob.nodes, !.dim = blob.dim,
                            !.snapshot = s.manifest]
  <2>1. s.manifest \in DOMAIN s.store.blobs /\ blob \in Body(s.store, s.manifest)
    BY <1>2 DEF Vec!LoadManifestOK, Vec!Seg!Decodes, Vec!Seg!ReadBlob, Body, Seg!Decodes, Seg!ReadBlob
  <2>2. Vec!LoadManifest(s) = n
    BY <1>2 DEF Vec!LoadManifest
  <2> HIDE DEF blob
  <2>3. IsVec(s)
    BY DEF VecInv
  <2>4. DOMAIN n = DOMAIN s /\ n.docs = blob.docs /\ n.nodes = blob.nodes /\ n.dim = blob.dim
        /\ n.store = s.store
    BY <2>3, SMT DEF IsVec
  <2> HIDE DEF n
  <2> QED
    BY <2>1, <2>2, <2>3, <2>4 DEF VecInv, IsVec
<1> QED
  BY <1>1, <1>2

-----------------------------------------------------------------------------
(* The graph engine *)

LEMMA Triples ==
    /\ \A a, b, c : <<a, b, c>>[1] = a /\ <<a, b, c>>[2] = b /\ <<a, b, c>>[3] = c
    /\ \A a, b : <<a, b>>[1] = a /\ <<a, b>>[2] = b
BY SMT

\* The edges of a document carry its key.
LEMMA Owned ==
    ASSUME NEW k, NEW d, NEW e \in EdgesOf(k, d)
    PROVE  e[3] = k /\ e = <<e[1], e[2], e[3]>>
<1>1. PICK x \in Graph!DeriveEdges(k, d.at) : e = <<x[1], x[2], k>>
  BY DEF EdgesOf
<1>2. e[1] = x[1] /\ e[2] = x[2] /\ e[3] = k
  BY <1>1, Triples
<1> QED
  BY <1>1, <1>2

\* Exactly the edges of one owner go, in both directions.
LEMMA Unindexed ==
    ASSUME NEW s, LinkInv(s), NEW k, NEW u, u = Graph!UnindexDocumentLocked(s, k)
    PROVE  /\ DOMAIN u = DOMAIN s
           /\ u.docs = s.docs /\ u.flushed = s.flushed /\ u.dirty = s.dirty /\ u.snapshot = s.snapshot
           /\ u.manifest = s.manifest /\ u.store = s.store
           /\ u.out = {e \in s.out : e[3] # k}
           /\ u.in = Reverse(u.out)
           /\ u.declared = ByOwner(u.out)
           /\ DOMAIN u.class = DOMAIN s.class \ {k}
<1> DEFINE mine == {<<e[2], e[3]>> : e \in {x \in s.declared : x[1] = k}}
           out == s.out \ {<<e[1], e[2], k>> : e \in mine}
           in == s.in \ {<<e[2], e[1], k>> : e \in mine}
           declared == {x \in s.declared : x[1] # k}
           class == [j \in DOMAIN s.class \ {k} |-> s.class[j]]
<1>1. u = [s EXCEPT !.out = out, !.in = in, !.declared = declared, !.class = class]
  BY DEF Graph!UnindexDocumentLocked
<1>2. /\ IsEdges(s.out) /\ s.in = Reverse(s.out) /\ s.declared = ByOwner(s.out) /\ IsGraph(s)
  BY DEF LinkInv
<1>3. ASSUME NEW m \in mine PROVE \E e \in s.out : e[3] = k /\ m = <<e[1], e[2]>>
  <2>1. PICK x \in s.declared : x[1] = k /\ m = <<x[2], x[3]>>
    BY <1>3
  <2>2. PICK e \in s.out : x = <<e[3], e[1], e[2]>>
    BY <1>2, <2>1 DEF ByOwner
  <2>3. x[1] = e[3] /\ x[2] = e[1] /\ x[3] = e[2]
    BY <2>2, Triples
  <2> QED
    BY <2>1, <2>3
<1>4. ASSUME NEW e \in s.out, e[3] = k PROVE <<e[1], e[2]>> \in mine
  <2> DEFINE x == <<e[3], e[1], e[2]>>
  <2>1. x \in s.declared
    BY <1>2 DEF ByOwner
  <2>2. x[1] = e[3] /\ x[2] = e[1] /\ x[3] = e[2]
    BY Triples
  <2> HIDE DEF x
  <2>3. <<x[2], x[3]>> \in mine
    BY <1>4, <2>1, <2>2
  <2> QED
    BY <2>2, <2>3
<1> HIDE DEF mine
<1>5. out = {e \in s.out : e[3] # k}
  <2>1. ASSUME NEW e \in s.out, e[3] = k PROVE e \notin out
    <3>1. <<e[1], e[2]>> \in mine /\ e = <<e[1], e[2], k>>
      BY <1>2, <1>4, <2>1 DEF IsEdges
    <3> DEFINE m == <<e[1], e[2]>>
    <3>2. m[1] = e[1] /\ m[2] = e[2]
      BY Triples
    <3>3. m \in mine /\ e = <<m[1], m[2], k>>
      BY <3>1, <3>2
    <3> HIDE DEF m
    <3> QED
      BY <3>3
  <2>2. ASSUME NEW e \in s.out, e[3] # k PROVE e \in out
    <3>1. ASSUME NEW m \in mine, e = <<m[1], m[2], k>> PROVE FALSE
      BY <2>2, <3>1, SMT
    <3> QED
      BY <3>1
  <2> HIDE DEF out
  <2>3. out \subseteq s.out
    BY DEF out
  <2> QED
    BY <2>1, <2>2, <2>3
<1>6. in = Reverse(out)
  <2>1. ASSUME NEW i \in in PROVE i \in Reverse(out)
    <3>1. i \in s.in /\ \A m \in mine : i # <<m[2], m[1], k>>
      BY <2>1
    <3>2. PICK e \in s.out : i = <<e[2], e[1], e[3]>>
      BY <1>2, <3>1 DEF Reverse
    <3>3. e[3] # k
      <4> SUFFICES ASSUME e[3] = k PROVE FALSE
        OBVIOUS
      <4> DEFINE m == <<e[1], e[2]>>
      <4>1. m \in mine /\ m[1] = e[1] /\ m[2] = e[2]
        BY <1>4, Triples
      <4> HIDE DEF m
      <4> QED
        BY <3>1, <3>2, <4>1
    <3>4. e \in out
      <4> HIDE DEF out
      <4> QED
        BY <1>5, <3>3
    <3> HIDE DEF out
    <3> QED
      BY <3>2, <3>4 DEF Reverse
  <2>2. ASSUME NEW i \in Reverse(out) PROVE i \in in
    <3>1. PICK e \in out : i = <<e[2], e[1], e[3]>>
      <4> HIDE DEF out
      <4> QED
        BY <2>2 DEF Reverse
    <3>2. e \in s.out /\ e[3] # k
      <4> HIDE DEF out
      <4> QED
        BY <1>5, <3>1
    <3>3. i \in s.in
      BY <1>2, <3>1, <3>2 DEF Reverse
    <3>4. i[3] # k
      BY <3>1, <3>2, Triples
    <3>5. \A m \in mine : i # <<m[2], m[1], k>>
      <4>1. ASSUME NEW m \in mine, i = <<m[2], m[1], k>> PROVE FALSE
        BY <3>4, <4>1, SMT
      <4> QED
        BY <4>1
    <3> QED
      BY <3>3, <3>5
  <2> HIDE DEF in, out
  <2> QED
    BY <2>1, <2>2
<1>7. declared = ByOwner(out)
  <2> HIDE DEF out
  <2>1. ASSUME NEW x \in s.declared, x[1] # k PROVE x \in ByOwner(out)
    <3>1. PICK e \in s.out : x = <<e[3], e[1], e[2]>>
      BY <1>2, <2>1 DEF ByOwner
    <3>2. e \in out
      BY <1>5, <2>1, <3>1, Triples
    <3> QED
      BY <3>1, <3>2 DEF ByOwner
  <2>2. ASSUME NEW x \in ByOwner(out) PROVE x \in s.declared /\ x[1] # k
    <3>1. PICK e \in out : x = <<e[3], e[1], e[2]>>
      BY <2>2 DEF ByOwner
    <3>2. e \in s.out /\ e[3] # k
      BY <1>5, <3>1
    <3> QED
      BY <1>2, <3>1, <3>2, Triples DEF ByOwner
  <2> QED
    BY <2>1, <2>2
<1> HIDE DEF out, in, declared
<1>8. DOMAIN class = DOMAIN s.class \ {k}
  OBVIOUS
<1> HIDE DEF class
<1>9. /\ DOMAIN u = DOMAIN s
      /\ u.docs = s.docs /\ u.flushed = s.flushed /\ u.dirty = s.dirty /\ u.snapshot = s.snapshot
      /\ u.manifest = s.manifest /\ u.store = s.store
      /\ u.out = out /\ u.in = in /\ u.declared = declared /\ u.class = class
  BY <1>1, <1>2, SMTT(20) DEF IsGraph
<1> QED
  BY <1>5, <1>6, <1>7, <1>8, <1>9

\* Edges and classes where those of k are now those of document d.
Reindexed(out, class, out0, class0, k, d) ==
    /\ out = {e \in out0 : e[3] # k} \cup EdgesOf(k, d)
    /\ DOMAIN class = (DOMAIN class0 \ {k}) \cup (IF d.at.class = "" THEN {} ELSE {k})

\* Indexing a document puts its edges in the place of those it had.
IsIndexed(n, s, k, d) ==
    /\ n.docs = s.docs /\ n.flushed = s.flushed /\ n.dirty = TRUE /\ n.snapshot = s.snapshot
    /\ n.manifest = s.manifest /\ n.store = s.store
    /\ Reindexed(n.out, n.class, s.out, s.class, k, d)

LEMMA Indexed ==
    ASSUME NEW s, LinkInv(s), NEW k, NEW d, NEW n, n = Graph!IndexDocumentLocked(s, k, d)
    PROVE  LinkInv(n) /\ IsIndexed(n, s, k, d)
<1> DEFINE u == Graph!UnindexDocumentLocked(s, k)
           pairs == Graph!DeriveEdges(k, d.at)
           out == u.out \cup {<<e[1], e[2], k>> : e \in pairs}
           in == u.in \cup {<<e[2], e[1], k>> : e \in pairs}
           declared == u.declared \cup {<<k, e[1], e[2]>> : e \in pairs}
           nodes == u.nodes \cup {k} \cup UNION {{e[1], e[2]} : e \in pairs}
           class == IF d.at.class = "" THEN u.class ELSE Graph!With(u.class, k, d.at.class)
<1>1. n = [u EXCEPT !.out = out, !.in = in, !.declared = declared, !.nodes = nodes,
                    !.class = class, !.dirty = TRUE]
  BY DEF Graph!IndexDocumentLocked
<1>2. /\ DOMAIN u = DOMAIN s
      /\ u.docs = s.docs /\ u.flushed = s.flushed /\ u.dirty = s.dirty /\ u.snapshot = s.snapshot
      /\ u.manifest = s.manifest /\ u.store = s.store
      /\ u.out = {e \in s.out : e[3] # k}
      /\ u.in = Reverse(u.out)
      /\ u.declared = ByOwner(u.out)
      /\ DOMAIN u.class = DOMAIN s.class \ {k}
  <2> HIDE DEF u
  <2>1. u = Graph!UnindexDocumentLocked(s, k)
    BY DEF u
  <2> QED
    BY <2>1, Unindexed, SMTT(20)
<1> HIDE DEF u
<1>3. IsEdges(s.out) /\ IsGraph(s)
  BY DEF LinkInv
<1>4. out = u.out \cup EdgesOf(k, d)
  BY DEF EdgesOf
<1>5. DOMAIN class = (DOMAIN s.class \ {k}) \cup (IF d.at.class = "" THEN {} ELSE {k})
  <2>1. CASE d.at.class = ""
    BY <1>2, <2>1
  <2>2. CASE d.at.class # ""
    <3>1. class = Graph!With(u.class, k, d.at.class)
      BY <2>2
    <3> HIDE DEF class
    <3>2. DOMAIN class = DOMAIN u.class \cup {k}
      BY <3>1 DEF Graph!With
    <3> QED
      BY <1>2, <2>2, <3>2
  <2> QED
    BY <2>1, <2>2
<1>6. IsEdges(out)
  <2> HIDE DEF out
  <2> QED
    BY <1>2, <1>3, <1>4, Owned DEF IsEdges
<1>7. in = Reverse(out)
  <2>1. ASSUME NEW i \in in PROVE i \in Reverse(out)
    <3>1. CASE i \in u.in
      <4>a. i \in Reverse(u.out)
        BY <1>2, <3>1
      <4>1. PICK e \in u.out : i = <<e[2], e[1], e[3]>>
        BY <4>a DEF Reverse
      <4> QED
        BY <4>1 DEF Reverse
    <3>2. CASE i \notin u.in
      <4>1. PICK x \in pairs : i = <<x[2], x[1], k>>
        BY <2>1, <3>2
      <4> DEFINE e == <<x[1], x[2], k>>
      <4>2. e \in out
        OBVIOUS
      <4>3. e[1] = x[1] /\ e[2] = x[2] /\ e[3] = k
        BY Triples
      <4> HIDE DEF e, out
      <4> QED
        BY <4>1, <4>2, <4>3 DEF Reverse
    <3> QED
      BY <3>1, <3>2
  <2>2. ASSUME NEW i \in Reverse(out) PROVE i \in in
    <3>1. PICK e \in out : i = <<e[2], e[1], e[3]>>
      <4> HIDE DEF out
      <4> QED
        BY <2>2 DEF Reverse
    <3>2. CASE e \in u.out
      BY <1>2, <3>1, <3>2 DEF Reverse
    <3>3. CASE e \notin u.out
      <4>1. PICK x \in pairs : e = <<x[1], x[2], k>>
        BY <3>1, <3>3
      <4>2. e[1] = x[1] /\ e[2] = x[2] /\ e[3] = k
        BY <4>1, Triples
      <4> QED
        BY <3>1, <4>1, <4>2
    <3> QED
      BY <3>2, <3>3
  <2> HIDE DEF in, out
  <2> QED
    BY <2>1, <2>2
<1>8. declared = ByOwner(out)
  <2>1. ASSUME NEW i \in declared PROVE i \in ByOwner(out)
    <3>1. CASE i \in u.declared
      <4>a. i \in ByOwner(u.out)
        BY <1>2, <3>1
      <4>1. PICK e \in u.out : i = <<e[3], e[1], e[2]>>
        BY <4>a DEF ByOwner
      <4> QED
        BY <4>1 DEF ByOwner
    <3>2. CASE i \notin u.declared
      <4>1. PICK x \in pairs : i = <<k, x[1], x[2]>>
        BY <2>1, <3>2
      <4> DEFINE e == <<x[1], x[2], k>>
      <4>2. e \in out
        OBVIOUS
      <4>3. e[1] = x[1] /\ e[2] = x[2] /\ e[3] = k
        BY Triples
      <4> HIDE DEF e, out
      <4> QED
        BY <4>1, <4>2, <4>3 DEF ByOwner
    <3> QED
      BY <3>1, <3>2
  <2>2. ASSUME NEW i \in ByOwner(out) PROVE i \in declared
    <3>1. PICK e \in out : i = <<e[3], e[1], e[2]>>
      <4> HIDE DEF out
      <4> QED
        BY <2>2 DEF ByOwner
    <3>2. CASE e \in u.out
      BY <1>2, <3>1, <3>2 DEF ByOwner
    <3>3. CASE e \notin u.out
      <4>1. PICK x \in pairs : e = <<x[1], x[2], k>>
        BY <3>1, <3>3
      <4>2. e[1] = x[1] /\ e[2] = x[2] /\ e[3] = k
        BY <4>1, Triples
      <4> QED
        BY <3>1, <4>1, <4>2
    <3> QED
      BY <3>2, <3>3
  <2> HIDE DEF declared, out
  <2> QED
    BY <2>1, <2>2
<1> HIDE DEF out, in, declared, nodes, class
<1>9. /\ DOMAIN n = DOMAIN s
      /\ n.docs = s.docs /\ n.flushed = s.flushed /\ n.dirty = TRUE /\ n.snapshot = s.snapshot
      /\ n.manifest = s.manifest /\ n.store = s.store
      /\ n.out = out /\ n.in = in /\ n.declared = declared /\ n.class = class
  BY <1>1, <1>2, <1>3, SMTT(20) DEF IsGraph
<1>10. LinkInv(n)
  BY <1>3, <1>6, <1>7, <1>8, <1>9 DEF LinkInv, IsGraph
<1>11. Reindexed(n.out, n.class, s.out, s.class, k, d)
  BY <1>2, <1>4, <1>5, <1>9 DEF Reindexed
<1> QED
  BY <1>9, <1>10, <1>11 DEF IsIndexed

\* Of a Put, the first half changes nothing but the document.
IsPut(n, s, k, d) ==
    /\ n.flushed = s.flushed /\ n.dirty = s.dirty /\ n.snapshot = s.snapshot
    /\ n.manifest = s.manifest /\ n.store = s.store /\ n.out = s.out /\ n.class = s.class
    /\ n.docs = [j \in DOMAIN n.docs |-> n.docs[j]]
    /\ DOMAIN n.docs = DOMAIN s.docs \cup {k}
    /\ n.docs[k] = d
    /\ \A j \in DOMAIN s.docs : j # k => n.docs[j] = s.docs[j]

LEMMA GraphPut ==
    ASSUME NEW s, LinkInv(s), NEW k, NEW d, NEW n, n = Graph!PutDocument(s, k, d)
    PROVE  LinkInv(n) /\ IsPut(n, s, k, d)
<1> DEFINE docs == Graph!With(s.docs, k, d)
<1>1. n = [s EXCEPT !.docs = docs]
  BY DEF Graph!PutDocument
<1>2. /\ DOMAIN docs = DOMAIN s.docs \cup {k} /\ docs[k] = d
      /\ \A j \in DOMAIN s.docs : j # k => docs[j] = s.docs[j]
      /\ docs = [j \in DOMAIN docs |-> docs[j]]
  BY DEF Graph!With
<1> HIDE DEF docs
<1>3. IsGraph(s)
  BY DEF LinkInv
<1>4. /\ DOMAIN n = DOMAIN s
      /\ n.docs = docs /\ n.flushed = s.flushed /\ n.dirty = s.dirty /\ n.snapshot = s.snapshot
      /\ n.manifest = s.manifest /\ n.store = s.store
      /\ n.out = s.out /\ n.in = s.in /\ n.declared = s.declared /\ n.class = s.class
  BY <1>1, <1>3, SMTT(20) DEF IsGraph
<1>5. LinkInv(n)
  BY <1>3, <1>4 DEF LinkInv, IsGraph
<1> QED
  BY <1>2, <1>4, <1>5 DEF IsPut

LEMMA ExactPut ==
    ASSUME NEW out, NEW class, NEW docs, NEW P, Exact(out, class, docs, P), NEW k, NEW new,
           DOMAIN new = DOMAIN docs \cup {k}, \A j \in DOMAIN docs : j # k => new[j] = docs[j]
    PROVE  Exact(out, class, new, P \cup {k})
<1>1. ASSUME NEW e \in out, e[3] \notin P \cup {k}
      PROVE  e[3] \in DOMAIN new /\ e \in EdgesOf(e[3], new[e[3]])
  <2>1. e[3] \in DOMAIN docs /\ e \in EdgesOf(e[3], docs[e[3]]) /\ e[3] # k
    BY <1>1 DEF Exact
  <2>2. new[e[3]] = docs[e[3]]
    BY <2>1
  <2> QED
    BY <2>1, <2>2
<1>2. ASSUME NEW j \in DOMAIN new \ (P \cup {k})
      PROVE  EdgesOf(j, new[j]) \subseteq out
  <2>1. j \in DOMAIN docs \ P /\ new[j] = docs[j]
    BY <1>2
  <2> QED
    BY <2>1 DEF Exact
<1>3. ASSUME NEW j \in (DOMAIN class \cup DOMAIN new) \ (P \cup {k})
      PROVE  j \in DOMAIN class <=> j \in DOMAIN new /\ new[j].at.class # ""
  <2>1. j \in (DOMAIN class \cup DOMAIN docs) \ P /\ j # k /\ (j \in DOMAIN new <=> j \in DOMAIN docs)
    BY <1>3
  <2>2. j \in DOMAIN docs => new[j] = docs[j]
    BY <2>1
  <2> QED
    BY <2>1, <2>2 DEF Exact
<1> QED
  BY <1>1, <1>2, <1>3 DEF Exact

LEMMA ExactIndex ==
    ASSUME NEW out, NEW class, NEW docs, NEW P, Exact(out, class, docs, P), NEW k \in DOMAIN docs,
           NEW more, NEW classes, Reindexed(more, classes, out, class, k, docs[k])
    PROVE  Exact(more, classes, docs, P \ {k})
<1>0. /\ more = {e \in out : e[3] # k} \cup EdgesOf(k, docs[k])
      /\ DOMAIN classes = (DOMAIN class \ {k}) \cup (IF docs[k].at.class = "" THEN {} ELSE {k})
  BY DEF Reindexed
<1>1. ASSUME NEW e \in more, e[3] \notin P \ {k}
      PROVE  e[3] \in DOMAIN docs /\ e \in EdgesOf(e[3], docs[e[3]])
  <2>1. CASE e \in EdgesOf(k, docs[k])
    BY <2>1, Owned
  <2>2. CASE e \notin EdgesOf(k, docs[k])
    <3>1. e \in out /\ e[3] # k
      BY <1>0, <1>1, <2>2
    <3> QED
      BY <1>1, <3>1 DEF Exact
  <2> QED
    BY <2>1, <2>2
<1>2. ASSUME NEW j \in DOMAIN docs \ (P \ {k}), NEW e \in EdgesOf(j, docs[j]) PROVE e \in more
  <2>1. CASE j = k
    BY <1>0, <1>2, <2>1
  <2>2. CASE j # k
    <3>1. e \in out /\ e[3] = j
      BY <1>2, <2>2, Owned DEF Exact
    <3> QED
      BY <1>0, <2>2, <3>1
  <2> QED
    BY <2>1, <2>2
<1>3. ASSUME NEW j \in (DOMAIN classes \cup DOMAIN docs) \ (P \ {k})
      PROVE  j \in DOMAIN classes <=> j \in DOMAIN docs /\ docs[j].at.class # ""
  <2>1. CASE j = k
    BY <1>0, <2>1
  <2>2. CASE j # k
    <3>1. j \in DOMAIN classes <=> j \in DOMAIN class
      BY <1>0, <2>2
    <3>2. j \in (DOMAIN class \cup DOMAIN docs) \ P
      BY <1>3, <2>2, <3>1
    <3> QED
      BY <3>1, <3>2 DEF Exact
  <2> QED
    BY <2>1, <2>2
<1> QED
  BY <1>1, <1>2, <1>3 DEF Exact

\* Rebuild: the edges of these rows and no others.
IsRebuilt(n, s, rows) ==
    /\ n.docs = s.docs /\ n.flushed = s.flushed /\ n.dirty = TRUE /\ n.snapshot = s.snapshot
    /\ n.manifest = s.manifest /\ n.store = s.store
    /\ Exact(n.out, n.class, rows, {})

LEMMA Rebuilt ==
    ASSUME NEW s, LinkInv(s), NEW rows, NEW n, n = Graph!RebuildFrom(s, rows)
    PROVE  LinkInv(n) /\ IsRebuilt(n, s, rows)
<1> DEFINE of(k) == {<<k, e[1], e[2]>> : e \in Graph!DeriveEdges(k, rows[k].at)}
           pairs == UNION {of(k) : k \in DOMAIN rows}
           out == {<<e[2], e[3], e[1]>> : e \in pairs}
           in == {<<e[3], e[2], e[1]>> : e \in pairs}
           nodes == DOMAIN rows \cup UNION {{e[2], e[3]} : e \in pairs}
           class == [k \in {j \in DOMAIN rows : rows[j].at.class # ""} |-> rows[k].at.class]
<1>1. n = [s EXCEPT !.out = out, !.in = in, !.declared = pairs, !.nodes = nodes, !.class = class,
                    !.dirty = TRUE]
  BY DEF Graph!RebuildFrom
<1>2. IsGraph(s)
  BY DEF LinkInv
<1>3. ASSUME NEW p \in pairs
      PROVE  /\ p = <<p[1], p[2], p[3]>> /\ p[1] \in DOMAIN rows
             /\ <<p[2], p[3], p[1]>> \in EdgesOf(p[1], rows[p[1]])
  <2>1. PICK k \in DOMAIN rows : p \in of(k)
    BY <1>3
  <2>2. PICK e \in Graph!DeriveEdges(k, rows[k].at) : p = <<k, e[1], e[2]>>
    BY <2>1
  <2>3. p[1] = k /\ p[2] = e[1] /\ p[3] = e[2]
    BY <2>2, Triples
  <2> QED
    BY <2>2, <2>3 DEF EdgesOf
<1>4. ASSUME NEW k \in DOMAIN rows, NEW e \in EdgesOf(k, rows[k])
      PROVE  <<e[3], e[1], e[2]>> \in pairs
  <2>1. PICK x \in Graph!DeriveEdges(k, rows[k].at) : e = <<x[1], x[2], k>>
    BY <1>4 DEF EdgesOf
  <2>2. e[1] = x[1] /\ e[2] = x[2] /\ e[3] = k
    BY <2>1, Triples
  <2>3. <<k, x[1], x[2]>> \in of(k)
    OBVIOUS
  <2> HIDE DEF of
  <2>4. <<e[3], e[1], e[2]>> \in of(k)
    BY <2>2, <2>3
  <2> QED
    BY <2>4
<1> HIDE DEF pairs
<1>5. ASSUME NEW e \in out
      PROVE  /\ e = <<e[1], e[2], e[3]>> /\ <<e[3], e[1], e[2]>> \in pairs
             /\ e[3] \in DOMAIN rows /\ e \in EdgesOf(e[3], rows[e[3]])
  <2>1. PICK p \in pairs : e = <<p[2], p[3], p[1]>>
    BY <1>5
  <2>2. e[1] = p[2] /\ e[2] = p[3] /\ e[3] = p[1]
    BY <2>1, Triples
  <2> QED
    BY <1>3, <2>1, <2>2
<1>6. ASSUME NEW k \in DOMAIN rows, NEW e \in EdgesOf(k, rows[k]) PROVE e \in out
  <2> DEFINE p == <<e[3], e[1], e[2]>>
  <2>1. p \in pairs /\ e = <<e[1], e[2], e[3]>>
    BY <1>4, Owned
  <2>2. p[1] = e[3] /\ p[2] = e[1] /\ p[3] = e[2]
    BY Triples
  <2> HIDE DEF p
  <2> QED
    BY <2>1, <2>2
<1>7. in = Reverse(out)
  <2>1. ASSUME NEW i \in in PROVE i \in Reverse(out)
    <3>1. PICK p \in pairs : i = <<p[3], p[2], p[1]>>
      BY <2>1
    <3> DEFINE e == <<p[2], p[3], p[1]>>
    <3>2. e \in out
      BY <3>1
    <3>3. e[1] = p[2] /\ e[2] = p[3] /\ e[3] = p[1]
      BY Triples
    <3> HIDE DEF e, out
    <3> QED
      BY <3>1, <3>2, <3>3 DEF Reverse
  <2>2. ASSUME NEW i \in Reverse(out) PROVE i \in in
    <3> HIDE DEF out
    <3>1. PICK e \in out : i = <<e[2], e[1], e[3]>>
      BY <2>2 DEF Reverse
    <3> DEFINE p == <<e[3], e[1], e[2]>>
    <3>2. p \in pairs
      BY <1>5
    <3>3. p[1] = e[3] /\ p[2] = e[1] /\ p[3] = e[2]
      BY Triples
    <3> HIDE DEF p
    <3> QED
      BY <3>1, <3>2, <3>3
  <2> HIDE DEF in, out
  <2> QED
    BY <2>1, <2>2
<1>8. pairs = ByOwner(out)
  <2>1. ASSUME NEW p \in pairs PROVE p \in ByOwner(out)
    <3> DEFINE e == <<p[2], p[3], p[1]>>
    <3>1. e \in out
      BY <2>1
    <3>2. e[1] = p[2] /\ e[2] = p[3] /\ e[3] = p[1]
      BY Triples
    <3>3. p = <<p[1], p[2], p[3]>>
      BY <1>3, <2>1
    <3> HIDE DEF e, out
    <3> QED
      BY <3>1, <3>2, <3>3 DEF ByOwner
  <2> HIDE DEF out
  <2>2. ASSUME NEW i \in ByOwner(out) PROVE i \in pairs
    BY <1>5, <2>2 DEF ByOwner
  <2> QED
    BY <2>1, <2>2
<1> HIDE DEF out, in, nodes
<1>9. DOMAIN class = {j \in DOMAIN rows : rows[j].at.class # ""}
  OBVIOUS
<1> HIDE DEF class
<1>10. /\ DOMAIN n = DOMAIN s
       /\ n.docs = s.docs /\ n.flushed = s.flushed /\ n.dirty = TRUE /\ n.snapshot = s.snapshot
       /\ n.manifest = s.manifest /\ n.store = s.store
       /\ n.out = out /\ n.in = in /\ n.declared = pairs /\ n.class = class
  BY <1>1, <1>2, SMTT(20) DEF IsGraph
<1>11. Exact(out, class, rows, {})
  BY <1>5, <1>6, <1>9 DEF Exact
<1>12. IsEdges(out)
  BY <1>5 DEF IsEdges
<1>13. LinkInv(n)
  BY <1>2, <1>7, <1>8, <1>10, <1>12 DEF LinkInv, IsGraph
<1> QED
  BY <1>10, <1>11, <1>13 DEF IsRebuilt

\* A snapshot has the edges and the classes in memory.
IsManifest(n, s) ==
    /\ n.docs = s.docs /\ n.flushed = s.flushed /\ n.out = s.out /\ n.class = s.class
    /\ ~n.dirty /\ n.manifest = n.snapshot
    /\ ~s.dirty => n.snapshot = s.snapshot /\ n.store = s.store
    /\ s.dirty => /\ n.snapshot # 0 /\ n.snapshot \in DOMAIN n.store.blobs
                  /\ \A b \in Body(n.store, n.snapshot) : b.out = s.out /\ b.class = s.class

LEMMA GraphManifest ==
    ASSUME NEW s, LinkInv(s), NEW n, n = Graph!FlushManifest(s)
    PROVE  LinkInv(n) /\ IsManifest(n, s)
<1> DEFINE snap == Graph!SnapshotLocked(s)
<1>1. n = [snap EXCEPT !.manifest = snap.snapshot]
  BY DEF Graph!FlushManifest
<1>2. IsGraph(s) /\ IsStore(s.store)
  BY DEF LinkInv, IsGraph
<1>3. CASE ~s.dirty
  <2>1. n = [s EXCEPT !.manifest = s.snapshot]
    BY <1>1, <1>3 DEF Graph!SnapshotLocked
  <2> HIDE DEF snap
  <2>2. /\ DOMAIN n = DOMAIN s
        /\ n.docs = s.docs /\ n.flushed = s.flushed /\ n.dirty = s.dirty /\ n.snapshot = s.snapshot
        /\ n.manifest = s.snapshot /\ n.store = s.store
        /\ n.out = s.out /\ n.in = s.in /\ n.declared = s.declared /\ n.class = s.class
    BY <1>2, <2>1, SMTT(20) DEF IsGraph
  <2>3. LinkInv(n)
    BY <1>2, <2>2 DEF LinkInv, IsGraph
  <2> QED
    BY <1>3, <2>2, <2>3 DEF IsManifest
<1>4. CASE s.dirty
  <2> DEFINE body == Graph!EncodeAdjacency(s)
             st == Graph!Seg!AppendBlob(s.store, body)
  <2>1. snap = [s EXCEPT !.snapshot = Graph!Seg!Newest(st), !.dirty = FALSE, !.store = st]
    BY <1>4 DEF Graph!SnapshotLocked
  <2>2. body.out = s.out /\ body.class = s.class
    BY SMT DEF Graph!EncodeAdjacency
  <2> HIDE DEF body, snap
  <2>3. st = Seg!AppendBlob(s.store, body) /\ Graph!Seg!Newest(st) = Seg!Newest(st)
    BY DEF Graph!Seg!AppendBlob, Seg!AppendBlob, Graph!Seg!Newest, Seg!Newest
  <2> HIDE DEF st
  <2>4. /\ IsStore(st)
        /\ Seg!Newest(st) # 0 /\ Seg!Newest(st) \in DOMAIN st.blobs
        /\ Body(st, Seg!Newest(st)) = {body}
        /\ \A id \in DOMAIN st.blobs :
              id = Seg!Newest(st) \/ (id \in DOMAIN s.store.blobs /\ Body(st, id) = Body(s.store, id))
    BY <1>2, <2>3, Appended, SMTT(20)
  <2>5. /\ DOMAIN snap = DOMAIN s
        /\ snap.docs = s.docs /\ snap.flushed = s.flushed /\ snap.dirty = FALSE
        /\ snap.snapshot = Seg!Newest(st) /\ snap.store = st
        /\ snap.out = s.out /\ snap.in = s.in /\ snap.declared = s.declared /\ snap.class = s.class
    BY <1>2, <2>1, <2>3, SMTT(20) DEF IsGraph
  <2>6. /\ DOMAIN n = DOMAIN s
        /\ n.docs = s.docs /\ n.flushed = s.flushed /\ n.dirty = FALSE
        /\ n.snapshot = Seg!Newest(st) /\ n.manifest = Seg!Newest(st) /\ n.store = st
        /\ n.out = s.out /\ n.in = s.in /\ n.declared = s.declared /\ n.class = s.class
    BY <1>1, <1>2, <2>5, SMTT(20) DEF IsGraph
  <2>7. ASSUME NEW id \in DOMAIN st.blobs, NEW b \in Body(st, id) PROVE IsEdges(b.out)
    <3>1. CASE id = Seg!Newest(st)
      <4>1. b = body
        BY <2>4, <2>7, <3>1
      <4> QED
        BY <2>2, <4>1 DEF LinkInv
    <3>2. CASE id # Seg!Newest(st)
      BY <2>4, <2>7, <3>2 DEF LinkInv
    <3> QED
      BY <3>1, <3>2
  <2>8. LinkInv(n)
    BY <1>2, <2>4, <2>6, <2>7 DEF LinkInv, IsGraph
  <2>9. \A b \in Body(n.store, n.snapshot) : b.out = s.out /\ b.class = s.class
    BY <2>2, <2>4, <2>6
  <2> QED
    BY <1>4, <2>4, <2>6, <2>8, <2>9 DEF IsManifest
<1> QED
  BY <1>3, <1>4

IsFlushed(n, s) ==
    /\ n.docs = s.docs /\ n.flushed = s.flushed /\ n.out = s.out /\ n.class = s.class
    /\ n.dirty = s.dirty /\ n.manifest = s.manifest /\ n.snapshot = s.snapshot
    /\ DOMAIN n.store.blobs = DOMAIN s.store.blobs
    /\ \A id \in DOMAIN n.store.blobs : Body(n.store, id) = Body(s.store, id)

LEMMA GraphFlush ==
    ASSUME NEW s, LinkInv(s), NEW n, n = Graph!FlushStore(s)
    PROVE  LinkInv(n) /\ IsFlushed(n, s)
<1> DEFINE st == Graph!Seg!Flush(s.store)
<1>1. n = [s EXCEPT !.store = st]
  BY DEF Graph!FlushStore
<1>2. IsGraph(s) /\ IsStore(s.store)
  BY DEF LinkInv, IsGraph
<1>3. st = Seg!Flush(s.store)
  BY DEF Graph!Seg!Flush, Seg!Flush
<1> HIDE DEF st
<1>4. IsStore(st) /\ DOMAIN st.blobs = DOMAIN s.store.blobs
      /\ \A id \in DOMAIN s.store.blobs : Body(st, id) = Body(s.store, id)
  BY <1>2, <1>3, Flushed
<1>5. /\ DOMAIN n = DOMAIN s
      /\ n.docs = s.docs /\ n.flushed = s.flushed /\ n.dirty = s.dirty /\ n.snapshot = s.snapshot
      /\ n.manifest = s.manifest /\ n.store = st
      /\ n.out = s.out /\ n.in = s.in /\ n.declared = s.declared /\ n.class = s.class
  BY <1>1, <1>2, SMTT(20) DEF IsGraph
<1>6. LinkInv(n)
  BY <1>2, <1>4, <1>5 DEF LinkInv, IsGraph
<1> QED
  BY <1>4, <1>5, <1>6 DEF IsFlushed

IsDocuments(n, s) ==
    /\ n.docs = s.docs /\ n.flushed = s.docs /\ n.out = s.out /\ n.class = s.class
    /\ n.dirty = s.dirty /\ n.manifest = s.manifest /\ n.snapshot = s.snapshot
    /\ n.store = s.store

LEMMA GraphDocuments ==
    ASSUME NEW s, LinkInv(s), NEW n, n = Graph!FlushDocuments(s)
    PROVE  LinkInv(n) /\ IsDocuments(n, s)
<1>1. IsGraph(s)
  BY DEF LinkInv
<1>2. /\ DOMAIN n = DOMAIN s
      /\ n.docs = s.docs /\ n.flushed = s.docs /\ n.dirty = s.dirty /\ n.snapshot = s.snapshot
      /\ n.manifest = s.manifest /\ n.store = s.store
      /\ n.out = s.out /\ n.in = s.in /\ n.declared = s.declared /\ n.class = s.class
  BY <1>1, SMTT(20) DEF IsGraph, Graph!FlushDocuments
<1>3. LinkInv(n)
  BY <1>1, <1>2 DEF LinkInv, IsGraph
<1> QED
  BY <1>2, <1>3 DEF IsDocuments

\* What a crash leaves: the documents of the last flush, for the keys K those
\* written since, and no edges but those of a blob.
IsCrash(n, s, K) ==
    /\ n.docs = [k \in (DOMAIN s.docs \cap K) \cup DOMAIN s.flushed |->
                    IF k \in DOMAIN s.docs \cap K THEN s.docs[k] ELSE s.flushed[k]]
    /\ n.flushed = n.docs /\ n.out = {} /\ DOMAIN n.class = {} /\ ~n.dirty
    /\ n.manifest = s.manifest /\ n.snapshot = 0
    /\ \A id : Body(n.store, id) \subseteq Body(s.store, id)

LEMMA GraphCrash ==
    ASSUME NEW s, LinkInv(s), NEW W \in Graph!Seg!Written(s.store), NEW K,
           NEW n, n = Graph!Crash(s, W, K)
    PROVE  LinkInv(n) /\ IsCrash(n, s, K)
<1> DEFINE docs == [k \in (DOMAIN s.docs \cap K) \cup DOMAIN s.flushed |->
                       IF k \in DOMAIN s.docs \cap K THEN s.docs[k] ELSE s.flushed[k]]
           st == Graph!Seg!Crash(s.store, W)
<1>1. n = [Graph!New EXCEPT !.docs = docs, !.flushed = docs, !.manifest = s.manifest, !.store = st]
  BY DEF Graph!Crash
<1>2. IsGraph(s) /\ IsStore(s.store)
  BY DEF LinkInv, IsGraph
<1>3. W \in Seg!Written(s.store) /\ st = Seg!Crash(s.store, W)
  BY DEF Graph!Seg!Written, Seg!Written, Graph!Seg!Crash, Seg!Crash,
         Graph!Seg!Hole, Seg!Hole
<1> HIDE DEF st, docs
<1>4. /\ IsStore(st)
      /\ \A id \in DOMAIN st.blobs : \A b \in Body(st, id) :
            id \in DOMAIN s.store.blobs /\ b \in Body(s.store, id)
      /\ \A id : Body(st, id) \subseteq Body(s.store, id)
  BY <1>2, <1>3, Crashed
<1>5. DOMAIN Graph!New = {"docs", "flushed", "out", "in", "declared", "nodes", "class", "dirty",
                          "snapshot", "manifest", "store"}
      /\ Graph!New.out = {} /\ Graph!New.in = {} /\ Graph!New.declared = {}
      /\ Graph!New.class = <<>> /\ Graph!New.dirty = FALSE /\ Graph!New.snapshot = 0
  BY SMTT(20) DEF Graph!New
<1>6. /\ DOMAIN n = DOMAIN Graph!New
      /\ n.docs = docs /\ n.flushed = docs /\ n.dirty = FALSE /\ n.snapshot = 0
      /\ n.manifest = s.manifest /\ n.store = st
      /\ n.out = {} /\ n.in = {} /\ n.declared = {} /\ n.class = <<>>
  BY <1>1, <1>5, SMTT(20)
<1>7. IsEdges({}) /\ Reverse({}) = {} /\ ByOwner({}) = {} /\ DOMAIN <<>> = {}
  BY SMT DEF IsEdges, Reverse, ByOwner
<1>8. IsGraph(n)
  BY <1>4, <1>5, <1>6 DEF IsGraph
<1>9. LinkInv(n)
  BY <1>4, <1>6, <1>7, <1>8 DEF LinkInv
<1> QED
  BY <1>4, <1>6, <1>7, <1>9 DEF docs, IsCrash

\* Open takes the edges of the blob the manifest names.
IsLoaded(n, s) ==
    /\ s.manifest = 0 => n = s
    /\ s.manifest # 0 =>
          /\ n.docs = s.docs /\ n.flushed = s.flushed /\ n.dirty = s.dirty
          /\ n.manifest = s.manifest /\ n.snapshot = s.manifest /\ n.store = s.store
          /\ s.manifest \in DOMAIN s.store.blobs
          /\ \E b : Body(s.store, s.manifest) = {b} /\ n.out = b.out /\ n.class = b.class

LEMMA GraphLoad ==
    ASSUME NEW s, LinkInv(s), Graph!LoadManifestOK(s), NEW n, n = Graph!LoadManifest(s)
    PROVE  LinkInv(n) /\ IsLoaded(n, s)
<1>1. CASE s.manifest = 0
  BY <1>1 DEF Graph!LoadManifest, IsLoaded
<1>2. CASE s.manifest # 0
  <2> DEFINE b == Graph!Seg!ReadBlob(s.store, s.manifest)
             p == [s EXCEPT !.snapshot = s.manifest]
  <2>1. s.manifest \in DOMAIN s.store.blobs /\ Body(s.store, s.manifest) = {b}
    BY <1>2 DEF Graph!LoadManifestOK, Graph!Seg!Decodes, Graph!Seg!ReadBlob, Body, Seg!Decodes,
                Seg!ReadBlob
  <2>2. n = [p EXCEPT !.out = b.out, !.in = Reverse(b.out), !.declared = ByOwner(b.out),
                      !.nodes = b.nodes, !.class = b.class]
    BY <1>2 DEF Graph!LoadManifest, Graph!DecodeAdjacency, Reverse, ByOwner
  <2> HIDE DEF b
  <2>3. IsGraph(s)
    BY DEF LinkInv
  <2>4. /\ DOMAIN p = DOMAIN s
        /\ p.docs = s.docs /\ p.flushed = s.flushed /\ p.dirty = s.dirty
        /\ p.manifest = s.manifest /\ p.snapshot = s.manifest /\ p.store = s.store
    BY <2>3, SMTT(20) DEF IsGraph
  <2> HIDE DEF p
  <2>5. /\ DOMAIN n = DOMAIN s
        /\ n.docs = s.docs /\ n.flushed = s.flushed /\ n.dirty = s.dirty
        /\ n.manifest = s.manifest /\ n.snapshot = s.manifest /\ n.store = s.store
        /\ n.out = b.out /\ n.in = Reverse(b.out) /\ n.declared = ByOwner(b.out) /\ n.class = b.class
    BY <2>2, <2>3, <2>4, SMTT(20) DEF IsGraph
  <2>6. IsEdges(b.out)
    BY <2>1 DEF LinkInv
  <2>7. LinkInv(n)
    BY <2>3, <2>5, <2>6 DEF LinkInv, IsGraph
  <2> QED
    BY <1>2, <2>1, <2>5, <2>7 DEF IsLoaded
<1> QED
  BY <1>1, <1>2

-----------------------------------------------------------------------------
(* Walks *)

Along(edges, S) == S \cup {e[2] : e \in {x \in edges : x[1] \in S}}

\* What a walk has seen after each number of steps.
Reaches(g, edges, root) ==
    g = [n \in 0 .. MaxWalkDepth |-> IF n = 0 THEN {root} ELSE Along(edges, g[n - 1])]

LEMMA WalkIs ==
    ASSUME NEW edges, NEW root
    PROVE  \E g : Reaches(g, edges, root) /\ Graph!Walk(edges, root) = g[MaxWalkDepth] \ {root}
<1> DEFINE N == MaxWalkDepth
           Upto(m, g) == g = [i \in 0 .. m |-> IF i = 0 THEN {root} ELSE Along(edges, g[i - 1])]
           T == {m \in 0 .. N : \E g : Upto(m, g)}
<1>0. N \in Nat
  BY IndexedAssumption
<1>1. 0 \in T
  <2>1. Upto(0, [i \in 0 .. 0 |-> {root}])
    BY SMT
  <2>2. \E g : Upto(0, g)
    <3> HIDE DEF Upto
    <3> QED
      BY <2>1
  <2> HIDE DEF Upto
  <2> QED
    BY <1>0, <2>2, SMT
<1>2. ASSUME NEW m \in 1 .. N, m - 1 \in T PROVE m \in T
  <2>1. PICK g : Upto(m - 1, g)
    BY <1>2
  <2> DEFINE h == [i \in 0 .. m |-> IF i < m THEN g[i] ELSE Along(edges, g[m - 1])]
  <2>2. ASSUME NEW i \in 0 .. m
        PROVE  h[i] = IF i = 0 THEN {root} ELSE Along(edges, h[i - 1])
    <3>1. CASE i = 0
      BY <1>0, <2>1, <3>1, SMT
    <3>2. CASE i # 0 /\ i < m
      <4>1. h[i] = g[i] /\ h[i - 1] = g[i - 1] /\ i \in 0 .. (m - 1)
        BY <1>0, <3>2, SMT
      <4>2. g[i] = Along(edges, g[i - 1])
        BY <2>1, <3>2, <4>1
      <4> QED
        BY <3>2, <4>1, <4>2
    <3>3. CASE i = m
      <4>1. h[i] = Along(edges, g[m - 1]) /\ h[i - 1] = g[m - 1]
        BY <1>0, <3>3, SMT
      <4> QED
        BY <1>0, <3>3, <4>1, SMT
    <3> QED
      BY <1>0, <3>1, <3>2, <3>3, SMT
  <2>3. Upto(m, h)
    BY <2>2
  <2>4. \E f : Upto(m, f)
    <3> HIDE DEF Upto, h
    <3> QED
      BY <2>3
  <2> HIDE DEF Upto
  <2> QED
    BY <1>0, <2>4, SMT
<1>3. N \in T
  <2>1. N \in 0 .. N
    BY <1>0, SMT
  <2> HIDE DEF T, N
  <2> QED
    BY <1>0, <1>1, <1>2, <2>1, Induct
<1>4. PICK g : Reaches(g, edges, root)
  BY <1>3 DEF Reaches
<1>5. Reaches(CHOOSE f : Reaches(f, edges, root), edges, root)
  BY <1>4
<1>6. Graph!Walk(edges, root) = (CHOOSE f : Reaches(f, edges, root))[N] \ {root}
  BY DEF Graph!Walk, Reaches, Along
<1> QED
  BY <1>5, <1>6

\* A walk down meets what a walk up from there meets it from.
LEMMA WalksAgree ==
    ASSUME NEW out, NEW in, in = Reverse(out), NEW j, NEW k,
           k \in Graph!Walk(out, j)
    PROVE  j \in Graph!Walk(in, k)
<1> DEFINE N == MaxWalkDepth
<1>0. N \in Nat
  BY IndexedAssumption
<1>1. PICK f : Reaches(f, out, j) /\ Graph!Walk(out, j) = f[N] \ {j}
  BY WalkIs
<1>2. PICK g : Reaches(g, in, k) /\ Graph!Walk(in, k) = g[N] \ {k}
  BY WalkIs
<1>3. \A i \in 1 .. N : f[i] = Along(out, f[i - 1]) /\ g[i] = Along(in, g[i - 1])
  <2>1. \A i \in 1 .. N : i \in 0 .. N /\ i # 0
    BY <1>0, SMT
  <2> QED
    BY <1>1, <1>2, <2>1 DEF Reaches
<1>4. f[0] = {j} /\ g[0] = {k} /\ k \in f[N] /\ k # j
  <2>1. 0 \in 0 .. N
    BY <1>0, SMT
  <2> QED
    BY <1>1, <1>2, <2>1 DEF Reaches
\* After i steps up the two walks have met.
<1> DEFINE T == {i \in 0 .. N : f[N - i] \cap g[i] # {}}
<1>5. 0 \in T
  <2>1. 0 \in 0 .. N /\ N - 0 = N
    BY <1>0, SMT
  <2> QED
    BY <1>4, <2>1
<1>6. ASSUME NEW i \in 1 .. N, i - 1 \in T PROVE i \in T
  <2>1. i \in 0 .. N /\ N - i \in Nat /\ N - (i - 1) \in 1 .. N /\ N - (i - 1) - 1 = N - i
    BY <1>0, SMT
  <2>2. PICK x : x \in f[N - (i - 1)] /\ x \in g[i - 1]
    BY <1>6
  <2>3. f[N - (i - 1)] = Along(out, f[N - i]) /\ g[i] = Along(in, g[i - 1])
    BY <1>3, <2>1
  <2>4. CASE x \in f[N - i]
    <3>1. x \in g[i]
      BY <2>2, <2>3 DEF Along
    <3> QED
      BY <2>1, <2>4, <3>1
  <2>5. CASE x \notin f[N - i]
    <3>1. PICK e \in out : e[1] \in f[N - i] /\ x = e[2]
      BY <2>2, <2>3, <2>5 DEF Along
    <3> DEFINE r == <<e[2], e[1], e[3]>>
    <3>2. r \in in /\ r[1] = e[2] /\ r[2] = e[1]
      BY Triples DEF Reverse
    <3> HIDE DEF r
    <3>3. e[1] \in g[i]
      BY <2>2, <2>3, <3>1, <3>2 DEF Along
    <3> QED
      BY <2>1, <3>1, <3>3
  <2> QED
    BY <2>4, <2>5
<1>7. N \in T
  <2>1. N \in 0 .. N
    BY <1>0, SMT
  <2> HIDE DEF T, N
  <2> QED
    BY <1>0, <1>5, <1>6, <2>1, Induct
<1>8. N - N = 0
  BY <1>0, SMT
<1>9. j \in g[N]
  BY <1>4, <1>7, <1>8
<1> QED
  BY <1>2, <1>4, <1>9

-----------------------------------------------------------------------------
(* The router *)

LEMMA ContinueIs ==
    ASSUME NEW t \in Threads, NEW r, req = [u \in Threads |-> req[u]], Continue(t, r)
    PROVE  /\ req' = [u \in Threads |-> req'[u]]
           /\ req'[t] = r
           /\ \A u \in Threads : u # t => req'[u] = req[u]
BY DEF Continue

LEMMA NotNone ==
    /\ None.pc = "none"
    /\ \A k, d : [pc |-> "appended", key |-> k, doc |-> d].pc = "appended"
    /\ \A p, k, d, e : [pc |-> p, key |-> k, doc |-> d, engine |-> e].pc = p
BY SMT DEF None

LEMMA RouterStep ==
    ASSUME RouterInv, [Next]_vars
    PROVE  RouterInv' /\ target' = target
<1>1. /\ target \in IndexedTargets /\ bound \in {"kv", target} /\ req = [t \in Threads |-> req[t]]
      /\ \A t \in Threads : IsRequest(target, req[t])
      /\ scanned # {} => OnGraph
      /\ pc # "up" => Busy = {} /\ scanned = {}
      /\ pc \in Flushing => todo \in {<<"up">>, <<"down">>}
  BY DEF RouterInv
<1>2. CASE UNCHANGED vars
  BY <1>1, <1>2 DEF vars, RouterInv, IsRequest, OnGraph, Busy
<1>3. CASE BindCollection
  <2>1. /\ pc = "up" /\ bound' = target
        /\ UNCHANGED <<target, req, scanned, pc, todo>>
    BY <1>3 DEF BindCollection
  <2> QED
    BY <1>1, <2>1 DEF RouterInv, IsRequest, OnGraph, Busy
<1>4. ASSUME NEW t \in Threads, NEW k \in Keys, NEW at \in Readings(target), AppendPut(t, k, at)
      PROVE  RouterInv' /\ target' = target
  <2>1. PICK d : Continue(t, [pc |-> "appended", key |-> k, doc |-> d])
    BY <1>4 DEF AppendPut
  <2>2. pc = "up" /\ UNCHANGED <<target, bound, scanned, pc, todo>>
    BY <1>4 DEF AppendPut
  <2> DEFINE r == [pc |-> "appended", key |-> k, doc |-> d]
  <2>3. r.pc = "appended"
    BY NotNone
  <2> HIDE DEF r
  <2>4. /\ req' = [u \in Threads |-> req'[u]] /\ req'[t] = r
        /\ \A u \in Threads : u # t => req'[u] = req[u]
    BY <1>1, <2>1, ContinueIs DEF r
  <2>5. \A u \in Threads : IsRequest(target, req'[u])
    BY <1>1, <2>2, <2>3, <2>4 DEF IsRequest
  <2> QED
    BY <1>1, <2>2, <2>4, <2>5 DEF RouterInv, OnGraph, Flushing
<1>5. ASSUME NEW t \in Threads, Acknowledge(t) PROVE RouterInv' /\ target' = target
  <2>1. Continue(t, None) /\ pc = "up" /\ UNCHANGED <<target, bound, scanned, pc, todo>>
    BY <1>5 DEF Acknowledge
  <2>2. /\ req' = [u \in Threads |-> req'[u]] /\ req'[t] = None
        /\ \A u \in Threads : u # t => req'[u] = req[u]
    BY <1>1, <2>1, ContinueIs
  <2>3. \A u \in Threads : IsRequest(target, req'[u])
    BY <1>1, <2>1, <2>2 DEF IsRequest
  <2> QED
    BY <1>1, <2>1, <2>2, <2>3 DEF RouterInv, OnGraph, Flushing
<1>6. CASE Shutdown
  <2>1. /\ Busy = {} /\ scanned = {} /\ pc' = "flush" /\ todo' = <<"down">>
        /\ UNCHANGED <<target, bound, req, scanned>>
    BY <1>6 DEF Shutdown
  <2> QED
    BY <1>1, <2>1 DEF RouterInv, IsRequest, OnGraph, Busy
<1>7. CASE ReplayDone
  <2>1. /\ pc = "replay" /\ pc' = "flush" /\ todo' = <<"up">>
        /\ UNCHANGED <<target, bound, req, scanned>>
    BY <1>7 DEF ReplayDone
  <2> QED
    BY <1>1, <2>1 DEF RouterInv, IsRequest, OnGraph, Busy
<1>8. ASSUME NEW t \in Threads, Materialise(t) PROVE RouterInv' /\ target' = target
  <2> DEFINE r == [pc |-> IF bound = "graph_adj" THEN "stored" ELSE "put", key |-> req[t].key,
                   doc |-> req[t].doc, engine |-> bound]
  <2>1. /\ Continue(t, r) \/ Continue(t, None)
        /\ pc = "up" /\ UNCHANGED <<target, bound, scanned, pc, todo>>
    BY <1>8 DEF Materialise, MaterialiseAs
  <2>2. r.pc = (IF bound = "graph_adj" THEN "stored" ELSE "put")
        /\ r = [pc |-> r.pc, key |-> r.key, doc |-> r.doc, engine |-> r.engine]
    BY SMT
  <2> HIDE DEF r
  <2>3. bound = "graph_adj" => OnGraph
    BY <1>1 DEF OnGraph
  <2>4. /\ req' = [u \in Threads |-> req'[u]] /\ req'[t] \in {r, None}
        /\ \A u \in Threads : u # t => req'[u] = req[u]
    BY <1>1, <2>1, ContinueIs
  <2>5. IsRequest(target, r)
    <3>1. CASE bound = "graph_adj"
      BY <2>2, <2>3, <3>1 DEF IsRequest, OnGraph
    <3>2. CASE bound # "graph_adj"
      BY <2>2, <3>2 DEF IsRequest
    <3> QED
      BY <3>1, <3>2
  <2>6. \A u \in Threads : IsRequest(target, req'[u])
    BY <1>1, <2>1, <2>4, <2>5 DEF IsRequest
  <2> QED
    BY <1>1, <2>1, <2>4, <2>6 DEF RouterInv, OnGraph, Flushing
<1>9. ASSUME NEW t \in Threads, IndexDocument(t) PROVE RouterInv' /\ target' = target
  <2> DEFINE r == [req[t] EXCEPT !.pc = "put"]
  <2>1. /\ Continue(t, r) /\ req[t].pc = "stored"
        /\ pc = "up" /\ UNCHANGED <<target, bound, scanned, pc, todo>>
    BY <1>9 DEF IndexDocument
  <2>2. req[t] = [pc |-> "stored", key |-> req[t].key, doc |-> req[t].doc, engine |-> req[t].engine]
    BY <1>1, <2>1, NotNone DEF IsRequest
  <2>3. r.pc = "put"
    BY <2>2, SMT
  <2> HIDE DEF r
  <2>4. /\ req' = [u \in Threads |-> req'[u]] /\ req'[t] = r
        /\ \A u \in Threads : u # t => req'[u] = req[u]
    BY <1>1, <2>1, ContinueIs
  <2>5. \A u \in Threads : IsRequest(target, req'[u])
    BY <1>1, <2>1, <2>3, <2>4 DEF IsRequest
  <2> QED
    BY <1>1, <2>1, <2>4, <2>5 DEF RouterInv, OnGraph, Flushing
<1>10. CASE Rebuild
  <2>1. pc = "up" /\ bound = "graph_adj" /\ UNCHANGED <<target, bound, req, pc, todo>>
    BY <1>10 DEF Rebuild, Upkeep
  <2> QED
    BY <1>1, <2>1 DEF RouterInv, IsRequest, OnGraph, Flushing
<1>11. CASE RebuildIndexes
  <2>1. pc = "up" /\ scanned' = {} /\ UNCHANGED <<target, bound, req, pc, todo>>
    BY <1>11 DEF RebuildIndexes
  <2> QED
    BY <1>1, <2>1 DEF RouterInv, IsRequest, OnGraph, Flushing
<1>12. CASE FlushStep
  <2>1. /\ pc \in Flushing /\ UNCHANGED <<target, bound, req, scanned, todo>>
        /\ pc' = CASE pc = "flush" -> "flush manifest"
                   [] pc = "flush manifest" -> "flush store"
                   [] pc = "flush store" -> todo[1]
    BY <1>12 DEF FlushStep, FlushTo
  <2>2. pc # "up" /\ todo \in {<<"up">>, <<"down">>}
    BY <1>1, <2>1 DEF Flushing
  <2> QED
    BY <1>1, <2>1, <2>2 DEF RouterInv, IsRequest, OnGraph, Busy
<1>13. CASE Crash
  <2>1. /\ UNCHANGED <<target, bound>> /\ req' = [t \in Threads |-> None] /\ scanned' = {} /\ pc' = "down"
    BY <1>13 DEF Crash, CrashTo
  <2>2. \A t \in Threads : req'[t] = None
    BY <2>1
  <2>3. req' = [t \in Threads |-> req'[t]]
    BY <2>1
  <2> QED
    BY <1>1, <2>1, <2>2, <2>3 DEF RouterInv, IsRequest, OnGraph, Busy, Flushing
<1>14. CASE Open
  <2>1. pc = "down" /\ pc' \in {"replay", "refused"} /\ UNCHANGED <<target, bound, req, scanned>>
    BY <1>14 DEF Open, OpenAs
  <2> QED
    BY <1>1, <2>1 DEF RouterInv, IsRequest, OnGraph, Busy, Flushing
<1>15. CASE Replay
  <2>1. pc = "replay" /\ UNCHANGED <<target, bound, req, scanned, pc>>
    BY <1>15 DEF Replay, ReplayPut
  <2> QED
    BY <1>1, <2>1 DEF RouterInv, IsRequest, OnGraph, Busy, Flushing
<1> QED
  BY <1>2, <1>3, <1>4, <1>5, <1>6, <1>7, <1>8, <1>9, <1>10, <1>11, <1>12, <1>13, <1>14, <1>15
     DEF Next, RouterNext

LEMMA VecStep ==
    ASSUME RouterInv, ~OnGraph, VecInv(be), [Next]_vars
    PROVE  VecInv(be')
<1>1. /\ target = "vector_hnsw_lite" /\ bound \in {"kv", target} /\ scanned = {}
      /\ \A t \in Threads : req[t].pc # "stored"
  <2>1. target = "vector_hnsw_lite" /\ bound \in {"kv", target} /\ scanned = {}
    BY DEF RouterInv, OnGraph, IndexedTargets
  <2>2. \A t \in Threads : req[t].pc # "stored"
    BY <2>1, NotNone DEF RouterInv, IsRequest
  <2> QED
    BY <2>1, <2>2
<1>2. CASE UNCHANGED be
  BY <1>2
<1>3. ASSUME NEW t \in Threads, Materialise(t) PROVE VecInv(be')
  <2>1. be' = CASE bound = "kv" -> be
                [] bound = "graph_adj" -> Graph!PutDocument(be, req[t].key, req[t].doc)
                [] bound = "vector_hnsw_lite" -> Vec!Put(be, req[t].key, req[t].doc)
    BY <1>3 DEF Materialise
  <2>2. be' = be \/ be' = Vec!Put(be, req[t].key, req[t].doc)
    BY <1>1, <2>1
  <2> QED
    BY <2>2, VecPut
<1>4. CASE FlushStep
  <2>1. pc \in {"flush", "flush manifest", "flush store"}
        /\ be' = CASE pc = "flush" -> be
                   [] pc = "flush manifest" -> Vec!FlushManifest(be)
                   [] pc = "flush store" -> Vec!FlushStore(be)
    BY <1>4 DEF FlushStep, FlushTo, Flushing
  <2>2. be' = be \/ be' = Vec!FlushManifest(be) \/ be' = Vec!FlushStore(be)
    BY <2>1
  <2> QED
    BY <2>2, VecFlush
<1>5. CASE Crash
  <2>1. PICK W \in Vec!Seg!Written(be.store) : be' = Vec!Crash(be, W)
    BY <1>5 DEF Crash, CrashTo
  <2> QED
    BY <2>1, VecCrash
<1>6. CASE Open
  <2>1. be' = be \/ (Vec!LoadManifestOK(be) /\ be' = Vec!LoadManifest(be))
    BY <1>6 DEF Open, OpenAs
  <2> QED
    BY <2>1, VecLoad
<1>7. CASE Replay
  <2> DEFINE p == ledger[Head(todo)]
  <2>1. be' = be \/ be' = Vec!Put(be, p.key, p.doc)
    BY <1>7 DEF Replay, ReplayPut
  <2> QED
    BY <2>1, VecPut
<1>8. ~Rebuild /\ ~RebuildIndexes /\ \A t \in Threads : ~IndexDocument(t)
  BY <1>1 DEF Rebuild, Upkeep, RebuildIndexes, IndexDocument
<1>9. BindCollection \/ (\E t \in Threads, k \in Keys, at \in Readings(target) : AppendPut(t, k, at))
         \/ (\E t \in Threads : Acknowledge(t)) \/ Shutdown \/ ReplayDone \/ UNCHANGED vars
      => UNCHANGED be
  BY DEF BindCollection, AppendPut, Acknowledge, Shutdown, ReplayDone, vars
<1> QED
  BY <1>2, <1>3, <1>4, <1>5, <1>6, <1>7, <1>8, <1>9 DEF Next, RouterNext

LEMMA LinkStep ==
    ASSUME RouterInv, OnGraph, LinkInv(be), [Next]_vars
    PROVE  LinkInv(be')
<1>1. target = "graph_adj" /\ bound \in {"kv", target}
  BY DEF RouterInv, OnGraph
<1>2. CASE UNCHANGED be
  BY <1>2
<1>3. ASSUME NEW t \in Threads, Materialise(t) PROVE LinkInv(be')
  <2>1. be' = CASE bound = "kv" -> be
                [] bound = "graph_adj" -> Graph!PutDocument(be, req[t].key, req[t].doc)
                [] bound = "vector_hnsw_lite" -> Vec!Put(be, req[t].key, req[t].doc)
    BY <1>3 DEF Materialise
  <2>2. be' = be \/ be' = Graph!PutDocument(be, req[t].key, req[t].doc)
    BY <1>1, <2>1
  <2>3. CASE be' = Graph!PutDocument(be, req[t].key, req[t].doc)
    BY <2>3, GraphPut
  <2> QED
    BY <2>2, <2>3
<1>4. CASE FlushStep
  <2>1. pc \in {"flush", "flush manifest", "flush store"}
        /\ be' = CASE pc = "flush" -> Graph!FlushDocuments(be)
                   [] pc = "flush manifest" -> Graph!FlushManifest(be)
                   [] pc = "flush store" -> Graph!FlushStore(be)
    BY <1>4 DEF FlushStep, FlushTo, Flushing
  <2>2. be' = Graph!FlushDocuments(be) \/ be' = Graph!FlushManifest(be) \/ be' = Graph!FlushStore(be)
    BY <2>1
  <2> QED
    BY <2>2, GraphDocuments, GraphManifest, GraphFlush
<1>5. CASE Crash
  <2>1. PICK W \in Graph!Seg!Written(be.store), K \in SUBSET Keys : be' = Graph!Crash(be, W, K)
    BY <1>5 DEF Crash, CrashTo
  <2> QED
    BY <2>1, GraphCrash
<1>6. CASE Open
  <2>1. be' = be \/ (Graph!LoadManifestOK(be) /\ be' = Graph!LoadManifest(be))
    BY <1>6 DEF Open, OpenAs
  <2> QED
    BY <2>1, GraphLoad
<1>7. CASE Replay
  <2> DEFINE p == ledger[Head(todo)]
             q == Graph!PutDocument(be, p.key, p.doc)
  <2>1. be' = be \/ be' = Graph!IndexDocumentLocked(q, p.key, p.doc)
    BY <1>7 DEF Replay, ReplayPut
  <2> HIDE DEF p
  <2>2. LinkInv(q)
    BY GraphPut
  <2> HIDE DEF q
  <2>3. CASE be' = Graph!IndexDocumentLocked(q, p.key, p.doc)
    BY <2>2, <2>3, Indexed
  <2> QED
    BY <2>1, <2>3
<1>8. ASSUME NEW t \in Threads, IndexDocument(t) PROVE LinkInv(be')
  BY <1>8, Indexed DEF IndexDocument
<1>9. CASE RebuildIndexes
  BY <1>9, Rebuilt DEF RebuildIndexes
<1>10. BindCollection \/ (\E t \in Threads, k \in Keys, at \in Readings(target) : AppendPut(t, k, at))
         \/ (\E t \in Threads : Acknowledge(t)) \/ Shutdown \/ ReplayDone \/ Rebuild \/ UNCHANGED vars
      => UNCHANGED be
  BY DEF BindCollection, AppendPut, Acknowledge, Shutdown, ReplayDone, Rebuild, vars
<1> QED
  BY <1>2, <1>3, <1>4, <1>5, <1>6, <1>7, <1>8, <1>9, <1>10 DEF Next, RouterNext

-----------------------------------------------------------------------------
(* What each operation of the graph engine does to its edges *)

LEMMA ExactOf ==
    ASSUME NEW out, NEW class, NEW docs, NEW P, Exact(out, class, docs, P),
           NEW classes, DOMAIN classes = DOMAIN class
    PROVE  Exact(out, classes, docs, P)
BY DEF Exact

LEMMA EdgePut ==
    ASSUME NEW s, LinkInv(s), NEW at \in {"up", "replay"}, NEW P, EdgeInv(s, at, P), NEW k, NEW d,
           NEW n, n = Graph!PutDocument(s, k, d)
    PROVE  EdgeInv(n, at, P \cup {k})
<1>1. /\ n.flushed = s.flushed /\ n.dirty = s.dirty /\ n.snapshot = s.snapshot
      /\ n.manifest = s.manifest /\ n.store = s.store /\ n.out = s.out /\ n.class = s.class
      /\ n.docs = [j \in DOMAIN n.docs |-> n.docs[j]]
      /\ DOMAIN n.docs = DOMAIN s.docs \cup {k}
      /\ \A j \in DOMAIN s.docs : j # k => n.docs[j] = s.docs[j]
  <2>1. IsPut(n, s, k, d)
    BY GraphPut
  <2> QED
    BY <2>1 DEF IsPut
<1>2. /\ Exact(s.out, s.class, s.docs, P) /\ Snapshotted(s) /\ Saved(s)
      /\ s.flushed = [j \in DOMAIN s.flushed |-> s.flushed[j]]
  BY DEF EdgeInv
<1>3. Exact(n.out, n.class, n.docs, P \cup {k})
  <2>1. Exact(s.out, s.class, n.docs, P \cup {k})
    <3>1. /\ DOMAIN n.docs = DOMAIN s.docs \cup {k}
          /\ \A j \in DOMAIN s.docs : j # k => n.docs[j] = s.docs[j]
          /\ Exact(s.out, s.class, s.docs, P)
      BY <1>1, <1>2
    <3> QED
      BY <3>1, ExactPut
  <2> QED
    BY <1>1, <2>1
<1>4. Snapshotted(n) /\ Saved(n)
  BY <1>1, <1>2 DEF Snapshotted, Saved
<1>5. n.flushed = [j \in DOMAIN n.flushed |-> n.flushed[j]]
  BY <1>1, <1>2
<1> QED
  BY <1>1, <1>3, <1>4, <1>5 DEF EdgeInv

LEMMA EdgeIndex ==
    ASSUME NEW s, LinkInv(s), NEW at \in {"up", "replay"}, NEW P, EdgeInv(s, at, P),
           NEW k \in DOMAIN s.docs, NEW n, n = Graph!IndexDocumentLocked(s, k, s.docs[k])
    PROVE  EdgeInv(n, at, P \ {k})
<1>1. /\ n.docs = s.docs /\ n.flushed = s.flushed /\ n.dirty = TRUE /\ n.snapshot = s.snapshot
      /\ n.manifest = s.manifest /\ n.store = s.store
  <2>1. IsIndexed(n, s, k, s.docs[k])
    BY Indexed
  <2> QED
    BY <2>1 DEF IsIndexed
<1>a. Reindexed(n.out, n.class, s.out, s.class, k, s.docs[k])
  <2>1. IsIndexed(n, s, k, s.docs[k])
    BY Indexed
  <2> QED
    BY <2>1 DEF IsIndexed
<1>2. /\ Exact(s.out, s.class, s.docs, P) /\ Snapshotted(s) /\ Saved(s)
      /\ s.flushed = [j \in DOMAIN s.flushed |-> s.flushed[j]]
      /\ s.docs = [j \in DOMAIN s.docs |-> s.docs[j]]
  BY DEF EdgeInv
<1>3. Exact(n.out, n.class, n.docs, P \ {k})
  <2>1. Exact(n.out, n.class, s.docs, P \ {k})
    BY <1>a, <1>2, ExactIndex
  <2> QED
    BY <1>1, <2>1
<1>4. Snapshotted(n) /\ Saved(n)
  BY <1>1, <1>2 DEF Snapshotted, Saved
<1>5. /\ n.flushed = [j \in DOMAIN n.flushed |-> n.flushed[j]]
      /\ n.docs = [j \in DOMAIN n.docs |-> n.docs[j]]
  BY <1>1, <1>2
<1> QED
  BY <1>3, <1>4, <1>5 DEF EdgeInv

LEMMA EdgeRebuild ==
    ASSUME NEW s, LinkInv(s), NEW P, EdgeInv(s, "up", P), NEW n, n = Graph!RebuildFrom(s, s.docs)
    PROVE  EdgeInv(n, "up", {})
<1>1. /\ n.docs = s.docs /\ n.flushed = s.flushed /\ n.dirty = TRUE /\ n.snapshot = s.snapshot
      /\ n.manifest = s.manifest /\ n.store = s.store
      /\ Exact(n.out, n.class, s.docs, {})
  <2>1. IsRebuilt(n, s, s.docs)
    BY Rebuilt
  <2> QED
    BY <2>1 DEF IsRebuilt
<1>2. /\ Snapshotted(s) /\ Saved(s)
      /\ s.flushed = [j \in DOMAIN s.flushed |-> s.flushed[j]]
      /\ s.docs = [j \in DOMAIN s.docs |-> s.docs[j]]
  BY DEF EdgeInv
<1>3. Snapshotted(n) /\ Saved(n) /\ Exact(n.out, n.class, n.docs, {})
  BY <1>1, <1>2 DEF Snapshotted, Saved
<1>4. /\ n.flushed = [j \in DOMAIN n.flushed |-> n.flushed[j]]
      /\ n.docs = [j \in DOMAIN n.docs |-> n.docs[j]]
  BY <1>1, <1>2
<1> QED
  BY <1>3, <1>4 DEF EdgeInv

\* The documents first: what the manifest names is theirs only if the edges
\* did not change since.
LEMMA EdgeDocuments ==
    ASSUME NEW s, LinkInv(s), EdgeInv(s, "flush", {}), NEW n, n = Graph!FlushDocuments(s)
    PROVE  EdgeInv(n, "flush manifest", {})
<1>1. /\ n.docs = s.docs /\ n.flushed = s.docs /\ n.out = s.out /\ n.class = s.class
      /\ n.dirty = s.dirty /\ n.manifest = s.manifest /\ n.snapshot = s.snapshot
      /\ n.store = s.store
  <2>1. IsDocuments(n, s)
    BY GraphDocuments
  <2> QED
    BY <2>1 DEF IsDocuments
<1>2. /\ Snapshotted(s) /\ Exact(s.out, s.class, s.docs, {})
      /\ s.docs = [j \in DOMAIN s.docs |-> s.docs[j]]
  BY DEF EdgeInv
<1>3. Snapshotted(n) /\ Exact(n.out, n.class, n.docs, {})
  BY <1>1, <1>2 DEF Snapshotted
<1>4. ASSUME ~n.dirty PROVE Saved(n)
  <2>1. CASE n.manifest = 0
    <3>1. n.out = {} /\ DOMAIN n.class = {} /\ DOMAIN <<>> = {}
      <4>1. DOMAIN <<>> = {}
        BY SMT
      <4> QED
        BY <1>3, <1>4, <2>1, <4>1 DEF Snapshotted
    <3>2. Exact(n.out, <<>>, n.docs, {})
      BY <1>3, <3>1, ExactOf
    <3> QED
      BY <1>1, <2>1, <3>1, <3>2 DEF Saved
  <2>2. CASE n.manifest # 0
    <3>1. \A b \in Body(n.store, n.manifest) : b.out = n.out /\ b.class = n.class
      BY <1>3, <1>4, <2>2 DEF Snapshotted
    <3> QED
      BY <1>1, <1>3, <2>2, <3>1 DEF Saved
  <2> QED
    BY <2>1, <2>2
<1>5. /\ n.flushed = n.docs /\ n.docs = [j \in DOMAIN n.docs |-> n.docs[j]]
      /\ n.flushed = [j \in DOMAIN n.flushed |-> n.flushed[j]]
  BY <1>1, <1>2
<1> QED
  BY <1>3, <1>4, <1>5 DEF EdgeInv

\* Then the manifest: it names the edges of the documents just written.
LEMMA EdgeManifest ==
    ASSUME NEW s, LinkInv(s), EdgeInv(s, "flush manifest", {}), NEW n, n = Graph!FlushManifest(s)
    PROVE  EdgeInv(n, "flush store", {})
<1>1. /\ n.docs = s.docs /\ n.flushed = s.flushed /\ n.out = s.out /\ n.class = s.class
      /\ ~n.dirty /\ n.manifest = n.snapshot
      /\ ~s.dirty => n.snapshot = s.snapshot /\ n.store = s.store
      /\ s.dirty => /\ n.snapshot # 0 /\ n.snapshot \in DOMAIN n.store.blobs
                    /\ \A b \in Body(n.store, n.snapshot) : b.out = s.out /\ b.class = s.class
  <2>1. IsManifest(n, s)
    BY GraphManifest
  <2> QED
    BY <2>1 DEF IsManifest
<1>2. /\ Snapshotted(s) /\ Exact(s.out, s.class, s.docs, {}) /\ s.flushed = s.docs
      /\ s.docs = [j \in DOMAIN s.docs |-> s.docs[j]]
      /\ ~s.dirty => Saved(s)
  BY DEF EdgeInv
<1>3. Exact(n.out, n.class, n.flushed, {})
  BY <1>1, <1>2
<1>4. Snapshotted(n)
  <2>1. CASE s.dirty
    BY <1>1, <2>1 DEF Snapshotted
  <2>2. CASE ~s.dirty
    BY <1>1, <1>2, <2>2 DEF Snapshotted
  <2> QED
    BY <2>1, <2>2
<1>5. Saved(n)
  <2>1. CASE s.dirty
    <3>1. n.manifest # 0 /\ \A b \in Body(n.store, n.manifest) : b.out = n.out /\ b.class = n.class
      BY <1>1, <2>1
    <3> QED
      BY <1>3, <3>1 DEF Saved
  <2>2. CASE ~s.dirty
    <3>1. n.manifest = s.manifest /\ n.store = s.store /\ Saved(s)
      BY <1>1, <1>2, <2>2 DEF Snapshotted
    <3> QED
      BY <1>1, <3>1 DEF Saved
  <2> QED
    BY <2>1, <2>2
<1>6. /\ n.flushed = n.docs /\ n.docs = [j \in DOMAIN n.docs |-> n.docs[j]]
      /\ n.flushed = [j \in DOMAIN n.flushed |-> n.flushed[j]]
  BY <1>1, <1>2
<1>7. Exact(n.out, n.class, n.docs, {})
  BY <1>3, <1>6
<1> QED
  BY <1>1, <1>4, <1>5, <1>6, <1>7 DEF EdgeInv

LEMMA EdgeStore ==
    ASSUME NEW s, LinkInv(s), EdgeInv(s, "flush store", {}), NEW n, n = Graph!FlushStore(s),
           NEW at \in {"up", "down"}
    PROVE  EdgeInv(n, at, {})
<1>1. /\ n.docs = s.docs /\ n.flushed = s.flushed /\ n.out = s.out /\ n.class = s.class
      /\ n.dirty = s.dirty /\ n.manifest = s.manifest /\ n.snapshot = s.snapshot
      /\ DOMAIN n.store.blobs = DOMAIN s.store.blobs
      /\ \A id \in DOMAIN n.store.blobs : Body(n.store, id) = Body(s.store, id)
  <2>1. IsFlushed(n, s)
    BY GraphFlush
  <2> QED
    BY <2>1 DEF IsFlushed
<1>2. /\ Snapshotted(s) /\ Exact(s.out, s.class, s.docs, {}) /\ s.flushed = s.docs
      /\ s.docs = [j \in DOMAIN s.docs |-> s.docs[j]]
      /\ ~s.dirty /\ Saved(s)
  BY DEF EdgeInv
<1>3. n.manifest # 0 => Body(n.store, n.manifest) = Body(s.store, s.manifest)
                        /\ n.manifest \in DOMAIN n.store.blobs
  BY <1>1, <1>2 DEF Snapshotted
<1>4. Snapshotted(n)
  BY <1>1, <1>2, <1>3 DEF Snapshotted
<1>5. Saved(n)
  BY <1>1, <1>2, <1>3 DEF Saved
<1>6. /\ n.flushed = n.docs /\ n.docs = [j \in DOMAIN n.docs |-> n.docs[j]]
      /\ n.flushed = [j \in DOMAIN n.flushed |-> n.flushed[j]]
      /\ ~n.dirty /\ Exact(n.out, n.class, n.docs, {})
  BY <1>1, <1>2
<1>7. n.manifest = 0 => n.out = {} /\ DOMAIN n.class = {} /\ n.snapshot = 0
  BY <1>4, <1>6 DEF Snapshotted
<1> QED
  BY <1>4, <1>5, <1>6, <1>7 DEF EdgeInv

\* A crash that keeps no document written since the last flush leaves what
\* that flush wrote.
LEMMA EdgeCrash ==
    ASSUME NEW s, LinkInv(s), NEW at, at \notin {"down", "refused"}, NEW P, EdgeInv(s, at, P),
           NEW W \in Graph!Seg!Written(s.store), NEW K,
           \A k \in K \cap DOMAIN s.docs : k \in DOMAIN s.flushed /\ s.flushed[k] = s.docs[k],
           ~(at = "flush manifest" /\ s.dirty),
           NEW n, n = Graph!Crash(s, W, K)
    PROVE  EdgeInv(n, "down", {})
<1>1. IsCrash(n, s, K)
  BY GraphCrash
<1>2. Saved(s) /\ s.flushed = [j \in DOMAIN s.flushed |-> s.flushed[j]]
  BY DEF EdgeInv
<1> DEFINE held == (DOMAIN s.docs \cap K) \cup DOMAIN s.flushed
           docs == [k \in held |-> IF k \in DOMAIN s.docs \cap K THEN s.docs[k] ELSE s.flushed[k]]
<1>3. docs = s.flushed
  <2>1. held = DOMAIN s.flushed
    OBVIOUS
  <2>2. \A k \in DOMAIN s.flushed : docs[k] = s.flushed[k]
    OBVIOUS
  <2>3. docs = [k \in DOMAIN s.flushed |-> docs[k]]
    BY <2>1
  <2> HIDE DEF docs
  <2>4. [k \in DOMAIN s.flushed |-> docs[k]] = [k \in DOMAIN s.flushed |-> s.flushed[k]]
    BY <2>2
  <2> QED
    BY <1>2, <2>3, <2>4
<1>4. /\ n.docs = docs /\ n.flushed = n.docs /\ n.out = {} /\ DOMAIN n.class = {} /\ ~n.dirty
      /\ n.manifest = s.manifest /\ n.snapshot = 0
      /\ \A id : Body(n.store, id) \subseteq Body(s.store, id)
  BY <1>1 DEF IsCrash
<1> HIDE DEF docs
<1>5. n.docs = s.flushed /\ n.flushed = s.flushed
  BY <1>3, <1>4
<1>6. Saved(n)
  BY <1>2, <1>4, <1>5 DEF Saved
<1>7. n.docs = [j \in DOMAIN n.docs |-> n.docs[j]] /\ n.flushed = [j \in DOMAIN n.flushed |-> n.flushed[j]]
  BY <1>2, <1>5
<1> QED
  BY <1>4, <1>6, <1>7 DEF EdgeInv

\* Open restores the edges of the documents in the file.
LEMMA EdgeLoad ==
    ASSUME NEW s, LinkInv(s), EdgeInv(s, "down", {}), Graph!LoadManifestOK(s),
           NEW n, n = Graph!LoadManifest(s)
    PROVE  EdgeInv(n, "replay", {})
<1>1. /\ Saved(s) /\ s.flushed = s.docs /\ ~s.dirty
      /\ s.manifest = 0 => s.out = {} /\ DOMAIN s.class = {} /\ s.snapshot = 0
      /\ s.docs = [j \in DOMAIN s.docs |-> s.docs[j]]
      /\ s.flushed = [j \in DOMAIN s.flushed |-> s.flushed[j]]
  BY DEF EdgeInv
<1>2. IsLoaded(n, s)
  BY GraphLoad
<1>3. CASE s.manifest = 0
  <2>1. n = s
    BY <1>2, <1>3 DEF IsLoaded
  <2>2. Exact(s.out, <<>>, s.docs, {})
    BY <1>1, <1>3 DEF Saved
  <2>3. DOMAIN s.class = DOMAIN <<>>
    <3>1. DOMAIN <<>> = {}
      BY SMT
    <3> QED
      BY <1>1, <1>3, <3>1
  <2>4. Exact(s.out, s.class, s.docs, {})
    BY <2>2, <2>3, ExactOf
  <2>5. Snapshotted(s)
    BY <1>1, <1>3 DEF Snapshotted
  <2> QED
    BY <1>1, <2>1, <2>4, <2>5 DEF EdgeInv
<1>4. CASE s.manifest # 0
  <2>1. PICK b : Body(s.store, s.manifest) = {b} /\ n.out = b.out /\ n.class = b.class
    BY <1>2, <1>4 DEF IsLoaded
  <2>2. /\ n.docs = s.docs /\ n.flushed = s.flushed /\ n.dirty = s.dirty
        /\ n.manifest = s.manifest /\ n.snapshot = s.manifest /\ n.store = s.store
        /\ s.manifest \in DOMAIN s.store.blobs
    BY <1>2, <1>4 DEF IsLoaded
  <2>3. Exact(b.out, b.class, s.flushed, {})
    BY <1>1, <1>4, <2>1 DEF Saved
  <2>4. Exact(n.out, n.class, n.docs, {})
    BY <1>1, <2>1, <2>2, <2>3
  <2>5. Saved(n)
    BY <1>1, <1>4, <2>2 DEF Saved
  <2>6. Snapshotted(n)
    BY <1>4, <2>1, <2>2 DEF Snapshotted
  <2>7. n.docs = [j \in DOMAIN n.docs |-> n.docs[j]] /\ n.flushed = [j \in DOMAIN n.flushed |-> n.flushed[j]]
    BY <1>1, <2>2
  <2> QED
    BY <2>4, <2>5, <2>6, <2>7 DEF EdgeInv
<1> QED
  BY <1>3, <1>4

LEMMA Halves ==
    ASSUME Busy = {}
    PROVE  Halfway = {}
BY NotNone DEF Busy, Halfway

LEMMA GraphStep ==
    ASSUME RouterInv, OnGraph, LinkInv(be), raced = {} /\ ~torn => GraphInv, [Next]_vars,
           raced' = {}, ~torn'
    PROVE  GraphInv'
<1>1. raced = {} /\ ~torn
  <2> DEFINE Same == raced = {} /\ ~torn
  <2>1. ASSUME NEW t \in Threads, Acknowledge(t) PROVE Same
    BY <2>1 DEF Acknowledge
  <2>2. ASSUME NEW t \in Threads, Materialise(t) PROVE Same
    BY <2>2 DEF Materialise, MaterialiseAs
  <2>3. ASSUME NEW t \in Threads, IndexDocument(t) PROVE Same
    BY <2>3 DEF IndexDocument
  <2>4. ASSUME NEW t \in Threads, NEW k \in Keys, NEW at \in Readings(target), AppendPut(t, k, at)
        PROVE  Same
    BY <2>4 DEF AppendPut
  <2>5. ASSUME UNCHANGED vars PROVE Same
    BY <2>5 DEF vars
  <2>6. ASSUME BindCollection PROVE Same
    BY <2>6 DEF BindCollection
  <2>7. ASSUME Shutdown PROVE Same
    BY <2>7 DEF Shutdown
  <2>8. ASSUME ReplayDone PROVE Same
    BY <2>8 DEF ReplayDone
  <2>9. ASSUME Rebuild PROVE Same
    BY <2>9 DEF Rebuild, Upkeep
  <2>10. ASSUME RebuildIndexes PROVE Same
    BY <2>10 DEF RebuildIndexes
  <2>11. ASSUME FlushStep PROVE Same
    BY <2>11 DEF FlushStep, FlushTo
  <2>12. ASSUME Crash PROVE Same
    BY <2>12 DEF Crash, CrashTo
  <2>13. ASSUME Open PROVE Same
    BY <2>13 DEF Open, OpenAs
  <2>14. ASSUME Replay PROVE Same
    BY <2>14 DEF Replay, ReplayPut
  <2> HIDE DEF Same
  <2>15. Same
    BY <2>1, <2>2, <2>3, <2>4, <2>5, <2>6, <2>7, <2>8, <2>9, <2>10, <2>11, <2>12, <2>13, <2>14
       DEF Next, RouterNext
  <2> QED
    BY <2>15 DEF Same
<1>2. EdgeInv(be, pc, Halfway) /\ RequestInv
  BY <1>1 DEF GraphInv
<1>3. /\ target = "graph_adj" /\ bound \in {"kv", target} /\ req = [t \in Threads |-> req[t]]
      /\ \A t \in Threads : IsRequest(target, req[t])
      /\ pc # "up" => Busy = {} /\ scanned = {}
      /\ pc \in Flushing => todo \in {<<"up">>, <<"down">>}
  BY DEF RouterInv, OnGraph
<1>4. ASSUME UNCHANGED <<be, req, scanned>>, pc' = pc \/ (pc \in {"up", "replay"} /\ pc' = "flush")
      PROVE  GraphInv'
  <2>1. Halfway' = Halfway /\ Busy' = Busy
    BY <1>4 DEF Halfway, Busy
  <2>2. RequestInv'
    BY <1>2, <1>4, <2>1 DEF RequestInv
  <2>3. EdgeInv(be, pc', Halfway)
    BY <1>2, <1>4 DEF EdgeInv
  <2> QED
    BY <1>4, <2>1, <2>2, <2>3 DEF GraphInv
<1>5. CASE UNCHANGED vars \/ BindCollection \/ Shutdown \/ ReplayDone
  <2>1. UNCHANGED <<be, req, scanned>> /\ (pc' = pc \/ (pc \in {"up", "replay"} /\ pc' = "flush"))
    BY <1>5 DEF vars, BindCollection, Shutdown, ReplayDone
  <2> QED
    BY <1>4, <2>1
<1>6. ASSUME NEW t \in Threads, NEW k \in Keys, NEW at \in Readings(target), AppendPut(t, k, at)
      PROVE  GraphInv'
  <2>1. PICK d : Continue(t, [pc |-> "appended", key |-> k, doc |-> d])
    BY <1>6 DEF AppendPut
  <2>2. /\ UNCHANGED <<be, scanned, pc>> /\ req[t] = None
        /\ raced' = raced \cup {req[u].key : u \in {u \in Busy : req[u].key = k}}
                          \cup (IF scanned = {} THEN {} ELSE {k})
    BY <1>6 DEF AppendPut
  <2>3. scanned = {} /\ \A u \in Busy : req[u].key # k
    BY <2>2
  <2> DEFINE r == [pc |-> "appended", key |-> k, doc |-> d]
  <2>4. r.pc = "appended" /\ r.key = k
    BY SMT
  <2> HIDE DEF r
  <2>5. /\ req' = [u \in Threads |-> req'[u]] /\ req'[t] = r
        /\ \A u \in Threads : u # t => req'[u] = req[u]
    BY <1>3, <2>1, ContinueIs DEF r
  <2>6. \A u \in Threads : req'[u].pc = "stored" => u # t /\ req'[u] = req[u]
    BY <2>4, <2>5
  <2>7. \A u \in Threads : req[u].pc = "stored" => u # t /\ req'[u] = req[u]
    BY <2>2, <2>5, NotNone
  <2>8. Halfway' = Halfway
    BY <2>6, <2>7 DEF Halfway
  <2>9. \A u \in Busy' : u = t \/ (u \in Busy /\ req'[u] = req[u] /\ u # t)
    BY <2>5 DEF Busy
  <2>10. RequestInv'
    <3>1. ASSUME NEW u \in Busy', NEW w \in Busy', req'[u].key = req'[w].key PROVE u = w
      <4>1. CASE u = t
        BY <2>3, <2>4, <2>5, <2>9, <3>1, <4>1
      <4>2. CASE w = t
        BY <2>3, <2>4, <2>5, <2>9, <3>1, <4>2
      <4>3. CASE u # t /\ w # t
        BY <1>2, <2>9, <3>1, <4>3 DEF RequestInv
      <4> QED
        BY <4>1, <4>2, <4>3
    <3>2. \A u \in Threads : req'[u].pc = "stored" =>
             req'[u].key \in DOMAIN be'.docs /\ be'.docs[req'[u].key] = req'[u].doc
      BY <1>2, <2>2, <2>6 DEF RequestInv
    <3> QED
      BY <2>2, <2>3, <3>1, <3>2 DEF RequestInv
  <2> QED
    BY <1>2, <2>2, <2>8, <2>10 DEF GraphInv
<1>7. ASSUME NEW t \in Threads, UNCHANGED <<be, scanned, pc>>, req[t].pc \in {"appended", "put"},
             req' = [u \in Threads |-> req'[u]], \A u \in Threads : u # t => req'[u] = req[u],
             req'[t] = None \/ (req'[t].pc = "put" /\ req'[t].key = req[t].key)
      PROVE  GraphInv'
  <2>1. t \in Busy /\ scanned = {}
    <3>1. t \in Busy
      BY <1>7, NotNone DEF Busy
    <3> QED
      BY <1>2, <3>1 DEF RequestInv
  <2>2. \A u \in Threads : req'[u].pc = "stored" => u # t /\ req'[u] = req[u]
    BY <1>7, NotNone
  <2>3. \A u \in Threads : req[u].pc = "stored" => u # t /\ req'[u] = req[u]
    BY <1>7
  <2>4. Halfway' = Halfway
    BY <2>2, <2>3 DEF Halfway
  <2>5. \A u \in Busy' : u \in Busy /\ req'[u].key = req[u].key
    BY <1>7, <2>1 DEF Busy
  <2>6. RequestInv'
    <3>1. \A u, w \in Busy' : req'[u].key = req'[w].key => u = w
      BY <1>2, <2>5 DEF RequestInv
    <3>2. \A u \in Threads : req'[u].pc = "stored" =>
             req'[u].key \in DOMAIN be'.docs /\ be'.docs[req'[u].key] = req'[u].doc
      BY <1>2, <1>7, <2>2 DEF RequestInv
    <3> QED
      BY <1>7, <2>1, <3>1, <3>2 DEF RequestInv
  <2> QED
    BY <1>2, <1>7, <2>4, <2>6 DEF GraphInv
<1>8. ASSUME NEW t \in Threads, Acknowledge(t) PROVE GraphInv'
  <2>1. Continue(t, None) /\ req[t].pc = "put" /\ UNCHANGED <<be, scanned, pc>>
    BY <1>8 DEF Acknowledge
  <2>2. /\ req' = [u \in Threads |-> req'[u]] /\ req'[t] = None
        /\ \A u \in Threads : u # t => req'[u] = req[u]
    BY <1>3, <2>1, ContinueIs
  <2> QED
    BY <1>7, <2>1, <2>2
<1>9. ASSUME NEW t \in Threads, Materialise(t) PROVE GraphInv'
  <2> DEFINE r == [pc |-> IF bound = "graph_adj" THEN "stored" ELSE "put", key |-> req[t].key,
                   doc |-> req[t].doc, engine |-> bound]
  <2>1. /\ pc = "up" /\ req[t].pc = "appended" /\ UNCHANGED <<scanned, pc>>
        /\ Accepts(req[t].doc) => Continue(t, r)
        /\ ~Accepts(req[t].doc) => Continue(t, None)
    BY <1>9 DEF Materialise, MaterialiseAs
  <2>2. Accepts(req[t].doc)
    BY <1>3 DEF Accepts
  <2>3. /\ r.pc = (IF bound = "graph_adj" THEN "stored" ELSE "put")
        /\ r.key = req[t].key /\ r.doc = req[t].doc
    BY SMT
  <2> HIDE DEF r
  <2>4. /\ req' = [u \in Threads |-> req'[u]] /\ req'[t] = r
        /\ \A u \in Threads : u # t => req'[u] = req[u]
    BY <1>3, <2>1, <2>2, ContinueIs
  <2>5. CASE bound = "kv"
    <3>1. be' = be
      BY <1>9, <2>5 DEF Materialise
    <3>2. r.pc = "put"
      BY <2>3, <2>5
    <3> QED
      BY <1>7, <2>1, <2>3, <2>4, <3>1, <3>2
  <2>6. CASE bound # "kv"
    <3>1. bound = "graph_adj"
      BY <1>3, <2>6
    <3> DEFINE k == req[t].key
               d == req[t].doc
    <3>2. be' = Graph!PutDocument(be, k, d)
      <4>1. be' = CASE bound = "kv" -> be
                    [] bound = "graph_adj" -> Graph!PutDocument(be, req[t].key, req[t].doc)
                    [] bound = "vector_hnsw_lite" -> Vec!Put(be, req[t].key, req[t].doc)
        BY <1>9 DEF Materialise
      <4> QED
        BY <3>1, <4>1
    <3>3. r.pc = "stored" /\ r.key = k /\ r.doc = d
      BY <2>3, <3>1
    <3> HIDE DEF k, d
    <3>4. IsPut(be', be, k, d)
      BY <3>2, GraphPut
    <3>5. t \in Busy /\ scanned = {}
      <4>1. t \in Busy
        BY <2>1, NotNone DEF Busy
      <4> QED
        BY <1>2, <4>1 DEF RequestInv
    <3>6. \A u \in Busy : u # t => req[u].key # k
      BY <1>2, <3>5 DEF RequestInv, k
    <3>7. \A u \in Threads : req[u].pc = "stored" => u \in Busy /\ u # t /\ req'[u] = req[u]
      BY <2>1, <2>4, NotNone DEF Busy
    <3>8. Halfway' = Halfway \cup {k}
      <4>1. ASSUME NEW x \in Halfway' PROVE x \in Halfway \cup {k}
        <5>1. PICK u \in Threads : req'[u].pc = "stored" /\ x = req'[u].key
          BY <4>1 DEF Halfway
        <5>2. CASE u = t
          BY <2>4, <3>3, <5>1, <5>2
        <5>3. CASE u # t
          BY <2>4, <5>1, <5>3 DEF Halfway
        <5> QED
          BY <5>2, <5>3
      <4>2. ASSUME NEW x \in Halfway PROVE x \in Halfway'
        <5>1. PICK u \in Threads : req[u].pc = "stored" /\ x = req[u].key
          BY <4>2 DEF Halfway
        <5> QED
          BY <3>7, <5>1 DEF Halfway
      <4>3. k \in Halfway'
        BY <2>4, <3>3 DEF Halfway
      <4> QED
        BY <4>1, <4>2, <4>3
    <3>9. EdgeInv(be', pc', Halfway')
      <4>1. EdgeInv(be, "up", Halfway)
        BY <1>2, <2>1
      <4>2. EdgeInv(be', "up", Halfway \cup {k})
        BY <3>2, <4>1, EdgePut
      <4> QED
        BY <2>1, <3>8, <4>2
    <3>10. ASSUME NEW u \in Threads, req'[u].pc = "stored"
           PROVE  req'[u].key \in DOMAIN be'.docs /\ be'.docs[req'[u].key] = req'[u].doc
      <4>1. CASE u = t
        BY <2>4, <3>3, <3>4, <4>1 DEF IsPut
      <4>2. CASE u # t
        <5>1. req'[u] = req[u] /\ req[u].pc = "stored"
          BY <2>4, <3>10, <4>2
        <5>2. u \in Busy /\ req[u].key # k
          BY <3>6, <3>7, <4>2, <5>1
        <5>3. req[u].key \in DOMAIN be.docs /\ be.docs[req[u].key] = req[u].doc
          BY <1>2, <5>1 DEF RequestInv
        <5> QED
          BY <3>4, <5>1, <5>2, <5>3 DEF IsPut
      <4> QED
        BY <4>1, <4>2
    <3>11. \A u \in Busy' : u \in Busy /\ req'[u].key = req[u].key
      BY <2>4, <3>3, <3>5 DEF Busy, k
    <3>12. \A u, w \in Busy' : req'[u].key = req'[w].key => u = w
      BY <1>2, <3>11 DEF RequestInv
    <3>13. scanned' = {}
      BY <2>1, <3>5
    <3>14. RequestInv'
      BY <3>10, <3>12, <3>13 DEF RequestInv
    <3> QED
      BY <3>9, <3>14 DEF GraphInv
  <2> QED
    BY <2>5, <2>6
<1>10. ASSUME NEW t \in Threads, IndexDocument(t) PROVE GraphInv'
  <2> DEFINE r == [req[t] EXCEPT !.pc = "put"]
             k == req[t].key
  <2>1. /\ Continue(t, r) /\ req[t].pc = "stored" /\ pc = "up" /\ UNCHANGED <<scanned, pc>>
        /\ be' = Graph!IndexDocumentLocked(be, k, req[t].doc)
    BY <1>10 DEF IndexDocument
  <2>2. req[t] = [pc |-> "stored", key |-> req[t].key, doc |-> req[t].doc, engine |-> req[t].engine]
    BY <1>3, <2>1, NotNone DEF IsRequest
  <2>3. r.pc = "put" /\ r.key = k
    BY <2>2, SMT
  <2> HIDE DEF r
  <2>4. /\ req' = [u \in Threads |-> req'[u]] /\ req'[t] = r
        /\ \A u \in Threads : u # t => req'[u] = req[u]
    BY <1>3, <2>1, ContinueIs
  <2>5. k \in DOMAIN be.docs /\ be.docs[k] = req[t].doc
    BY <1>2, <2>1 DEF RequestInv
  <2>6. t \in Busy /\ scanned = {} /\ \A u \in Busy : u # t => req[u].key # k
    <3>1. t \in Busy
      BY <2>1, NotNone DEF Busy
    <3> QED
      BY <1>2, <3>1 DEF RequestInv
  <2> HIDE DEF k
  <2>7. be' = Graph!IndexDocumentLocked(be, k, be.docs[k])
    BY <2>1, <2>5
  <2>8. IsIndexed(be', be, k, be.docs[k])
    BY <2>7, Indexed
  <2>9. be'.docs = be.docs
    BY <2>8 DEF IsIndexed
  <2>10. \A u \in Threads : req'[u].pc = "stored" => u # t /\ req'[u] = req[u]
    BY <2>3, <2>4
  <2>11. \A u \in Threads : u # t /\ req[u].pc = "stored" => u \in Busy /\ req'[u] = req[u] /\ req[u].key # k
    BY <2>4, <2>6, NotNone DEF Busy
  <2>12. Halfway' = Halfway \ {k}
    <3>1. ASSUME NEW x \in Halfway' PROVE x \in Halfway \ {k}
      <4>1. PICK u \in Threads : req'[u].pc = "stored" /\ x = req'[u].key
        BY <3>1 DEF Halfway
      <4>2. u # t /\ req'[u] = req[u] /\ req[u].pc = "stored" /\ req[u].key # k
        BY <2>10, <2>11, <4>1
      <4> QED
        BY <4>1, <4>2 DEF Halfway
    <3>2. ASSUME NEW x \in Halfway, x # k PROVE x \in Halfway'
      <4>1. PICK u \in Threads : req[u].pc = "stored" /\ x = req[u].key
        BY <3>2 DEF Halfway
      <4>2. u # t
        BY <3>2, <4>1 DEF k
      <4>3. req'[u] = req[u]
        BY <2>11, <4>1, <4>2
      <4> QED
        BY <4>1, <4>3 DEF Halfway
    <3> QED
      BY <3>1, <3>2
  <2>13. EdgeInv(be', pc', Halfway')
    <3>1. EdgeInv(be, "up", Halfway)
      BY <1>2, <2>1
    <3>2. EdgeInv(be', "up", Halfway \ {k})
      BY <2>5, <2>7, <3>1, EdgeIndex
    <3> QED
      BY <2>1, <2>12, <3>2
  <2>14. \A u \in Busy' : u \in Busy /\ req'[u].key = req[u].key
    BY <2>3, <2>4, <2>6 DEF Busy, k
  <2>15. \A u, w \in Busy' : req'[u].key = req'[w].key => u = w
    BY <1>2, <2>14 DEF RequestInv
  <2>16. \A u \in Threads : req'[u].pc = "stored" =>
            req'[u].key \in DOMAIN be'.docs /\ be'.docs[req'[u].key] = req'[u].doc
    BY <1>2, <2>9, <2>10 DEF RequestInv
  <2>17. scanned' = {}
    BY <2>1, <2>6
  <2>18. RequestInv'
    BY <2>15, <2>16, <2>17 DEF RequestInv
  <2> QED
    BY <2>13, <2>18 DEF GraphInv
<1>11. CASE Rebuild
  <2>1. /\ UNCHANGED <<be, req, pc>> /\ scanned' = {be.docs}
        /\ raced' = raced \cup {req[t].key : t \in Busy}
    BY <1>11 DEF Rebuild, Upkeep, Graph!Scan
  <2>2. Busy = {}
    BY <2>1
  <2>3. Halfway' = Halfway /\ Busy' = Busy
    BY <2>1 DEF Halfway, Busy
  <2>4. RequestInv'
    BY <1>2, <2>1, <2>2, <2>3 DEF RequestInv
  <2> QED
    BY <1>2, <2>1, <2>3, <2>4 DEF GraphInv
<1>12. CASE RebuildIndexes
  <2>1. PICK rows \in scanned : be' = Graph!RebuildFrom(be, rows)
    BY <1>12 DEF RebuildIndexes
  <2>2. pc = "up" /\ scanned' = {} /\ UNCHANGED <<req, pc>>
    BY <1>12 DEF RebuildIndexes
  <2>3. rows = be.docs /\ Busy = {}
    BY <1>2, <2>1 DEF RequestInv
  <2>4. Halfway = {} /\ Halfway' = Halfway /\ Busy' = Busy
    BY <2>2, <2>3, Halves DEF Halfway, Busy
  <2>5. EdgeInv(be', "up", {})
    BY <1>2, <2>1, <2>2, <2>3, EdgeRebuild
  <2>6. IsRebuilt(be', be, rows)
    BY <2>1, Rebuilt
  <2>7. be'.docs = be.docs
    BY <2>6 DEF IsRebuilt
  <2>8. RequestInv'
    BY <1>2, <2>2, <2>4, <2>7 DEF RequestInv
  <2> QED
    BY <2>2, <2>4, <2>5, <2>8 DEF GraphInv
\* The node is not serving requests.
<1>13. ASSUME Busy = {}, scanned = {}, UNCHANGED <<req, scanned>>, EdgeInv(be', pc', {})
       PROVE  GraphInv'
  <2>1. Busy' = {} /\ Halfway' = {}
    BY <1>13, Halves DEF Busy, Halfway
  <2>2. \A t \in Threads : req'[t].pc # "stored"
    BY <1>13, NotNone DEF Busy
  <2>3. RequestInv'
    BY <1>13, <2>1, <2>2 DEF RequestInv
  <2> QED
    BY <1>13, <2>1, <2>3 DEF GraphInv
<1>14. CASE FlushStep
  <2>1. /\ pc \in {"flush", "flush manifest", "flush store"} /\ UNCHANGED <<req, scanned>>
        /\ be' = CASE pc = "flush" -> Graph!FlushDocuments(be)
                   [] pc = "flush manifest" -> Graph!FlushManifest(be)
                   [] pc = "flush store" -> Graph!FlushStore(be)
        /\ pc' = CASE pc = "flush" -> "flush manifest"
                   [] pc = "flush manifest" -> "flush store"
                   [] pc = "flush store" -> todo[1]
    BY <1>14 DEF FlushStep, FlushTo, Flushing, OnGraph
  <2>2. Busy = {} /\ scanned = {} /\ Halfway = {} /\ todo \in {<<"up">>, <<"down">>}
    BY <1>3, <2>1, Halves DEF Flushing
  <2>3. CASE pc = "flush"
    <3>1. be' = Graph!FlushDocuments(be) /\ pc' = "flush manifest" /\ EdgeInv(be, "flush", {})
      BY <1>2, <2>1, <2>2, <2>3
    <3>2. EdgeInv(be', pc', {})
      BY <3>1, EdgeDocuments
    <3> QED
      BY <1>13, <2>1, <2>2, <3>2
  <2>4. CASE pc = "flush manifest"
    <3>1. be' = Graph!FlushManifest(be) /\ pc' = "flush store" /\ EdgeInv(be, "flush manifest", {})
      BY <1>2, <2>1, <2>2, <2>4
    <3>2. EdgeInv(be', pc', {})
      BY <3>1, EdgeManifest
    <3> QED
      BY <1>13, <2>1, <2>2, <3>2
  <2>5. CASE pc = "flush store"
    <3>1. be' = Graph!FlushStore(be) /\ pc' = todo[1] /\ EdgeInv(be, "flush store", {})
      BY <1>2, <2>1, <2>2, <2>5
    <3>2. pc' \in {"up", "down"}
      <4>1. <<"up">>[1] = "up" /\ <<"down">>[1] = "down"
        BY SMT
      <4> QED
        BY <2>2, <3>1, <4>1
    <3>3. EdgeInv(be', pc', {})
      BY <3>1, <3>2, EdgeStore
    <3> QED
      BY <1>13, <2>1, <2>2, <3>3
  <2> QED
    BY <2>1, <2>3, <2>4, <2>5
<1>15. CASE Crash
  <2>1. PICK W \in Graph!Seg!Written(be.store), K \in SUBSET Keys :
           CrashTo(Graph!Crash(be, W, K), Outlives(K))
    BY <1>15 DEF Crash
  <2>2. /\ be' = Graph!Crash(be, W, K) /\ pc \notin {"down", "refused"} /\ pc' = "down"
        /\ torn' = (torn \/ Outlives(K)) /\ req' = [t \in Threads |-> None] /\ scanned' = {}
    BY <2>1 DEF CrashTo
  <2>3. /\ \A k \in K \cap DOMAIN be.docs : k \in DOMAIN be.flushed /\ be.flushed[k] = be.docs[k]
        /\ ~(pc = "flush manifest" /\ be.dirty)
    BY <2>2 DEF Outlives
  <2>4. EdgeInv(be', "down", {})
    BY <1>2, <2>2, <2>3, EdgeCrash
  <2>5. \A t \in Threads : req'[t] = None
    BY <2>2
  <2>6. Busy' = {} /\ Halfway' = {}
    BY <2>5, NotNone DEF Busy, Halfway
  <2>7. RequestInv'
    BY <2>2, <2>5, <2>6, NotNone DEF RequestInv
  <2> QED
    BY <2>2, <2>4, <2>6, <2>7 DEF GraphInv
<1>16. CASE Open
  <2>1. /\ pc = "down" /\ UNCHANGED <<req, scanned>>
        /\ IF Graph!LoadManifestOK(be) THEN be' = Graph!LoadManifest(be) /\ pc' = "replay"
           ELSE be' = be /\ pc' = "refused"
    BY <1>16 DEF Open, OpenAs
  <2>2. Busy = {} /\ scanned = {} /\ Halfway = {}
    BY <1>3, <2>1, Halves
  <2>3. EdgeInv(be, "down", {})
    BY <1>2, <2>1, <2>2
  <2>4. EdgeInv(be', pc', {})
    <3>1. CASE Graph!LoadManifestOK(be)
      BY <2>1, <2>3, <3>1, EdgeLoad
    <3>2. CASE ~Graph!LoadManifestOK(be)
      BY <2>1, <2>3, <3>2 DEF EdgeInv
    <3> QED
      BY <3>1, <3>2
  <2> QED
    BY <1>13, <2>1, <2>2, <2>4
<1>17. CASE Replay
  <2> DEFINE p == ledger[Head(todo)]
             k == p.key
             d == p.doc
             q == Graph!PutDocument(be, k, d)
  <2>1. /\ pc = "replay" /\ UNCHANGED <<req, scanned, pc>>
        /\ be' = be \/ be' = Graph!IndexDocumentLocked(q, k, d)
    BY <1>17 DEF Replay, ReplayPut
  <2>2. Busy = {} /\ scanned = {} /\ Halfway = {}
    BY <1>3, <2>1, Halves
  <2> HIDE DEF p, k, d
  <2>3. EdgeInv(be, "replay", {})
    BY <1>2, <2>1, <2>2
  <2>4. CASE be' = Graph!IndexDocumentLocked(q, k, d)
    <3>1. LinkInv(q) /\ IsPut(q, be, k, d) /\ EdgeInv(q, "replay", {k})
      <4>1. LinkInv(q) /\ IsPut(q, be, k, d)
        BY GraphPut
      <4>2. EdgeInv(q, "replay", {} \cup {k})
        BY <2>3, EdgePut
      <4>3. {} \cup {k} = {k}
        OBVIOUS
      <4> QED
        BY <4>1, <4>2, <4>3
    <3> HIDE DEF q
    <3>2. k \in DOMAIN q.docs /\ q.docs[k] = d
      BY <3>1 DEF IsPut
    <3>3. be' = Graph!IndexDocumentLocked(q, k, q.docs[k])
      BY <2>4, <3>2
    <3>4. EdgeInv(be', "replay", {k} \ {k})
      BY <3>1, <3>2, <3>3, EdgeIndex
    <3>5. {k} \ {k} = {}
      OBVIOUS
    <3>6. EdgeInv(be', pc', {})
      BY <2>1, <3>4, <3>5
    <3> QED
      BY <1>13, <2>1, <2>2, <3>6
  <2>5. CASE be' = be
    <3>1. EdgeInv(be', pc', {})
      BY <2>1, <2>3, <2>5
    <3> QED
      BY <1>13, <2>1, <2>2, <3>1
  <2> QED
    BY <2>1, <2>4, <2>5
<1> QED
  BY <1>5, <1>6, <1>8, <1>9, <1>10, <1>11, <1>12, <1>14, <1>15, <1>16, <1>17 DEF Next, RouterNext

-----------------------------------------------------------------------------
(* The invariant is inductive *)

LEMMA NewStore == IsStore(Seg!EmptyStore) /\ DOMAIN Seg!EmptyStore.blobs = {}
<1> DEFINE none == <<>>
           st == [blobs |-> none, clean |-> {}]
<1>1. Seg!EmptyStore = st
  BY DEF Seg!EmptyStore
<1>2. none = [id \in DOMAIN none |-> none[id]] /\ DOMAIN none = {} /\ 1 .. 0 = {} /\ 0 \in Nat
  BY SMT
<1> HIDE DEF none
<1>3. st.blobs = none /\ st.clean = {} /\ st = [blobs |-> st.blobs, clean |-> st.clean]
  BY SMT
<1> HIDE DEF st
<1> QED
  BY <1>1, <1>2, <1>3 DEF IsStore

LEMMA VecNew == VecInv(Vec!New)
<1>1. Vec!Seg!EmptyStore = Seg!EmptyStore
  BY DEF Vec!Seg!EmptyStore, Seg!EmptyStore
<1>2. /\ DOMAIN Vec!New = {"docs", "nodes", "dim", "dirty", "snapshot", "manifest", "store"}
      /\ Vec!New.docs = <<>> /\ Vec!New.nodes = <<>> /\ Vec!New.dim = 0
      /\ Vec!New.store = Vec!Seg!EmptyStore
  BY SMTT(20) DEF Vec!New
<1>3. Searchable(<<>>, <<>>, 0)
  BY SMT DEF Searchable
<1> QED
  BY <1>1, <1>2, <1>3, NewStore DEF VecInv, IsVec

LEMMA GraphNew ==
    ASSUME NEW n, n = Graph!New
    PROVE  LinkInv(n) /\ EdgeInv(n, "up", {}) /\ n.docs = <<>>
<1>1. Graph!Seg!EmptyStore = Seg!EmptyStore
  BY DEF Graph!Seg!EmptyStore, Seg!EmptyStore
<1>2. /\ DOMAIN n = {"docs", "flushed", "out", "in", "declared", "nodes", "class", "dirty", "snapshot",
                     "manifest", "store"}
      /\ n.docs = <<>> /\ n.flushed = <<>> /\ n.out = {} /\ n.in = {} /\ n.declared = {}
      /\ n.class = <<>> /\ n.dirty = FALSE /\ n.snapshot = 0 /\ n.manifest = 0
      /\ n.store = Graph!Seg!EmptyStore
  BY SMTT(20) DEF Graph!New
<1>3. IsEdges({}) /\ Reverse({}) = {} /\ ByOwner({}) = {}
  BY DEF IsEdges, Reverse, ByOwner
<1>4. LinkInv(n)
  BY <1>1, <1>2, <1>3, NewStore DEF LinkInv, IsGraph
<1>5. DOMAIN <<>> = {} /\ <<>> = [k \in DOMAIN <<>> |-> <<>>[k]]
  BY SMT
<1>6. Exact({}, <<>>, <<>>, {})
  BY <1>5 DEF Exact
<1>7. Saved(n)
  BY <1>2, <1>6 DEF Saved
<1>8. Snapshotted(n)
  BY <1>2, <1>5 DEF Snapshotted
<1>9. n.docs = [k \in DOMAIN n.docs |-> n.docs[k]] /\ n.flushed = [k \in DOMAIN n.flushed |-> n.flushed[k]]
  BY <1>2, <1>5
<1>10. EdgeInv(n, "up", {})
  BY <1>2, <1>6, <1>7, <1>8, <1>9 DEF EdgeInv
<1> QED
  BY <1>2, <1>4, <1>10

LEMMA InvInit == Init => EngInv
<1> SUFFICES ASSUME Init PROVE EngInv
  OBVIOUS
<1>1. /\ target \in IndexedTargets /\ bound = "kv" /\ scanned = {} /\ pc = "up"
      /\ req = [t \in Threads |-> None] /\ raced = {} /\ ~torn
      /\ be = IF OnGraph THEN Graph!New ELSE Vec!New
  BY DEF Init, RouterInit
<1>2. \A t \in Threads : req[t] = None
  BY <1>1
<1>3. Busy = {} /\ Halfway = {}
  BY <1>2, NotNone DEF Busy, Halfway
<1>4. RouterInv
  <2>1. "up" \notin Flushing
    BY DEF Flushing
  <2>2. req = [t \in Threads |-> req[t]]
    BY <1>1
  <2> QED
    BY <1>1, <1>2, <2>1, <2>2 DEF RouterInv, IsRequest
<1>5. CASE ~OnGraph
  BY <1>1, <1>4, <1>5, VecNew DEF EngInv
<1>6. CASE OnGraph
  <2>1. LinkInv(be) /\ EdgeInv(be, "up", {})
    BY <1>1, <1>6, GraphNew
  <2>2. RequestInv
    BY <1>1, <1>2, <1>3, NotNone DEF RequestInv
  <2> QED
    BY <1>1, <1>3, <1>4, <1>6, <2>1, <2>2 DEF EngInv, GraphInv
<1> QED
  BY <1>5, <1>6

LEMMA InvStep == EngInv /\ [Next]_vars => EngInv'
<1> SUFFICES ASSUME EngInv, [Next]_vars PROVE EngInv'
  OBVIOUS
<1>1. /\ RouterInv
      /\ ~OnGraph => VecInv(be)
      /\ OnGraph => LinkInv(be)
      /\ OnGraph => (raced = {} /\ ~torn => GraphInv)
  BY DEF EngInv
<1>2. RouterInv' /\ target' = target
  BY <1>1, RouterStep
<1>3. OnGraph' <=> OnGraph
  BY <1>2 DEF OnGraph
<1>4. CASE ~OnGraph
  <2>1. VecInv(be')
    BY <1>1, <1>4, VecStep
  <2> QED
    BY <1>2, <1>3, <1>4, <2>1 DEF EngInv
<1>5. CASE OnGraph
  <2>1. LinkInv(be')
    BY <1>1, <1>5, LinkStep
  <2>2. ASSUME raced' = {}, ~torn' PROVE GraphInv'
    BY <1>1, <1>5, <2>2, GraphStep
  <2> QED
    BY <1>2, <1>3, <1>5, <2>1, <2>2 DEF EngInv
<1> QED
  BY <1>4, <1>5

LEMMA Inductive == Spec => []EngInv
<1> QED
  BY InvInit, InvStep, PTL DEF Spec

-----------------------------------------------------------------------------
(* What follows *)

LEMMA VectorsFollow == EngInv => VectorsMatchRows
BY DEF EngInv, OnGraph, VecInv, Searchable, VectorsMatchRows, Vec!Search

\* Reversing twice gives the edges back.
LEMMA Twice ==
    ASSUME NEW out, IsEdges(out)
    PROVE  out = Reverse(Reverse(out))
<1>1. ASSUME NEW e \in out PROVE e \in Reverse(Reverse(out))
  <2> DEFINE r == <<e[2], e[1], e[3]>>
  <2>1. r \in Reverse(out) /\ e = <<e[1], e[2], e[3]>>
    BY DEF Reverse, IsEdges
  <2>2. r[1] = e[2] /\ r[2] = e[1] /\ r[3] = e[3]
    BY Triples
  <2> HIDE DEF r
  <2>3. <<r[2], r[1], r[3]>> \in Reverse(Reverse(out))
    BY <2>1 DEF Reverse
  <2> QED
    BY <2>1, <2>2, <2>3
<1>2. ASSUME NEW e \in Reverse(Reverse(out)) PROVE e \in out
  <2>1. PICK r \in Reverse(out) : e = <<r[2], r[1], r[3]>>
    BY <1>2 DEF Reverse
  <2>2. PICK x \in out : r = <<x[2], x[1], x[3]>>
    BY <2>1 DEF Reverse
  <2>3. r[1] = x[2] /\ r[2] = x[1] /\ r[3] = x[3] /\ x = <<x[1], x[2], x[3]>>
    BY <2>2, Triples DEF IsEdges
  <2> QED
    BY <2>1, <2>2, <2>3
<1> QED
  BY <1>1, <1>2

LEMMA EdgesFollow == EngInv => EdgesMatchDocuments
<1> SUFFICES ASSUME EngInv, target = "graph_adj" PROVE EdgesMatchDocuments
  BY DEF EdgesMatchDocuments
<1>1. LinkInv(be) /\ (raced = {} /\ ~torn => GraphInv)
  BY DEF EngInv, OnGraph
<1>2. IsEdges(be.out) /\ be.in = Reverse(be.out)
  BY <1>1 DEF LinkInv
<1>3. be.out = Reverse(be.in)
  BY <1>2, Twice
<1>4. ASSUME NEW j \in Keys, NEW k \in Keys
      PROVE  k \in Graph!Descendants(be, j) <=> j \in Graph!Ancestors(be, k)
  <2>1. k \in Graph!Walk(be.out, j) => j \in Graph!Walk(be.in, k)
    BY <1>2, WalksAgree
  <2>2. j \in Graph!Walk(be.in, k) => k \in Graph!Walk(be.out, j)
    BY <1>3, WalksAgree
  <2> QED
    BY <2>1, <2>2 DEF Graph!Descendants, Graph!Ancestors
<1>5. ASSUME pc = "up", Busy = {}, raced = {}, ~torn
      PROVE  /\ be.out = UNION {EdgesOf(k, be.docs[k]) : k \in DOMAIN be.docs}
             /\ \A k \in Keys :
                   k \in DOMAIN be.class <=> k \in DOMAIN be.docs /\ be.docs[k].at.class # ""
  <2>1. Exact(be.out, be.class, be.docs, {})
    BY <1>1, <1>5, Halves DEF GraphInv, EdgeInv
  <2>2. /\ \A e \in be.out : e[3] \in DOMAIN be.docs /\ e \in EdgesOf(e[3], be.docs[e[3]])
        /\ \A k \in DOMAIN be.docs : EdgesOf(k, be.docs[k]) \subseteq be.out
        /\ \A k \in DOMAIN be.class \cup DOMAIN be.docs :
              k \in DOMAIN be.class <=> k \in DOMAIN be.docs /\ be.docs[k].at.class # ""
    BY <2>1 DEF Exact
  <2>3. be.out = UNION {EdgesOf(k, be.docs[k]) : k \in DOMAIN be.docs}
    BY <2>2
  <2> QED
    BY <2>2, <2>3
<1>6. ASSUME pc = "up", Busy = {}, raced = {}, ~torn
      PROVE  be.out = UNION {{<<e[1], e[2], k>> : e \in Graph!DeriveEdges(k, be.docs[k].at)}
                                : k \in DOMAIN be.docs}
  BY <1>5, <1>6 DEF EdgesOf
<1>7. be.in = {<<e[2], e[1], e[3]>> : e \in be.out}
  BY <1>2 DEF Reverse
<1> QED
  BY <1>4, <1>5, <1>6, <1>7 DEF EdgesMatchDocuments

\* Whatever requests, flushes, crashes and recoveries come, a search of the
\* vector engine scores every document that has an embedding of the collection's
\* dimension, with the embedding of the document it would return (Put,
\* FlushManifest and LoadManifest of vector_hnsw_lite.cpp).
THEOREM SearchCoversRows == Spec => []VectorsMatchRows
<1> QED
  BY Inductive, VectorsFollow, PTL

\* At every point of every run an edge of the graph engine has its reverse, and
\* walks down and up agree.  When requests did not overlap on a key or with a
\* Rebuild and no crash kept a document without its edges, the edges and classes
\* are those the documents declare whenever no request is at work, also after
\* crashes and recoveries (graph_adj.cpp).
THEOREM EdgesAreOfDocuments == Spec => []EdgesMatchDocuments
<1> QED
  BY Inductive, EdgesFollow, PTL

=============================================================================
