------------------------------ MODULE KvStore ------------------------------
(***************************************************************************)
(* The default engine from its B+Tree down to the data file:               *)
(* src/src/storage/engines/kv_bplus.cpp over bplus_tree.cpp,               *)
(* slotted_page.cpp, buffer_pool_manager.cpp and disk_manager.cpp, with    *)
(* the redo recovery of storage_engine.cpp above it.                       *)
(*                                                                         *)
(* One collection.  Keys are positive integers, a document is the position *)
(* of its PUT in the ledger.  Operations on the engine are serialised by   *)
(* its mutex, so a step is an operation, an eviction between two of them,  *)
(* or a failure.  A crash keeps the pages that were written back and loses *)
(* every frame: which pages those are is the buffer pool's choice.         *)
(*                                                                         *)
(* A frame that is clean and mapped holds what the file holds and is not   *)
(* modelled, except for the page ids at or above next_page_id_ that a      *)
(* pointer left by a crash made the pool fetch (ahead).  NewPage hands     *)
(* such an id out again and gives it a second frame; the first one stays   *)
(* in the pool under the same id, outside the page table (ghosts).         *)
(***************************************************************************)
EXTENDS Integers, Sequences, FiniteSets, FiniteSetsExt, SequencesExt, Functions, TLC

CONSTANTS
    Keys,             \* a set of positive integers
    MaxKeysPerNode,   \* kMaxKeysPerNode
    SlotsPerPage,     \* how many documents fit on a page
    MaxDescent,       \* kMaxDescent
    Loads,            \* what the store may have been loaded with: sequences of keys
    KvPuts, MaxEvictions, KvStops  \* how much happens: writes, evictions, ends of the process

VARIABLES
    kv,        \* the engine, see Closed
    ledger,    \* the keys of the PUT records, in order
    acked,     \* the last PUT of each key that was reported as done
    pc,        \* "down", "replay" or "up"
    todo,      \* the keys recovery still has to redo
    puts, evictions, stops,  \* how many more may come
    spilled,   \* history: an eviction has written a page since the last flush
    torn,      \* history: a crash kept some of the pages changed since the flush
    lost       \* history: an eviction unmapped a page that was not on disk

vars == <<kv, ledger, acked, pc, todo, puts, evictions, stops, spilled, torn, lost>>

-----------------------------------------------------------------------------
(* Pages *)

kInvalidPageId == -1

\* A read past the end of the file, or of a hole in it.
ZeroPage == [kind |-> "zero"]

Leaf(keys, rids, parent, next) ==
    [kind |-> "leaf", keys |-> keys, rids |-> rids, parent |-> parent, next |-> next]

Internal(keys, children, parent) ==
    [kind |-> "internal", keys |-> keys, children |-> children, parent |-> parent]

Data(records) == [kind |-> "data", records |-> records]

\* What the tree makes of a page: zeros parse as an internal node without keys
\* whose only child and whose parent is page 0.
NodeIn(page) == IF page = ZeroPage THEN Internal(<<>>, <<0>>, 0) ELSE page

\* What a slotted-page access makes of a page: zeros have no slot and no room.
RecordsIn(page) == IF page.kind = "data" THEN page.records ELSE <<>>

-----------------------------------------------------------------------------
(* The buffer pool and the disk manager, on an engine state s *)

\* The engine's members when it is closed: the two files are all there is.
Closed(file, roots) ==
    [file |-> file,                 \* kv.dsf
     roots |-> roots,               \* roots.json: the root, or none
     next |-> 0,                    \* next_page_id_
     dirty |-> <<>>,                \* mapped frames that differ from the file
     ahead |-> {},                  \* clean frames of ids not handed out yet
     ghosts |-> {},                 \* frames whose id is mapped elsewhere
     root |-> kInvalidPageId,       \* indexes_: the root of the open tree, or none
     write |-> kInvalidPageId]      \* write_pages_

PageAt(s, id) ==
    IF id \in DOMAIN s.dirty THEN s.dirty[id]
    ELSE IF id \in 0 .. Len(s.file) - 1 THEN s.file[id + 1]
    ELSE ZeroPage

FetchPage(s, ids) ==
    [s EXCEPT !.ahead = @ \cup {id \in ids : id >= s.next /\ id \notin DOMAIN s.dirty}]

\* Writing to a fetched page and unpinning it as dirty.
UnpinDirty(s, id, page) ==
    [s EXCEPT !.dirty = (id :> page) @@ @, !.ahead = @ \ {id}]

\* The frame that the page table maps id to, if it is one of those modelled.
FrameOf(s, id) ==
    IF id \in DOMAIN s.dirty THEN {[id |-> id, page |-> s.dirty[id], dirty |-> TRUE]}
    ELSE IF id \in s.ahead THEN {[id |-> id, page |-> ZeroPage, dirty |-> FALSE]}
    ELSE {}

NewPage(s, page) ==
    [s EXCEPT !.next = @ + 1,
              !.dirty = (s.next :> page) @@ @,
              !.ahead = @ \ {s.next},
              !.ghosts = @ \cup FrameOf(s, s.next)]

WritePage(file, id, page) ==
    [i \in 1 .. Max({Len(file), id + 1}) |->
        IF i = id + 1 THEN page ELSE IF i <= Len(file) THEN file[i] ELSE ZeroPage]

\* FindFreeOrVictimFrame takes the frame of a mapped page.
EvictMapped(s, id) ==
    [s EXCEPT !.file = IF id \in DOMAIN s.dirty THEN WritePage(@, id, s.dirty[id]) ELSE @,
              !.dirty = Restrict(@, DOMAIN @ \ {id}),
              !.ahead = @ \ {id}]

\* It takes ghost g: the erase of its id unmaps the frame that has the id now.
EvictGhost(s, g) ==
    [s EXCEPT !.file = IF g.dirty THEN WritePage(@, g.id, g.page) ELSE @,
              !.dirty = Restrict(@, DOMAIN @ \ {g.id}),
              !.ghosts = (@ \ {g}) \cup FrameOf(s, g.id)]

FlushAllPages(s) ==
    [s EXCEPT !.file = FoldFunction(LAMBDA w, f : WritePage(f, w[1], w[2]), @,
                                    [id \in DOMAIN s.dirty |-> <<id, s.dirty[id]>>]),
              !.dirty = <<>>]

-----------------------------------------------------------------------------
(* The B+Tree *)

\* The first position whose key is above k, or the one after the last.
FirstAbove(keys, k) == Min({i \in DOMAIN keys : k < keys[i]} \cup {Len(keys) + 1})

\* One hop of the descent: a leaf stays, a node that names itself is no node.
Child(s, id, k) ==
    LET n == NodeIn(PageAt(s, id)) IN
    CASE n.kind = "leaf" -> id
      [] n.kind = "internal" ->
            LET c == n.children[FirstAbove(n.keys, k)] IN
            IF c = id THEN kInvalidPageId ELSE c
      [] OTHER -> kInvalidPageId

\* The pages visited from the root.
Descent(s, k) ==
    LET at[hop \in 0 .. MaxDescent] ==
          IF hop = 0 THEN s.root
          ELSE LET id == at[hop - 1] IN
               IF id = kInvalidPageId THEN id ELSE Child(s, id, k)
    IN at

FindLeaf(s, k) ==
    LET id == Descent(s, k)[MaxDescent] IN
    IF id # kInvalidPageId /\ PageAt(s, id).kind = "leaf" THEN id ELSE kInvalidPageId

RootLooksValid(s, id) ==
    /\ id # kInvalidPageId
    /\ LET n == NodeIn(PageAt(s, id)) IN
       /\ n.kind \in {"leaf", "internal"}
       /\ n.parent = kInvalidPageId
       /\ n.kind = "leaf" \/ n.keys # <<>>

\* The rids under key k: none, or the one.
Search(s, k) ==
    LET id == FindLeaf(s, k) IN
    IF id = kInvalidPageId THEN {}
    ELSE LET n == PageAt(s, id) IN {n.rids[i] : i \in {j \in DOMAIN n.keys : n.keys[j] = k}}

SetParent(s, id, parent) ==
    LET n == PageAt(s, id) IN
    UnpinDirty(s, id, IF n.kind \in {"leaf", "internal"} THEN [n EXCEPT !.parent = parent] ELSE n)

\* left was the root: a new root above both halves.
NewRoot(s, left, sep, right) ==
    LET s1 == NewPage(s, Internal(<<sep>>, <<left, right>>, kInvalidPageId)) IN
    [SetParent(SetParent(s1, left, s.next), right, s.next) EXCEPT !.root = s.next]

\* Internal node n at id is over-full with keys and children: those after the
\* median go to a new node, and the children that move are reparented one by
\* one.
SplitInternal(s, id, n, keys, children, mid) ==
    LET moved == SubSeq(children, mid + 1, Len(children)) IN
    UnpinDirty(FoldLeft(LAMBDA t, c : SetParent(t, c, s.next),
                        NewPage(s, Internal(SubSeq(keys, mid + 1, Len(keys)), moved, n.parent)),
                        moved),
               id, [n EXCEPT !.keys = SubSeq(keys, 1, mid - 1),
                             !.children = SubSeq(children, 1, mid)])

RECURSIVE InsertIntoParentAfterSplit(_, _, _, _)

\* The separator goes to the parent, which may have to split in turn and
\* promote its median.  A parent pointer to a page that is no internal node is
\* garbage.
InsertIntoParentAfterSplit(s, left, sep, right) ==
    LET parent == NodeIn(PageAt(s, left)).parent
        n == NodeIn(PageAt(s, parent))
        at == FirstAbove(n.keys, sep)
        keys == InsertAt(n.keys, at, sep)
        children == InsertAt(n.children, at + 1, right)
        mid == Len(keys) \div 2 + 1
    IN IF parent = kInvalidPageId THEN NewRoot(s, left, sep, right)
       ELSE IF n.kind # "internal" THEN s
       ELSE IF Len(keys) <= MaxKeysPerNode
       THEN SetParent(UnpinDirty(s, parent, [n EXCEPT !.keys = keys, !.children = children]),
                      right, parent)
       ELSE InsertIntoParentAfterSplit(SplitInternal(s, parent, n, keys, children, mid),
                                       parent, keys[mid], s.next)

\* Mutant: the new right leaf ends the chain.
SplitLeafCutsChain(s, id, n, keys, rids, left) ==
    UnpinDirty(NewPage(s, Leaf(SubSeq(keys, left + 1, Len(keys)),
                               SubSeq(rids, left + 1, Len(rids)), n.parent, kInvalidPageId)),
               id, [n EXCEPT !.keys = SubSeq(keys, 1, left),
                             !.rids = SubSeq(rids, 1, left),
                             !.next = s.next])

\* Leaf n at id is over-full with keys and rids: the right half goes to a new
\* leaf, next in the chain.
SplitLeaf(s, id, n, keys, rids, left) ==
    UnpinDirty(NewPage(s, Leaf(SubSeq(keys, left + 1, Len(keys)),
                               SubSeq(rids, left + 1, Len(rids)), n.parent, n.next)),
               id, [n EXCEPT !.keys = SubSeq(keys, 1, left),
                             !.rids = SubSeq(rids, 1, left),
                             !.next = s.next])

\* Upsert, insert in place, or split.
InsertIntoLeaf(s, id, k, rid) ==
    LET n == PageAt(s, id)
        at == FirstAbove(n.keys, k)
        keys == InsertAt(n.keys, at, k)
        rids == InsertAt(n.rids, at, rid)
        left == Len(keys) \div 2
    IN IF k \in Range(n.keys)
       THEN UnpinDirty(s, id, [n EXCEPT !.rids[CHOOSE i \in DOMAIN n.keys : n.keys[i] = k] = rid])
       ELSE IF Len(n.keys) < MaxKeysPerNode
       THEN UnpinDirty(s, id, [n EXCEPT !.keys = keys, !.rids = rids])
       ELSE InsertIntoParentAfterSplit(SplitLeaf(s, id, n, keys, rids, left),
                                       id, keys[left + 1], s.next)

\* The leaves from the one of start_key on; no more than there are pages.
LeafChain(s, start) ==
    LET at[hop \in 0 .. s.next] ==
          IF hop = 0 THEN FindLeaf(s, start)
          ELSE LET id == at[hop - 1] IN
               IF id = kInvalidPageId \/ PageAt(s, id).kind # "leaf" THEN kInvalidPageId
               ELSE PageAt(s, id).next
        ids == [i \in 1 .. s.next + 1 |-> at[i - 1]]
    IN SelectSeq(ids,
                 LAMBDA id : id # kInvalidPageId /\ PageAt(s, id).kind = "leaf")

-----------------------------------------------------------------------------
(* The engine *)

\* IndexFor of a collection not opened yet: the root the file names, or a new
\* tree, whose id is saved at once and whose page is not.
IndexFor(s) ==
    LET seen == FetchPage(s, {s.roots} \ {kInvalidPageId}) IN
    IF s.root # kInvalidPageId THEN s
    ELSE IF RootLooksValid(s, s.roots) THEN [seen EXCEPT !.root = s.roots]
    ELSE [NewPage(seen, Leaf(<<>>, <<>>, kInvalidPageId, kInvalidPageId))
            EXCEPT !.root = s.next, !.roots = s.next]

\* What Get returns in an open index: the document, or 0 for NotFound.
Lookup(s, k) ==
    LET found == {r \in Search(s, k) : r.slot \in DOMAIN RecordsIn(PageAt(s, r.page))} IN
    IF found = {} THEN 0
    ELSE LET r == CHOOSE x \in found : TRUE IN RecordsIn(PageAt(s, r.page))[r.slot]

\* The pages Get visits in an open index.
Visited(s, k) ==
    (Range(Descent(s, k)) \ {kInvalidPageId}) \cup {r.page : r \in Search(s, k)}

FetchPath(s, k) == FetchPage(s, Visited(s, k))

\* Get as a step: the index is opened, and pages are fetched.
Get(s, k) == FetchPath(IndexFor(s), k)

\* Scan of the whole collection: the keys found, in the order returned.
ScanKeys(s) ==
    LET leaves == LeafChain(s, 0) IN
    SelectSeq(FlattenSeq([i \in DOMAIN leaves |-> PageAt(s, leaves[i]).keys]),
              LAMBDA k : Lookup(s, k) # 0)

\* The page the next record goes to: a first one, the current one, or a new
\* one when that is full.
WithWritePage(s) ==
    IF s.write # kInvalidPageId /\ Len(RecordsIn(PageAt(s, s.write))) < SlotsPerPage
                                /\ PageAt(s, s.write).kind = "data"
    THEN s
    ELSE [NewPage(s, Data(<<>>)) EXCEPT !.write = s.next]

PutRecord(s, doc) ==
    UnpinDirty(s, s.write, Data(Append(RecordsIn(PageAt(s, s.write)), doc)))

\* The record last put is entered under its key.  Insert is refused when the
\* descent finds no leaf; the record stays.
IndexRecord(s, k) ==
    LET leaf == FindLeaf(s, k) IN
    IF leaf = kInvalidPageId THEN s
    ELSE InsertIntoLeaf(s, leaf, k, [page |-> s.write, slot |-> Len(PageAt(s, s.write).records)])

\* Put looks the key up, writes the record, and then the index.
Put(s, k, doc) == IndexRecord(PutRecord(WithWritePage(Get(s, k)), doc), k)

\* Flush: the pages, and then roots.json.
Flush(s) ==
    [FlushAllPages(s) EXCEPT !.roots = IF s.root # kInvalidPageId THEN s.root ELSE @]

-----------------------------------------------------------------------------

\* The position of the last PUT of key k in ledger l.
LatestIn(l, k) == Max({i \in DOMAIN l : l[i] = k} \cup {0})

Latest(k) == LatestIn(ledger, k)

\* The files of a store that was loaded and shut down.
LoadedWith(load) ==
    LET s == Flush(FoldLeftDomain(LAMBDA t, i : Put(t, load[i], i),
                                  Closed(<<>>, kInvalidPageId), load))
    IN Closed(s.file, s.roots)

Init ==
    /\ \E load \in Loads :
          /\ ledger = load
          /\ kv = LoadedWith(load)
          /\ acked = [k \in Keys |-> LatestIn(load, k)]
    /\ pc = "down"
    /\ todo = <<>>
    /\ puts = KvPuts
    /\ evictions = MaxEvictions
    /\ stops = KvStops
    /\ spilled = FALSE
    /\ torn = FALSE
    /\ lost = FALSE

\* PutRaw: the ledger, the engine, and OK to the caller unless the index
\* refused.
PutRaw(k) ==
    /\ pc = "up"
    /\ puts > 0
    /\ puts' = puts - 1
    /\ ledger' = Append(ledger, k)
    /\ kv' = Put(kv, k, Len(ledger'))
    /\ acked' = IF FindLeaf(kv', k) = kInvalidPageId THEN acked
                ELSE [acked EXCEPT ![k] = Len(ledger')]
    /\ UNCHANGED <<pc, todo, evictions, stops, spilled, torn, lost>>

GetRaw(k) ==
    /\ pc = "up"
    /\ kv' = Get(kv, k)
    /\ UNCHANGED <<ledger, acked, pc, todo, puts, evictions, stops, spilled, torn, lost>>

\* The pool takes a frame that an earlier operation left, of a mapped page ...
Evict(id) ==
    /\ pc # "down"
    /\ evictions > 0
    /\ evictions' = evictions - 1
    /\ kv' = EvictMapped(kv, id)
    /\ spilled' = (spilled \/ id \in DOMAIN kv.dirty)
    /\ UNCHANGED <<ledger, acked, pc, todo, puts, stops, torn, lost>>

\* ... or of an id that another frame has now.
EvictStale(g) ==
    /\ pc # "down"
    /\ evictions > 0
    /\ evictions' = evictions - 1
    /\ kv' = EvictGhost(kv, g)
    /\ spilled' = (spilled \/ g.dirty)
    /\ lost' = (lost \/ g.id \in DOMAIN kv.dirty)
    /\ UNCHANGED <<ledger, acked, pc, todo, puts, stops, torn>>

\* The shutdown checkpoint: everything is flushed before the process ends.
Checkpoint ==
    /\ pc = "up"
    /\ stops > 0
    /\ stops' = stops - 1
    /\ kv' = LET s == Flush(kv) IN Closed(s.file, s.roots)
    /\ pc' = "down"
    /\ spilled' = FALSE
    /\ UNCHANGED <<ledger, acked, todo, puts, evictions, torn, lost>>

Crash ==
    /\ pc # "down"
    /\ stops > 0
    /\ stops' = stops - 1
    /\ kv' = Closed(kv.file, kv.roots)
    /\ pc' = "down"
    /\ todo' = <<>>
    /\ spilled' = FALSE
    /\ torn' = (torn \/ (spilled /\ DOMAIN kv.dirty # {}))
    /\ UNCHANGED <<ledger, acked, puts, evictions, lost>>

\* Open: ids go on after the end of the file; recovery takes the last PUT of
\* each key, in ledger order.
Open ==
    /\ pc = "down"
    /\ kv' = [kv EXCEPT !.next = Len(kv.file)]
    /\ todo' = SetToSortSeq(Range(ledger), LAMBDA a, b : Latest(a) < Latest(b))
    /\ pc' = "replay"
    /\ UNCHANGED <<ledger, acked, puts, evictions, stops, spilled, torn, lost>>

\* One record: skipped when the engine has that document, written otherwise.
ReplayPut ==
    /\ pc = "replay"
    /\ todo # <<>>
    /\ LET k == Head(todo)
           s == Get(kv, k)
       IN kv' = IF Lookup(s, k) = Latest(k) THEN s ELSE Put(s, k, Latest(k))
    /\ todo' = Tail(todo)
    /\ UNCHANGED <<ledger, acked, pc, puts, evictions, stops, spilled, torn, lost>>

\* Recovery ends with a flush, unless there was no record at all.
ReplayDone ==
    /\ pc = "replay"
    /\ todo = <<>>
    /\ kv' = IF ledger = <<>> THEN kv ELSE Flush(kv)
    /\ pc' = "up"
    /\ spilled' = FALSE
    /\ UNCHANGED <<ledger, acked, todo, puts, evictions, stops, torn, lost>>

Next ==
    \/ \E k \in Keys : PutRaw(k)
    \/ \E k \in Keys : GetRaw(k)
    \/ \E id \in DOMAIN kv.dirty \cup kv.ahead : Evict(id)
    \/ \E g \in kv.ghosts : EvictStale(g)
    \/ Checkpoint
    \/ Crash
    \/ Open
    \/ ReplayPut
    \/ ReplayDone

Spec == Init /\ [][Next]_vars

-----------------------------------------------------------------------------
(* Properties *)

Node(id) == NodeIn(PageAt(kv, id))

\* The nodes of the open tree.
TreeNodes ==
    LET Below(S) == S \cup UNION {ToSet(Node(id).children) :
                                    id \in {n \in S : Node(n).kind = "internal"}}
        level[d \in 0 .. MaxDescent] ==
            IF d = 0 THEN {kv.root} ELSE LET above == level[d - 1] IN Below(above)
    IN level[MaxDescent]

\* Unless a crash kept half of a flush or a mapped page was thrown away, the
\* engine that is up returns for each key the document of its last PUT, and a
\* scan returns each key once in order: through leaf and node splits, any
\* eviction, clean and unclean restarts and the replay over stale files.  All
\* along, the parent pointer of every node names the node that has it as a
\* child: InsertIntoParentAfterSplit climbs by them.
LookupsExact ==
    (~torn /\ ~lost) =>
        /\ pc = "up" =>
              \A s \in {IndexFor(kv)} :
                  /\ \A k \in Keys : Lookup(s, k) = Latest(k)
                  /\ ScanKeys(s) = SetToSortSeq(Range(ledger), <)
        /\ (pc # "down" /\ kv.root # kInvalidPageId) =>
              /\ Node(kv.root).parent = kInvalidPageId
              /\ \A p \in TreeNodes : Node(p).kind = "internal" =>
                    /\ Len(Node(p).children) = Len(Node(p).keys) + 1
                    /\ \A i \in DOMAIN Node(p).children : Node(Node(p).children[i]).parent = p

=============================================================================
