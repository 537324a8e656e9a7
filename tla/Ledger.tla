------------------------------- MODULE Ledger -------------------------------
(***************************************************************************)
(* The hash-chained write-ahead log (src/src/storage/wal.cpp) together     *)
(* with the checkpoint that prunes it (src/src/ledger/checkpoint.cpp).     *)
(*                                                                         *)
(* The file is a set of frames ordered by position: `recs` holds the       *)
(* complete records and `torn` the partial frames a failed write left.  A  *)
(* record's content is what BuildContent covers; the SHA-256 of a content  *)
(* and the previous link is modelled by the set of all the contents        *)
(* chained so far, which is injective because a content holds its LSN.     *)
(*                                                                         *)
(* A partial frame still announces the length of the record it was meant   *)
(* to hold.  A reader that meets it asks for that many bytes: it gets a    *)
(* short read (a benign torn tail) while at most `swallow` frames follow,  *)
(* and a complete body with a wrong CRC afterwards.                        *)
(***************************************************************************)
EXTENDS Integers, FiniteSets

CONSTANTS
    Keys,            \* key hashes of the documents the log is about
    MaxLsn,          \* numeric_limits<lsn_t>::max(): no LSN is assigned beyond it
    MaxFrames,       \* the capacity of the disk, in frames
    MaxSwallow,      \* largest number of frames a partial frame can swallow
    MaxCheckpoints,  \* how many checkpoints the supervisor runs
    Faults,          \* the kinds of fault of the environment that may happen
    MaxFaults        \* how many of them happen

FaultKinds == {"torn", "write", "sync", "flush", "prune"}

ASSUME LedgerAssumption ==
    /\ MaxLsn \in Nat
    /\ MaxFrames \in Nat
    /\ MaxSwallow \in Nat
    /\ MaxCheckpoints \in Nat
    /\ Faults \subseteq FaultKinds
    /\ MaxFaults \in Nat

VARIABLES
    recs,      \* complete frames of the file
    torn,      \* partial frames of the file
    eof,       \* position of the next frame (seekp to the end)
    unsynced,  \* the records of `recs` no fdatasync has covered yet
    hwm,       \* the high-water mark kept in <wal>.hwm
    mode,      \* "down", "up", or "refused" when Open returned Corruption
    next_lsn, tip_hash, last_checkpoint_lsn,   \* members of WriteAheadLog
    pc,        \* where the holder of mu_ is
    work,      \* the frame being appended, or the records of <wal>.rewrite
    cpReq,     \* the LSN RunCheckpoint is going to prune through, or -1
    cpLeft,    \* checkpoints left to run
    faultsLeft,
    acked      \* contents whose Append returned OK and that no prune dropped

file == <<recs, torn, eof, unsynced>>
memory == <<next_lsn, tip_hash, last_checkpoint_lsn>>
checkpoint == <<cpReq, cpLeft>>
vars == <<recs, torn, eof, unsynced, hwm, mode, next_lsn, tip_hash,
          last_checkpoint_lsn, pc, work, cpReq, cpLeft, faultsLeft, acked>>

-----------------------------------------------------------------------------
(* Records and the hash chain *)

CpKey == "checkpoint"

Transit == {"INTENT", "CLAIMED"}

\* A kind stands for every type that is treated alike: "PUT" for PUT, DELETE,
\* ABORT and ACL.
Contents == [lsn : 0 .. MaxLsn - 1, type : {"PUT", "CHECKPOINT"} \cup Transit,
             key : Keys \cup {CpKey}]

Frames == [pos : Nat, c : Contents, prev : SUBSET Contents,
           hash : SUBSET Contents]

GenesisHash == {}

Link(prev, c) == prev \cup {c}

ContentsOf(S) == {r.c : r \in S}

Last(S) == CHOOSE r \in S : \A g \in S : g.pos <= r.pos

TipId(S) == IF S = {} THEN -1 ELSE Last(S).c.lsn

TipHash(S) == IF S = {} THEN GenesisHash ELSE Last(S).hash

LastCheckpoint(S) ==
    LET cps == {r \in S : r.c.type = "CHECKPOINT"} IN TipId(cps)

-----------------------------------------------------------------------------
(* Reading the file *)

\* The records ReadAllLocked returns: those before the first partial frame
\* and before the first LSN that fails to increase.
Readable ==
    {r \in recs :
        /\ \A t \in torn : r.pos < t.pos
        /\ \A g, h \in recs :
              g.pos < h.pos /\ h.pos <= r.pos => g.c.lsn < h.c.lsn}

FramesAfter(t) ==
    {r \in recs : t.pos < r.pos} \cup {u \in torn : t.pos < u.pos}

\* last_read_corrupt_ after ReadAllLocked.
ReadCorrupt ==
    \/ \E g, h \in recs :
          /\ g.pos < h.pos /\ h.c.lsn <= g.c.lsn
          /\ \A t \in torn : h.pos < t.pos
    \/ \E t \in torn :
          /\ \A u \in torn : t.pos <= u.pos
          /\ Cardinality(FramesAfter(t)) > t.swallow

VerifyChain ==
    /\ ~ReadCorrupt
    /\ \A r \in Readable :
          /\ r.prev = TipHash({g \in Readable : g.pos < r.pos})
          /\ r.hash = Link(r.prev, r.c)

\* Mutant: only a different hash at the marked height is refused.
MarkOKIgnoringHeight ==
    TipId(Readable) = hwm.id => TipHash(Readable) = hwm.hash

MarkOK ==
    /\ hwm.id <= TipId(Readable)
    /\ TipId(Readable) = hwm.id => TipHash(Readable) = hwm.hash

-----------------------------------------------------------------------------
(* Append *)

NoMark == [id |-> -1, hash |-> GenesisHash]

Mark(id, hash) == [id |-> id, hash |-> hash]

\* A fault of kind k happens now.
Fault(k) == k \in Faults /\ faultsLeft > 0 /\ faultsLeft' = faultsLeft - 1

Partial(p) == {[pos |-> p, swallow |-> n] : n \in 0 .. MaxSwallow}

Init ==
    /\ recs = {} /\ torn = {} /\ eof = 0 /\ unsynced = {}
    /\ hwm = NoMark
    /\ mode = "down"
    /\ next_lsn = 0 /\ tip_hash = GenesisHash /\ last_checkpoint_lsn = -1
    /\ pc = "idle" /\ work = {}
    /\ cpReq = -1 /\ cpLeft = MaxCheckpoints /\ faultsLeft = MaxFaults
    /\ acked = {}

\* The guards of Append, and the frame it is about to write.
CanAppend == mode = "up" /\ pc = "idle" /\ next_lsn < MaxLsn /\ eof < MaxFrames

NextFrame(type, key) ==
    LET c == [lsn |-> next_lsn, type |-> type, key |-> key]
    IN  [pos |-> eof, c |-> c, prev |-> tip_hash, hash |-> Link(tip_hash, c)]

\* Mutant: the caller is told OK before the sync.
WriteFrameAckEarly(type, key) ==
    /\ CanAppend
    /\ recs' = recs \cup {NextFrame(type, key)}
    /\ unsynced' = unsynced \cup {NextFrame(type, key)}
    /\ work' = {NextFrame(type, key)}
    /\ eof' = eof + 1
    /\ acked' = acked \cup {NextFrame(type, key).c}
    /\ pc' = "written"
    /\ UNCHANGED <<torn, hwm, mode, memory, faultsLeft>>

\* seekp(end), write, flush: the frame reaches the page cache.
WriteFrame(type, key) ==
    /\ CanAppend
    /\ recs' = recs \cup {NextFrame(type, key)}
    /\ unsynced' = unsynced \cup {NextFrame(type, key)}
    /\ work' = {NextFrame(type, key)}
    /\ eof' = eof + 1
    /\ pc' = "written"
    /\ UNCHANGED <<torn, hwm, mode, memory, faultsLeft, acked>>

AppendRecord(type, key) == WriteFrame(type, key) /\ UNCHANGED checkpoint

\* `!file_.good()` after the write: the caller gets IOError, and the file may
\* keep the bytes that made it out.
AppendWriteFails ==
    /\ Fault("write")
    /\ CanAppend
    /\ \/ UNCHANGED <<torn, eof>>
       \/ \E t \in Partial(eof) : torn' = torn \cup {t} /\ eof' = eof + 1
    /\ UNCHANGED <<recs, unsynced, hwm, mode, memory, pc, work, checkpoint, acked>>

\* The end of an Append that returns OK: the tip moves, and the mark follows
\* it when it is due.
Acknowledge(r) ==
    /\ tip_hash' = r.hash
    /\ last_checkpoint_lsn' =
          IF r.c.type = "CHECKPOINT" THEN r.c.lsn ELSE last_checkpoint_lsn
    /\ next_lsn' = next_lsn + 1
    /\ hwm' \in {hwm, Mark(r.c.lsn, r.hash)}
    /\ acked' = acked \cup {r.c}
    /\ pc' = "idle" /\ work' = {}

\* SyncFileByPath succeeded.
AppendSynced ==
    /\ pc = "written"
    /\ \E r \in work : Acknowledge(r)
    /\ unsynced' = {}
    /\ UNCHANGED <<recs, torn, eof, mode, checkpoint, faultsLeft>>

\* flush() failed and its result is not looked at: SyncFileByPath opens the
\* path by itself, syncs what is there and succeeds, while the frame is still
\* in the stream's buffer.
AppendFlushLost ==
    /\ Fault("flush")
    /\ pc = "written"
    /\ \E r \in work : Acknowledge(r)
    /\ UNCHANGED <<file, mode, checkpoint>>

\* SyncFileByPath failed: IOError, no member changes, the frame stays.
\* RunCheckpoint gives up when it was its marker.
AppendSyncFails ==
    /\ Fault("sync")
    /\ pc = "written"
    /\ pc' = "idle" /\ work' = {}
    /\ cpReq' = IF \E r \in work : r.c.type = "CHECKPOINT" THEN -1 ELSE cpReq
    /\ UNCHANGED <<file, hwm, mode, memory, cpLeft, acked>>

-----------------------------------------------------------------------------
(* Checkpoint and prune *)

ClaimedBelow(cp) ==
    {r.c.key : r \in {g \in Readable : g.c.type = "CLAIMED" /\ g.c.lsn <= cp}}

UnclaimedIntentsBelow(cp) ==
    {r \in Readable : /\ r.c.type = "INTENT" /\ r.c.lsn < cp
                      /\ r.c.key \notin ClaimedBelow(cp)}

\* RunCheckpoint up to its marker.  The tip `cp` that the quorum agreed on was
\* read earlier, so later records may follow it.
RunCheckpoint(cp) ==
    /\ cpReq = -1 /\ cpLeft > 0
    /\ UnclaimedIntentsBelow(cp) = {}
    /\ WriteFrame("CHECKPOINT", CpKey)
    /\ cpReq' = cp
    /\ cpLeft' = cpLeft - 1

Droppable(cp) ==
    {r \in Readable : /\ r.c.lsn <= cp /\ r.c.type \in Transit
                      /\ r.c.key \in ClaimedBelow(cp)}

\* The survivors keep their LSNs; the chain is rebuilt from the first one.
Rechain(S) ==
    {[pos |-> r.pos, c |-> r.c,
      prev |-> ContentsOf({g \in S : g.pos < r.pos}),
      hash |-> ContentsOf({g \in S : g.pos <= r.pos})] : r \in S}

\* Prune up to and including remove(path_): the survivors are in <wal>.rewrite,
\* synced.  Until the directory is synced a crash may still find the old file,
\* so `recs` keeps it.  A failing rename leaves the node here: file_ is closed,
\* and every later Append fails.
PruneRemove ==
    /\ mode = "up" /\ pc = "idle" /\ cpReq >= 0
    /\ Droppable(cpReq) # {}
    /\ work' = Rechain(Readable \ Droppable(cpReq))
    /\ acked' = acked \ ContentsOf(Droppable(cpReq))
    /\ pc' = "removed"
    /\ UNCHANGED <<file, hwm, mode, memory, checkpoint, faultsLeft>>

PruneNothing ==
    /\ mode = "up" /\ pc = "idle" /\ cpReq >= 0
    /\ Droppable(cpReq) = {}
    /\ cpReq' = -1
    /\ UNCHANGED <<file, hwm, mode, memory, pc, work, cpLeft, faultsLeft, acked>>

\* rename(tmp, path_), SyncDirForFile, reopen.
PruneRename ==
    /\ pc = "removed"
    /\ recs' = work /\ torn' = {} /\ unsynced' = {}
    /\ pc' = "renamed"
    /\ UNCHANGED <<eof, hwm, mode, memory, work, checkpoint, faultsLeft, acked>>

\* Mutant: tip_hash_ still names the tip before the prune.
PruneCommitOldTip ==
    /\ pc = "renamed"
    /\ next_lsn' = TipId(work) + 1
    /\ hwm' = Mark(TipId(work), TipHash(work))
    /\ last_checkpoint_lsn' = LastCheckpoint(work)
    /\ pc' = "idle" /\ work' = {}
    /\ cpReq' = -1
    /\ UNCHANGED <<file, mode, tip_hash, cpLeft, faultsLeft, acked>>

\* Mutant: the mark is not refreshed.
PruneCommitOldMark ==
    /\ pc = "renamed"
    /\ tip_hash' = TipHash(work)
    /\ next_lsn' = TipId(work) + 1
    /\ last_checkpoint_lsn' = LastCheckpoint(work)
    /\ pc' = "idle" /\ work' = {}
    /\ cpReq' = -1
    /\ UNCHANGED <<file, hwm, mode, cpLeft, faultsLeft, acked>>

\* The members and the mark follow the re-chained tip.
PruneCommit ==
    /\ pc = "renamed"
    /\ tip_hash' = TipHash(work)
    /\ next_lsn' = TipId(work) + 1
    /\ hwm' = Mark(TipId(work), TipHash(work))
    /\ last_checkpoint_lsn' = LastCheckpoint(work)
    /\ pc' = "idle" /\ work' = {}
    /\ cpReq' = -1
    /\ UNCHANGED <<file, mode, cpLeft, faultsLeft, acked>>

-----------------------------------------------------------------------------
(* Crash and boot *)

Pruning == pc \in {"removed", "renamed"}

\* The frames no sync covered may be lost from some point on.
LoseUnsynced ==
    \E p \in {r.pos : r \in unsynced} \cup {eof} :
        /\ recs' = {r \in recs : r.pos < p}
        /\ torn' = {t \in torn : t.pos < p}
        /\ eof' = p

\* The first lost frame may survive in part.
TearUnsynced ==
    \E p \in {r.pos : r \in unsynced} : \E t \in Partial(p) :
        /\ recs' = {r \in recs : r.pos < p}
        /\ torn' = {u \in torn : u.pos < p} \cup {t}
        /\ eof' = p + 1

\* Between remove(path_) and the directory sync there may be the old file, no
\* file, or the rewritten one; after it, the rewritten one.
InterruptPrune ==
    /\ \/ UNCHANGED <<recs, torn>>
       \/ pc = "removed" /\ recs' \in {{}, work} /\ torn' = {}
    /\ UNCHANGED eof

\* A mark being replaced (remove, then rename) may be missing afterwards; the
\* record it was for is durable by then.
CrashedMark ==
    \/ hwm' = hwm
    \/ pc = "written" /\ recs' = recs /\ hwm' = NoMark
    \/ pc = "renamed" /\ hwm' = NoMark

Crash ==
    /\ mode = "up"
    /\ \/ ~Pruning /\ LoseUnsynced /\ UNCHANGED faultsLeft
       \/ ~Pruning /\ TearUnsynced /\ Fault("torn")
       \/ Pruning /\ InterruptPrune /\ Fault("prune")
    /\ CrashedMark
    /\ unsynced' = {}
    /\ mode' = "down"
    /\ next_lsn' = 0 /\ tip_hash' = GenesisHash /\ last_checkpoint_lsn' = -1
    /\ pc' = "idle" /\ work' = {}
    /\ cpReq' = -1
    /\ UNCHANGED <<cpLeft, acked>>

\* Mutant: next_lsn_ is the last LSN instead of the one after it.
BootOffByOne ==
    /\ mode # "up"
    /\ IF MarkOK /\ VerifyChain
       THEN /\ mode' = "up"
            /\ next_lsn' = IF Readable = {} THEN 0 ELSE TipId(Readable)
            /\ tip_hash' = TipHash(Readable)
            /\ last_checkpoint_lsn' = LastCheckpoint(Readable)
       ELSE mode' = "refused" /\ UNCHANGED memory
    /\ UNCHANGED <<file, hwm, pc, work, checkpoint, faultsLeft, acked>>

\* Open: read, check the mark, verify the chain.
Boot ==
    /\ mode # "up"
    /\ IF MarkOK /\ VerifyChain
       THEN /\ mode' = "up"
            /\ next_lsn' = TipId(Readable) + 1
            /\ tip_hash' = TipHash(Readable)
            /\ last_checkpoint_lsn' = LastCheckpoint(Readable)
       ELSE mode' = "refused" /\ UNCHANGED memory
    /\ UNCHANGED <<file, hwm, pc, work, checkpoint, faultsLeft, acked>>

Next ==
    \/ \E type \in {"PUT"} \cup Transit, key \in Keys : AppendRecord(type, key)
    \/ AppendWriteFails
    \/ AppendSynced
    \/ AppendFlushLost
    \/ AppendSyncFails
    \/ \E cp \in 0 .. next_lsn - 1 : RunCheckpoint(cp)
    \/ PruneRemove
    \/ PruneNothing
    \/ PruneRename
    \/ PruneCommit
    \/ Crash
    \/ Boot

Spec == Init /\ [][Next]_vars

-----------------------------------------------------------------------------
(* Properties *)

Moments == {"idle", "written", "removed", "renamed"}

\* Every member has its type; a frame in flight is exactly one frame.
TypeOK ==
    /\ recs \subseteq Frames
    /\ unsynced \subseteq recs
    /\ torn \subseteq [pos : Nat, swallow : Nat]
    /\ eof \in Nat
    /\ \A f \in recs \cup torn : f.pos < eof
    /\ hwm \in [id : Nat \cup {-1}, hash : SUBSET Contents]
    /\ mode \in {"down", "up", "refused"}
    /\ next_lsn \in 0 .. MaxLsn /\ tip_hash \subseteq Contents
    /\ last_checkpoint_lsn \in Nat \cup {-1}
    /\ pc \in Moments
    /\ work \subseteq Frames
    /\ cpReq \in Nat \cup {-1} /\ cpLeft \in Nat
    /\ faultsLeft \in 0 .. MaxFaults
    /\ acked \subseteq Contents

NoFaultYet == faultsLeft = MaxFaults

\* The durability contract of Append (wal.h:196-199): a record whose Append
\* returned OK is read back from the file, whatever crash comes between,
\* until a checkpoint settles it.
Durable == NoFaultYet => acked \subseteq ContentsOf(Readable)

\* Between two calls the members describe the file: the next Append gets the
\* LSN after the last record a reader finds and chains to that record's hash,
\* and last_checkpoint_lsn_ is the newest marker in the file.
MembersMatchFile ==
    NoFaultYet /\ mode = "up" /\ pc = "idle" =>
        /\ next_lsn = TipId(Readable) + 1
        /\ tip_hash = TipHash(Readable)
        /\ last_checkpoint_lsn = LastCheckpoint(Readable)

\* Open never refuses a file this code wrote: no corruption, chain break or
\* mark mismatch appears unless the disk misbehaves (wal.cpp:364-369, 394-397).
NeverRefused == NoFaultYet => mode # "refused"

\* An LSN is assigned to one acknowledged record only, also across prunes
\* that remove the newest transit records (wal.cpp:925) and across crashes.
LsnNamesOneRecord ==
    NoFaultYet => \A a, b \in acked : a.lsn = b.lsn => a = b

\* Whatever the disk did, a boot that succeeds still has every acknowledged
\* record of the chain its high-water mark was taken from: that is what the
\* mark is for (wal.cpp:364-370).
MarkedRecordsSurviveBoot ==
    [][mode # "up" /\ mode' = "up" =>
          acked \cap hwm.hash \subseteq ContentsOf(Readable)]_vars

-----------------------------------------------------------------------------
(* The inductive invariants behind TypeOK, Durable and LsnNamesOneRecord *)

\* Where mu_ can be held, and what an append in progress has.
TypeInv ==
    /\ TypeOK
    /\ mode # "up" => pc = "idle"
    /\ pc = "written" => next_lsn < MaxLsn
    /\ pc = "removed" => \A r \in work : r.pos < eof
    /\ pc = "renamed" => work = recs

\* Positions name frames, and LSNs grow with them.
Ordered(S) ==
    \A g, h \in S : /\ g.pos = h.pos => g = h
                    /\ g.pos < h.pos => g.c.lsn < h.c.lsn

\* The frame being appended is the last one, and the only one not synced.
AppendInv ==
    IF pc = "written"
    THEN \E r \in recs : /\ work = {r} /\ unsynced = {r}
                         /\ r.pos = eof - 1 /\ r.c.lsn = next_lsn
    ELSE unsynced = {}

\* The rewritten file is ordered and holds only records of the old one.
PruneInv ==
    Pruning => /\ Ordered(work)
               /\ \A r \in work : \E g \in recs : r.c = g.c

\* Acknowledged records are synced and survive the prune in progress.
AckInv ==
    /\ acked \subseteq ContentsOf(recs \ unsynced)
    /\ Pruning => acked \subseteq ContentsOf(work)

NoFaultInv ==
    /\ torn = {}
    /\ Ordered(recs)
    /\ PruneInv
    /\ AppendInv
    /\ AckInv
    /\ mode = "up" => \A r \in recs \ unsynced : r.c.lsn < next_lsn

IInv == TypeInv /\ (NoFaultYet => NoFaultInv)

-----------------------------------------------------------------------------
(* The stronger one behind MembersMatchFile, NeverRefused and               *)
(* MarkedRecordsSurviveBoot                                                 *)

\* What the members and the mark say of the synced part of the file.
MembersInv ==
    /\ mode # "refused"
    /\ mode = "up" /\ ~Pruning =>
          /\ next_lsn = TipId(recs \ unsynced) + 1
          /\ last_checkpoint_lsn = LastCheckpoint(recs \ unsynced)
    /\ pc # "renamed" =>
          /\ hwm.id <= TipId(recs \ unsynced)
          /\ hwm.id = TipId(recs \ unsynced) => hwm.hash = TipHash(recs \ unsynced)

\* The records before the first partial frame.
Front == {r \in recs : \A t \in torn : r.pos < t.pos}

\* Each record links to the contents before it.
Chained(S) ==
    \A r \in S : /\ r.prev = ContentsOf({g \in S : g.pos < r.pos})
                 /\ r.hash = ContentsOf({g \in S : g.pos <= r.pos})

\* The frame being appended is the last one, whatever the disk did before.
FrameInv ==
    pc = "written" =>
        \E r \in recs : /\ work = {r} /\ r.pos = eof - 1 /\ r.c.lsn = next_lsn
                        /\ r.hash = Link(tip_hash, r.c)

\* What the running log knows of the file: LSNs up to the next one, and the
\* chain as long as no failed write lies in between.
TipInv ==
    mode = "up" /\ pc # "renamed" =>
        /\ \A g \in Front : g.c.lsn <= next_lsn
        /\ \A c \in tip_hash : c.lsn < next_lsn
        /\ hwm.id < next_lsn
        /\ (/\ pc = "idle" /\ torn = {} /\ Ordered(recs)
            /\ \A r \in recs : r.c.lsn < next_lsn) => tip_hash = ContentsOf(recs)

\* The acknowledged records of the marked chain are safe in the file; or the
\* marked frame is in the file, before all that a reader finds above the mark;
\* or the file has nothing above the mark, and the log is not open.
Kept == acked \cap hwm.hash \subseteq ContentsOf(Readable \ unsynced)

Anchored ==
    \E m \in recs : /\ m.c.lsn = hwm.id /\ m.hash = hwm.hash
                    /\ \A g \in Front : g.c.lsn > hwm.id => m.pos < g.pos

Short == mode # "up" /\ \A g \in Front : g.c.lsn <= hwm.id

\* The same of a rewritten file the mark does not name yet.
RewriteInv ==
    Pruning => /\ Ordered(work) /\ Chained(work)
               /\ pc = "renamed" => torn = {}
               /\ \/ acked \cap hwm.hash \subseteq ContentsOf(work)
                  \/ \A g \in work : g.c.lsn <= hwm.id

\* One frame per position, and nothing unsynced before anything synced.
PlaceInv ==
    /\ \A g, h \in recs : g.pos = h.pos => g = h
    /\ \A g \in recs \ unsynced, u \in unsynced : g.pos < u.pos

\* What holds of the file and its mark whatever the disk did.
MarkInv ==
    /\ PlaceInv
    /\ Chained(Readable)
    /\ FrameInv
    /\ TipInv
    /\ \A c \in hwm.hash : c.lsn <= hwm.id
    /\ RewriteInv
    /\ pc # "renamed" => Kept \/ Anchored \/ Short

FullInv == IInv /\ MarkInv /\ (NoFaultYet => MembersInv)

=============================================================================
