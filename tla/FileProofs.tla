----------------------------- MODULE FileProofs -----------------------------
(***************************************************************************)
(* Theorems about the files of a node: the write-ahead log (module Ledger),*)
(* and the migration of a data directory (module Reencrypt).               *)
(***************************************************************************)
EXTENDS Ledger, Reencrypt, WellFoundedInduction, TLAPS

\* Leaves are first-order unless they name another backend.
USE Zenon

(***************************************************************************)
(* The last frame of a file.                                               *)
(***************************************************************************)

\* The order of the naturals as the relation of NatLessThanWellFounded.
LEMMA LessThanRel ==
    \A x, y \in Nat : x < y => <<x, y>> \in OpToRel(<, Nat)
BY Zenon DEF OpToRel

\* A nonempty set of frames that all lie below some position has a last frame.
LEMMA LastFrame ==
    ASSUME NEW S, NEW n \in Nat, S # {},
           \A r \in S : r.pos \in Nat /\ r.pos < n
    PROVE  /\ Last(S) \in S
           /\ \A g \in S : g.pos <= Last(S).pos
<1> DEFINE D == {n - r.pos : r \in S}
<1>1. D \subseteq Nat /\ D # {}
  BY SMT
<1>2. PICK d \in D : \A e \in D : ~ (<<e, d>> \in OpToRel(<, Nat))
  BY <1>1, WFMin, NatLessThanWellFounded
<1>3. PICK r \in S : d = n - r.pos
  OBVIOUS
<1>4. \A g \in S : g.pos <= r.pos
  <2>1. SUFFICES ASSUME NEW g \in S PROVE ~ (n - g.pos < d)
    BY <1>3, SMT
  <2>2. n - g.pos \in D
    OBVIOUS
  <2> QED
    BY <2>2, <1>1, <1>2, LessThanRel
<1> QED
  BY <1>4 DEF Last

\* The tip of any set of frames is an LSN or -1, and its hash a hash.
LEMMA TipType ==
    ASSUME NEW n \in Nat, NEW S \in SUBSET Frames, \A r \in S : r.pos < n
    PROVE  /\ TipId(S) \in (0 .. MaxLsn - 1) \cup {-1}
           /\ TipHash(S) \subseteq Contents
           /\ LastCheckpoint(S) \in (0 .. MaxLsn - 1) \cup {-1}
<1>1. ASSUME NEW T \in SUBSET S
      PROVE  /\ TipId(T) \in (0 .. MaxLsn - 1) \cup {-1}
             /\ TipHash(T) \subseteq Contents
  <2>1. CASE T = {}
    BY <2>1 DEF TipId, TipHash, GenesisHash
  <2>2. CASE T # {}
    <3>1. Last(T) \in T
      BY <2>2, LastFrame DEF Frames
    <3> QED
      BY <2>2, <3>1 DEF TipId, TipHash, Frames, Contents
  <2> QED
    BY <2>1, <2>2
<1> QED
  BY <1>1 DEF LastCheckpoint

(***************************************************************************)
(* Type correctness.                                                       *)
(***************************************************************************)

LEMMA NextFrameType ==
    ASSUME TypeInv, CanAppend,
           NEW type \in {"PUT", "CHECKPOINT"} \cup Transit,
           NEW key \in Keys \cup {CpKey}
    PROVE  /\ NextFrame(type, key) \in Frames
           /\ NextFrame(type, key).pos = eof
BY LedgerAssumption, SMT
   DEF TypeInv, TypeOK, CanAppend, NextFrame, Frames, Contents, Link

LEMMA TypeInit == Init => TypeInv
BY LedgerAssumption, SMT
   DEF Init, TypeInv, TypeOK, NoMark, GenesisHash, Moments

LEMMA WriteFrameType ==
    ASSUME TypeInv, NEW type \in {"PUT", "CHECKPOINT"} \cup Transit,
           NEW key \in Keys \cup {CpKey}, WriteFrame(type, key),
           cpReq' \in Nat \cup {-1}, cpLeft' \in Nat
    PROVE  TypeInv'
<1>1. CanAppend
  BY DEF WriteFrame
<1>2. /\ NextFrame(type, key) \in Frames
      /\ NextFrame(type, key).pos = eof
  BY <1>1, NextFrameType
<1>3. eof' \in Nat /\ \A f \in recs' \cup torn' : f.pos < eof'
  BY <1>2, SMT DEF TypeInv, TypeOK, WriteFrame, Frames
<1> QED
  BY <1>1, <1>2, <1>3 DEF TypeInv, TypeOK, WriteFrame, CanAppend, memory, Moments

LEMMA AcknowledgeType ==
    ASSUME TypeInv, pc = "written", NEW r \in work, Acknowledge(r),
           UNCHANGED <<recs, torn, eof, mode, checkpoint>>,
           unsynced' \subseteq unsynced, faultsLeft' \in 0 .. MaxFaults
    PROVE  TypeInv'
<1>1. r \in Frames
  BY DEF TypeInv, TypeOK
<1>2. r.c.lsn \in Nat /\ r.hash \in SUBSET Contents /\ r.c \in Contents
  BY <1>1, LedgerAssumption, SMT DEF Frames, Contents
<1>3. hwm' \in [id : Nat \cup {-1}, hash : SUBSET Contents]
  BY <1>2, SMT DEF TypeInv, TypeOK, Acknowledge, Mark
<1>4. next_lsn' \in 0 .. MaxLsn
  BY LedgerAssumption, SMT DEF TypeInv, TypeOK, Acknowledge
<1> QED
  BY <1>2, <1>3, <1>4 DEF TypeInv, TypeOK, Acknowledge, checkpoint, Moments

\* Re-chaining changes links and hashes only.
LEMMA RechainFrames ==
    ASSUME NEW S
    PROVE  /\ \A r \in Rechain(S) : \E g \in S : r.pos = g.pos /\ r.c = g.c
           /\ \A g \in S : \E r \in Rechain(S) : r.pos = g.pos /\ r.c = g.c
           /\ Ordered(S) => Ordered(Rechain(S))
<1> DEFINE R(g) == [pos |-> g.pos, c |-> g.c,
                    prev |-> ContentsOf({x \in S : x.pos < g.pos}),
                    hash |-> ContentsOf({x \in S : x.pos <= g.pos})]
<1>1. \A g : R(g).pos = g.pos /\ R(g).c = g.c
  OBVIOUS
<1>2. Rechain(S) = {R(g) : g \in S}
  BY DEF Rechain
<1> HIDE DEF R
<1>3. ASSUME Ordered(S) PROVE Ordered(Rechain(S))
  <2> SUFFICES ASSUME NEW g \in S, NEW h \in S
               PROVE  /\ R(g).pos = R(h).pos => R(g) = R(h)
                      /\ R(g).pos < R(h).pos => R(g).c.lsn < R(h).c.lsn
    BY <1>2 DEF Ordered
  <2> QED
    BY <1>1, <1>3, SMT DEF Ordered
<1> QED
  BY <1>1, <1>2, <1>3, SMT

LEMMA PruneRemoveType == TypeInv /\ PruneRemove => TypeInv'
<1> SUFFICES ASSUME TypeInv, PruneRemove PROVE TypeInv'
  OBVIOUS
<1> DEFINE K == Readable \ Droppable(cpReq)
<1>1. K \subseteq recs /\ recs \subseteq Frames
  BY DEF Readable, TypeInv, TypeOK
<1>2. Rechain(K) \subseteq Frames
  BY <1>1, SMT DEF Rechain, ContentsOf, Frames
<1>3. \A r \in Rechain(K) : r.pos < eof
  <2>1. \A r \in K : r.pos < eof
    BY <1>1 DEF TypeInv, TypeOK
  <2> QED
    BY <2>1, RechainFrames, SMT
<1> QED
  BY <1>2, <1>3
  DEF TypeInv, TypeOK, PruneRemove, file, memory, checkpoint, Moments

LEMMA PruneCommitType == TypeInv /\ PruneCommit => TypeInv'
<1> SUFFICES ASSUME TypeInv, PruneCommit PROVE TypeInv'
  OBVIOUS
<1>1. work \in SUBSET Frames /\ eof \in Nat /\ \A r \in work : r.pos < eof
  BY DEF TypeInv, TypeOK, PruneCommit
<1>2. /\ TipId(work) \in (0 .. MaxLsn - 1) \cup {-1}
      /\ TipHash(work) \subseteq Contents
      /\ LastCheckpoint(work) \in (0 .. MaxLsn - 1) \cup {-1}
  BY <1>1, TipType
<1> QED
  BY <1>2, LedgerAssumption, SMT
  DEF TypeInv, TypeOK, PruneCommit, Mark, file, Moments

LEMMA CrashType == TypeInv /\ Crash => TypeInv'
<1> SUFFICES ASSUME TypeInv, Crash PROVE TypeInv'
  OBVIOUS
<1>1. faultsLeft' \in 0 .. MaxFaults
  BY LedgerAssumption, SMT DEF TypeInv, TypeOK, Crash, Fault
<1>2. hwm' \in [id : Nat \cup {-1}, hash : SUBSET Contents]
  BY SMT DEF TypeInv, TypeOK, Crash, CrashedMark, NoMark, GenesisHash
<1>3. /\ recs' \subseteq Frames /\ torn' \subseteq [pos : Nat, swallow : Nat]
      /\ eof' \in Nat /\ \A f \in recs' \cup torn' : f.pos < eof'
  <2>1. CASE LoseUnsynced
    BY <2>1, SMT DEF TypeInv, TypeOK, LoseUnsynced, Frames
  <2>2. CASE TearUnsynced
    BY <2>2, LedgerAssumption, SMT DEF TypeInv, TypeOK, TearUnsynced, Partial, Frames
  <2>3. CASE Pruning /\ InterruptPrune
    BY <2>3 DEF TypeInv, TypeOK, Pruning, InterruptPrune
  <2> QED
    BY <2>1, <2>2, <2>3 DEF Crash
<1> QED
  BY <1>1, <1>2, <1>3, LedgerAssumption, SMT
  DEF TypeInv, TypeOK, Crash, GenesisHash, Moments

LEMMA BootType == TypeInv /\ Boot => TypeInv'
<1> SUFFICES ASSUME TypeInv, Boot PROVE TypeInv'
  OBVIOUS
<1>1. Readable \in SUBSET Frames /\ eof \in Nat /\ \A r \in Readable : r.pos < eof
  BY DEF TypeInv, TypeOK, Readable
<1>2. /\ TipId(Readable) \in (0 .. MaxLsn - 1) \cup {-1}
      /\ TipHash(Readable) \subseteq Contents
      /\ LastCheckpoint(Readable) \in (0 .. MaxLsn - 1) \cup {-1}
  BY <1>1, TipType
<1> QED
  BY <1>2, LedgerAssumption, SMT
  DEF TypeInv, TypeOK, Boot, memory, file, checkpoint, Moments

LEMMA TypeStep == TypeInv /\ [Next]_vars => TypeInv'
<1> SUFFICES ASSUME TypeInv, [Next]_vars PROVE TypeInv'
  OBVIOUS
<1>1. ASSUME NEW type \in {"PUT"} \cup Transit, NEW key \in Keys, AppendRecord(type, key)
      PROVE  TypeInv'
  BY <1>1, WriteFrameType DEF AppendRecord, checkpoint, TypeInv, TypeOK
<1>2. CASE AppendWriteFails
  <2>1. faultsLeft' \in 0 .. MaxFaults
    BY <1>2, LedgerAssumption, SMT DEF AppendWriteFails, Fault, TypeInv, TypeOK
  <2>2. /\ torn' \subseteq [pos : Nat, swallow : Nat] /\ eof' \in Nat
        /\ \A f \in recs' \cup torn' : f.pos < eof'
    BY <1>2, LedgerAssumption, SMT
    DEF AppendWriteFails, Partial, TypeInv, TypeOK, Frames
  <2> QED
    BY <1>2, <2>1, <2>2
    DEF AppendWriteFails, CanAppend, memory, checkpoint, TypeInv, TypeOK
<1>3. CASE AppendSynced
  BY <1>3, AcknowledgeType DEF AppendSynced, TypeInv, TypeOK
<1>4. CASE AppendFlushLost
  BY <1>4, AcknowledgeType, LedgerAssumption, SMT
  DEF AppendFlushLost, Fault, file, TypeInv, TypeOK
<1>5. CASE AppendSyncFails
  BY <1>5, LedgerAssumption, SMT
  DEF AppendSyncFails, Fault, file, memory, TypeInv, TypeOK, Moments
<1>6. ASSUME NEW cp \in 0 .. next_lsn - 1, RunCheckpoint(cp)
      PROVE  TypeInv'
  <2>1. cp \in Nat /\ cpLeft - 1 \in Nat
    BY <1>6, SMT DEF RunCheckpoint, TypeInv, TypeOK
  <2> QED
    BY <1>6, <2>1, WriteFrameType DEF RunCheckpoint
<1>7. CASE PruneRemove
  BY <1>7, PruneRemoveType
<1>8. CASE PruneNothing
  BY <1>8 DEF PruneNothing, file, memory, TypeInv, TypeOK
<1>9. CASE PruneRename
  BY <1>9 DEF PruneRename, memory, checkpoint, TypeInv, TypeOK, Moments
<1>10. CASE PruneCommit
  BY <1>10, PruneCommitType
<1>11. CASE Crash
  BY <1>11, CrashType
<1>12. CASE Boot
  BY <1>12, BootType
<1>13. CASE UNCHANGED vars
  BY <1>13 DEF vars, TypeInv, TypeOK
<1> QED
  BY <1>1, <1>2, <1>3, <1>4, <1>5, <1>6, <1>7, <1>8, <1>9, <1>10, <1>11,
     <1>12, <1>13 DEF Next

\* Every member of the log has its type in every reachable state, for every
\* number of keys, LSNs, frames, checkpoints and faults; in particular the
\* guard of Append keeps next_lsn_ from passing the largest LSN
\* (wal.cpp:458-460), also through a prune and a boot.
THEOREM TypeCorrect == Spec => []TypeOK
<1>1. TypeInv => TypeOK
  BY DEF TypeInv
<1> QED
  BY <1>1, TypeInit, TypeStep, PTL DEF Spec

(***************************************************************************)
(* Durability, as long as the disk does what it is asked to do.            *)
(***************************************************************************)

\* A file without partial frames and with growing LSNs is read to its end.
LEMMA ReadableAll ==
    ASSUME torn = {}, Ordered(recs)
    PROVE  Readable = recs
BY DEF Readable, Ordered

\* No step that uses up a fault ends in a state where none has happened.
LEMMA NoFaultBefore ==
    ASSUME TypeInv, [Next]_vars, NoFaultYet'
    PROVE  NoFaultYet /\ faultsLeft' = faultsLeft /\ \A k : ~Fault(k)
<1>1. faultsLeft \in 0 .. MaxFaults
  BY DEF TypeInv, TypeOK
<1>2. \A k : ~Fault(k)
  BY <1>1, LedgerAssumption, SMT DEF Fault, NoFaultYet
<1>3. faultsLeft' = faultsLeft
  <2>1. CASE Crash
    BY <2>1, <1>2 DEF Crash
  <2>2. CASE Next /\ ~Crash
    BY <2>2, <1>2
    DEF Next, AppendRecord, AppendWriteFails, AppendSynced, AppendFlushLost,
        AppendSyncFails, RunCheckpoint, WriteFrame, PruneRemove, PruneNothing,
        PruneRename, PruneCommit, Boot
  <2> QED
    BY <2>1, <2>2 DEF vars
<1> QED
  BY <1>2, <1>3 DEF NoFaultYet

LEMMA WriteFrameNoFault ==
    ASSUME TypeInv, NoFaultInv,
           NEW type \in {"PUT", "CHECKPOINT"} \cup Transit,
           NEW key \in Keys \cup {CpKey}, WriteFrame(type, key)
    PROVE  NoFaultInv'
<1> DEFINE f == NextFrame(type, key)
<1>1. /\ mode = "up" /\ pc = "idle" /\ unsynced = {} /\ recs' = recs \cup {f}
      /\ unsynced' = {f} /\ work' = {f} /\ eof' = eof + 1 /\ pc' = "written"
      /\ torn' = torn /\ mode' = mode /\ next_lsn' = next_lsn /\ acked' = acked
  BY DEF WriteFrame, CanAppend, NoFaultInv, AppendInv, memory
<1>2. f.pos = eof /\ f.c.lsn = next_lsn
  BY DEF NextFrame
<1>3. /\ eof \in Nat
      /\ \A r \in recs : r.pos \in Nat /\ r.pos < eof /\ r.c.lsn < next_lsn
  BY <1>1 DEF TypeInv, TypeOK, NoFaultInv, Frames
<1> HIDE DEF f
<1>4. recs' \ unsynced' = recs
  BY <1>1, <1>2, <1>3, SMT
<1>5. Ordered(recs')
  BY <1>1, <1>2, <1>3, SMT DEF NoFaultInv, Ordered
<1>6. AppendInv'
  BY <1>1, <1>2, <1>3, SMT DEF AppendInv
<1>7. AckInv'
  BY <1>1, <1>4 DEF NoFaultInv, AckInv, Pruning
<1> QED
  BY <1>1, <1>3, <1>4, <1>5, <1>6, <1>7 DEF NoFaultInv, PruneInv, Pruning

LEMMA AppendSyncedNoFault == TypeInv /\ NoFaultInv /\ AppendSynced => NoFaultInv'
<1> SUFFICES ASSUME TypeInv, NoFaultInv, AppendSynced PROVE NoFaultInv'
  OBVIOUS
<1>1. PICK r \in recs : /\ work = {r} /\ unsynced = {r} /\ r.c.lsn = next_lsn
  BY DEF AppendSynced, NoFaultInv, AppendInv
<1>2. /\ pc' = "idle" /\ unsynced' = {} /\ next_lsn' = next_lsn + 1
      /\ acked' = acked \cup {r.c} /\ recs' = recs /\ torn' = torn
  BY <1>1 DEF AppendSynced, Acknowledge
<1>3. next_lsn \in Nat /\ \A g \in recs : g.c.lsn \in Nat
  BY LedgerAssumption, SMT DEF TypeInv, TypeOK, Frames, Contents
<1>4. AckInv'
  BY <1>1, <1>2 DEF NoFaultInv, AckInv, ContentsOf, Pruning
<1>5. mode' = "up" => \A g \in recs' \ unsynced' : g.c.lsn < next_lsn'
  BY <1>1, <1>2, <1>3, SMT DEF NoFaultInv, AppendSynced
<1> QED
  BY <1>2, <1>4, <1>5 DEF NoFaultInv, PruneInv, AppendInv, Pruning, Ordered

LEMMA PruneRemoveNoFault == TypeInv /\ NoFaultInv /\ PruneRemove => NoFaultInv'
<1> SUFFICES ASSUME TypeInv, NoFaultInv, PruneRemove PROVE NoFaultInv'
  OBVIOUS
<1> DEFINE D == Droppable(cpReq)
           K == Readable \ D
<1>1. Readable = recs
  BY ReadableAll DEF NoFaultInv
<1>2. /\ pc = "idle" /\ pc' = "removed" /\ work' = Rechain(K)
      /\ acked' = acked \ ContentsOf(D) /\ recs' = recs /\ unsynced' = unsynced
      /\ torn' = torn /\ mode' = mode /\ next_lsn' = next_lsn
  BY DEF PruneRemove, file, memory
<1> HIDE DEF D
<1>3. Ordered(Rechain(K))
  <2>1. Ordered(K)
    BY <1>1 DEF NoFaultInv, Ordered
  <2> QED
    BY <2>1, RechainFrames
<1>4. acked' \subseteq ContentsOf(Rechain(K))
  <2> SUFFICES ASSUME NEW c \in acked' PROVE c \in ContentsOf(Rechain(K))
    OBVIOUS
  <2>1. PICK g \in recs : g.c = c
    BY <1>2 DEF NoFaultInv, AckInv, ContentsOf
  <2>2. g \in K
    BY <1>1, <1>2, <2>1 DEF ContentsOf
  <2>3. PICK r \in Rechain(K) : r.c = g.c
    BY <2>2, RechainFrames
  <2> QED
    BY <2>1, <2>3 DEF ContentsOf
<1>5. AckInv'
  BY <1>2, <1>4 DEF NoFaultInv, AckInv, ContentsOf
<1>6. \A r \in Rechain(K) : \E g \in recs : r.c = g.c
  BY <1>1, RechainFrames, SMT
<1> QED
  BY <1>2, <1>3, <1>5, <1>6 DEF NoFaultInv, PruneInv, AppendInv, Ordered

\* In an ordered file no LSN exceeds the tip.
LEMMA TipBound ==
    ASSUME NEW n \in Nat, NEW S \in SUBSET Frames, \A r \in S : r.pos < n,
           Ordered(S), NEW r \in S
    PROVE  r.c.lsn < TipId(S) + 1
<1>1. Last(S) \in S /\ \A g \in S : g.pos <= Last(S).pos
  BY LastFrame DEF Frames
<1>2. r.c.lsn \in Nat /\ r.pos \in Nat /\ Last(S).pos \in Nat /\ Last(S).c.lsn \in Nat
  BY <1>1, LedgerAssumption, SMT DEF Frames, Contents
<1>3. r.pos < Last(S).pos \/ r = Last(S)
  BY <1>1, <1>2, SMT DEF Ordered
<1> QED
  BY <1>1, <1>2, <1>3, SMT DEF Ordered, TipId

LEMMA PruneRenameNoFault == TypeInv /\ NoFaultInv /\ PruneRename => NoFaultInv'
<1> SUFFICES ASSUME TypeInv, NoFaultInv, PruneRename PROVE NoFaultInv'
  OBVIOUS
<1>1. /\ pc = "removed" /\ pc' = "renamed" /\ recs' = work /\ work' = work
      /\ torn' = {} /\ unsynced' = {} /\ unsynced = {} /\ acked' = acked
      /\ mode' = mode /\ next_lsn' = next_lsn
  BY DEF PruneRename, memory, NoFaultInv, AppendInv
<1>2. Ordered(work) /\ acked \subseteq ContentsOf(work)
  BY <1>1 DEF NoFaultInv, PruneInv, AckInv, Pruning
<1>3. \A r \in work : \E g \in recs : r.c = g.c
  BY <1>1 DEF NoFaultInv, PruneInv, Pruning
<1>4. mode = "up" => \A r \in work : r.c.lsn < next_lsn
  BY <1>1, <1>3 DEF NoFaultInv
<1> QED
  BY <1>1, <1>2, <1>4 DEF NoFaultInv, PruneInv, AppendInv, AckInv, Ordered

LEMMA PruneCommitNoFault == TypeInv /\ NoFaultInv /\ PruneCommit => NoFaultInv'
<1> SUFFICES ASSUME TypeInv, NoFaultInv, PruneCommit PROVE NoFaultInv'
  OBVIOUS
<1>1. /\ pc = "renamed" /\ pc' = "idle" /\ work = recs /\ recs' = recs
      /\ torn' = torn /\ unsynced' = unsynced /\ unsynced = {} /\ acked' = acked
      /\ next_lsn' = TipId(recs) + 1
  BY DEF PruneCommit, file, NoFaultInv, AppendInv, TypeInv
<1>2. /\ eof \in Nat /\ recs \in SUBSET Frames /\ Ordered(recs)
      /\ \A r \in recs : r.pos < eof
  BY DEF TypeInv, TypeOK, NoFaultInv
<1>3. \A r \in recs : r.c.lsn < next_lsn'
  BY <1>1, <1>2, TipBound
<1> QED
  BY <1>1, <1>3 DEF NoFaultInv, PruneInv, AppendInv, AckInv, Ordered, Pruning

LEMMA CrashNoFault ==
    ASSUME TypeInv, NoFaultInv, Crash, \A k : ~Fault(k)
    PROVE  NoFaultInv'
<1>1. ~Pruning /\ LoseUnsynced
  BY DEF Crash
<1>2. PICK p \in {r.pos : r \in unsynced} \cup {eof} :
         recs' = {r \in recs : r.pos < p} /\ torn' = {t \in torn : t.pos < p}
  BY <1>1 DEF LoseUnsynced
<1>3. recs \ unsynced \subseteq recs'
  <2> SUFFICES ASSUME NEW g \in recs \ unsynced PROVE g.pos < p
    BY <1>2
  <2>1. g.pos \in Nat /\ eof \in Nat /\ g.pos < eof
    BY DEF TypeInv, TypeOK, Frames
  <2>2. CASE p = eof
    BY <2>1, <2>2
  <2>3. CASE p \in {r.pos : r \in unsynced}
    <3>1. PICK r \in recs : unsynced = {r} /\ r.pos = eof - 1
      BY <2>3 DEF NoFaultInv, AppendInv
    <3>2. g.pos # r.pos
      BY <3>1 DEF NoFaultInv, Ordered
    <3> QED
      BY <2>1, <2>3, <3>1, <3>2, SMT
  <2> QED
    BY <2>2, <2>3
<1>4. /\ unsynced' = {} /\ acked' = acked /\ mode' = "down" /\ pc' = "idle"
      /\ torn' = {} /\ recs' \subseteq recs
  BY <1>2 DEF Crash, NoFaultInv
<1>5. AckInv'
  BY <1>3, <1>4 DEF NoFaultInv, AckInv, ContentsOf, Pruning
<1> QED
  BY <1>4, <1>5 DEF NoFaultInv, PruneInv, AppendInv, Ordered, Pruning

LEMMA BootNoFault == TypeInv /\ NoFaultInv /\ Boot => NoFaultInv'
<1> SUFFICES ASSUME TypeInv, NoFaultInv, Boot PROVE NoFaultInv'
  OBVIOUS
<1>1. /\ pc = "idle" /\ pc' = pc /\ recs' = recs /\ torn' = torn /\ work' = work
      /\ unsynced' = unsynced /\ acked' = acked
      /\ mode' = "up" => next_lsn' = TipId(recs) + 1
  BY ReadableAll DEF Boot, TypeInv, file, NoFaultInv
<1>2. /\ eof \in Nat /\ recs \in SUBSET Frames /\ Ordered(recs)
      /\ \A r \in recs : r.pos < eof
  BY DEF TypeInv, TypeOK, NoFaultInv
<1>3. mode' = "up" => \A r \in recs : r.c.lsn < next_lsn'
  BY <1>1, <1>2, TipBound
<1> QED
  BY <1>1, <1>3 DEF NoFaultInv, PruneInv, AppendInv, AckInv, Ordered, Pruning

LEMMA InvInit == Init => IInv
<1>1. Init => NoFaultInv
  BY DEF Init, NoFaultInv, PruneInv, AppendInv, AckInv, Ordered, Pruning, ContentsOf
<1> QED
  BY <1>1, TypeInit DEF IInv

LEMMA InvStep == IInv /\ [Next]_vars => IInv'
<1> SUFFICES ASSUME IInv, [Next]_vars PROVE IInv'
  OBVIOUS
<1>1. TypeInv /\ TypeInv'
  BY TypeStep DEF IInv
<1> SUFFICES ASSUME NoFaultYet' PROVE NoFaultInv'
  BY <1>1 DEF IInv
<1>2. NoFaultYet /\ \A k : ~Fault(k)
  BY <1>1, NoFaultBefore
<1>3. NoFaultInv
  BY <1>2 DEF IInv
<1>4. ASSUME NEW type \in {"PUT"} \cup Transit, NEW key \in Keys, AppendRecord(type, key)
      PROVE  NoFaultInv'
  BY <1>1, <1>3, <1>4, WriteFrameNoFault DEF AppendRecord
<1>5. CASE AppendWriteFails \/ AppendFlushLost \/ AppendSyncFails
  BY <1>2, <1>5 DEF AppendWriteFails, AppendFlushLost, AppendSyncFails
<1>6. CASE AppendSynced
  BY <1>1, <1>3, <1>6, AppendSyncedNoFault
<1>7. ASSUME NEW cp \in 0 .. next_lsn - 1, RunCheckpoint(cp)
      PROVE  NoFaultInv'
  BY <1>1, <1>3, <1>7, WriteFrameNoFault DEF RunCheckpoint
<1>8. CASE PruneRemove
  BY <1>1, <1>3, <1>8, PruneRemoveNoFault
<1>9. CASE PruneNothing
  BY <1>3, <1>9
  DEF PruneNothing, file, memory, NoFaultInv, PruneInv, AppendInv, AckInv,
      Ordered, Pruning
<1>10. CASE PruneRename
  BY <1>1, <1>3, <1>10, PruneRenameNoFault
<1>11. CASE PruneCommit
  BY <1>1, <1>3, <1>11, PruneCommitNoFault
<1>12. CASE Crash
  BY <1>1, <1>2, <1>3, <1>12, CrashNoFault
<1>13. CASE Boot
  BY <1>1, <1>3, <1>13, BootNoFault
<1>14. CASE UNCHANGED vars
  BY <1>3, <1>14
  DEF vars, NoFaultInv, PruneInv, AppendInv, AckInv, Ordered, Pruning
<1> QED
  BY <1>4, <1>5, <1>6, <1>7, <1>8, <1>9, <1>10, <1>11, <1>12, <1>13, <1>14
  DEF Next

LEMMA Invariance == Spec => []IInv
BY InvInit, InvStep, PTL DEF Spec

\* For every number of keys, LSNs, frames and checkpoints: as long as the
\* disk has not misbehaved, whatever Append acknowledged is read back from
\* the file in every state, through crashes, boots and every moment of a
\* prune, unless a checkpoint settled it (wal.h:196-199).
THEOREM AppendIsDurable == Spec => []Durable
<1>1. IInv => Durable
  BY ReadableAll DEF IInv, NoFaultInv, AckInv, Durable, ContentsOf
<1> QED
  BY <1>1, Invariance, PTL

\* Under the same conditions no LSN is ever given to two acknowledged records.
THEOREM LsnIsUnique == Spec => []LsnNamesOneRecord
<1>1. IInv => LsnNamesOneRecord
  <2> SUFFICES ASSUME IInv, NoFaultYet, NEW a \in acked, NEW b \in acked,
                      a.lsn = b.lsn
               PROVE  a = b
    BY DEF LsnNamesOneRecord
  <2>1. PICK g \in recs : g.c = a
    BY DEF IInv, NoFaultInv, AckInv, ContentsOf
  <2>2. PICK h \in recs : h.c = b
    BY DEF IInv, NoFaultInv, AckInv, ContentsOf
  <2>3. g.pos \in Nat /\ h.pos \in Nat /\ g.c.lsn \in Nat
    BY LedgerAssumption, SMT DEF IInv, TypeInv, TypeOK, Frames, Contents
  <2> QED
    BY <2>1, <2>2, <2>3, SMT DEF IInv, NoFaultInv, Ordered
<1> QED
  BY <1>1, Invariance, PTL

(***************************************************************************)
(* What a reader of the file finds.                                        *)
(***************************************************************************)

\* The arithmetic of positions.
LEMMA Places ==
    ASSUME TypeInv
    PROVE  /\ eof \in Nat
           /\ \A r \in recs : r \in Frames /\ r.pos \in Nat /\ r.pos < eof /\ r.c.lsn \in Nat
           /\ \A t \in torn : t.pos \in Nat /\ t.pos < eof
           /\ hwm.id \in Int /\ next_lsn \in Nat
           /\ Readable \subseteq recs /\ Front \subseteq recs /\ Readable \subseteq Front
BY LedgerAssumption, SMT
   DEF TypeInv, TypeOK, Frames, Contents, Readable, Front

\* In a chained file the hash of the tip stands for all of it.
LEMMA TipContents ==
    ASSUME NEW n \in Nat, NEW S \in SUBSET Frames, \A r \in S : r.pos < n,
           Chained(S)
    PROVE  TipHash(S) = ContentsOf(S)
<1>1. CASE S = {}
  BY <1>1 DEF TipHash, GenesisHash, ContentsOf
<1>2. CASE S # {}
  <2>1. Last(S) \in S /\ \A g \in S : g.pos <= Last(S).pos
    BY <1>2, LastFrame DEF Frames
  <2>2. {g \in S : g.pos <= Last(S).pos} = S
    BY <2>1
  <2> QED
    BY <1>2, <2>1, <2>2 DEF TipHash, Chained
<1> QED
  BY <1>1, <1>2

\* What lies before a position of a chained file is chained.
LEMMA ChainedBefore ==
    ASSUME NEW S \in SUBSET Frames, Chained(S), NEW p \in Nat
    PROVE  Chained({r \in S : r.pos < p})
<1> DEFINE T == {r \in S : r.pos < p}
<1> SUFFICES ASSUME NEW r \in T
             PROVE  /\ {g \in T : g.pos < r.pos} = {g \in S : g.pos < r.pos}
                    /\ {g \in T : g.pos <= r.pos} = {g \in S : g.pos <= r.pos}
  BY DEF Chained
<1>1. \A g \in S : g.pos \in Nat
  BY DEF Frames
<1> QED
  BY <1>1, SMT

\* The records a reader finds have growing LSNs.
LEMMA ReadableOrdered ==
    ASSUME TypeInv, PlaceInv
    PROVE  Ordered(Readable)
BY Places, SMT DEF Ordered, Readable, PlaceInv

\* A file that is not corrupt is read up to its first partial frame.
LEMMA FrontReadable ==
    ASSUME TypeInv, ~ReadCorrupt
    PROVE  Front = Readable
<1> SUFFICES ASSUME NEW r \in Front, NEW g \in recs, NEW h \in recs,
                    g.pos < h.pos, h.pos <= r.pos
             PROVE  g.c.lsn < h.c.lsn
  BY Places DEF Front, Readable
<1>1. \A t \in torn : h.pos < t.pos
  BY Places, SMT DEF Front
<1>2. ~(h.c.lsn <= g.c.lsn)
  BY <1>1 DEF ReadCorrupt
<1> QED
  BY <1>2, Places, SMT

\* A frame written at the end is read only behind a file read to its end; it
\* changes nothing in front of it.
LEMMA ReadableAppend ==
    ASSUME TypeInv, PlaceInv, NEW f, f.pos = eof, f.c.lsn \in Nat,
           recs' = recs \cup {f}, torn' = torn
    PROVE  /\ Readable \subseteq Readable' /\ Readable' \subseteq Readable \cup {f}
           /\ Front \subseteq Front' /\ Front' \subseteq Front \cup {f}
           /\ f \in Front' => torn = {} /\ Front = recs
           /\ f \in Readable' =>
                 /\ torn = {} /\ Ordered(recs) /\ Readable = recs
                 /\ \A r \in recs : r.c.lsn < f.c.lsn
<1>1. /\ eof \in Nat /\ \A r \in recs : r.pos \in Nat /\ r.pos < eof
      /\ \A t \in torn : t.pos \in Nat /\ t.pos < eof
  BY Places
<1>2. Front \subseteq Front' /\ Front' \subseteq Front \cup {f}
  BY DEF Front
<1>3. Readable \subseteq Readable'
  BY <1>1, SMT DEF Readable
<1>4. Readable' \subseteq Readable \cup {f}
  BY <1>1 DEF Readable
<1>5. f \in Front' => torn = {} /\ Front = recs
  BY <1>1, SMT DEF Front
<1>6. ASSUME f \in Readable'
      PROVE  /\ torn = {} /\ Ordered(recs) /\ Readable = recs
             /\ \A r \in recs : r.c.lsn < f.c.lsn
  <2>1. torn = {}
    BY <1>1, <1>6, SMT DEF Readable
  <2>2. \A g, h \in recs \cup {f} :
           g.pos < h.pos /\ h.pos <= f.pos => g.c.lsn < h.c.lsn
    BY <1>6 DEF Readable
  <2>3. Ordered(recs)
    BY <1>1, <2>2, SMT DEF Ordered, PlaceInv
  <2> QED
    BY <1>1, <2>1, <2>2, <2>3, ReadableAll, SMT
<1> QED
  BY <1>2, <1>3, <1>4, <1>5, <1>6

\* A file cut at a position is read as before, up to there.
LEMMA ReadableCut ==
    ASSUME TypeInv, NEW p \in Nat, recs' = {r \in recs : r.pos < p},
           NEW T, torn' = {t \in torn : t.pos < p} \cup T,
           \A t \in T : t.pos = p
    PROVE  /\ Readable' = {r \in Readable : r.pos < p}
           /\ Front' = {r \in Front : r.pos < p}
<1>1. ASSUME NEW r \in recs, r.pos < p
      PROVE  (\A t \in torn' : r.pos < t.pos) <=> (\A t \in torn : r.pos < t.pos)
  BY <1>1, Places, SMT
<1>2. Front' = {r \in Front : r.pos < p}
  BY <1>1 DEF Front
<1>3. ASSUME NEW r \in recs, r.pos < p
      PROVE  (\A g, h \in recs' : g.pos < h.pos /\ h.pos <= r.pos => g.c.lsn < h.c.lsn)
             <=> (\A g, h \in recs : g.pos < h.pos /\ h.pos <= r.pos => g.c.lsn < h.c.lsn)
  BY <1>3, Places, SMT
<1> QED
  BY <1>1, <1>2, <1>3 DEF Readable

(***************************************************************************)
(* The chain and the mark, whatever the disk does.                         *)
(***************************************************************************)

LEMMA MarkWriteFrame ==
    ASSUME TypeInv, MarkInv,
           NEW type \in {"PUT", "CHECKPOINT"} \cup Transit,
           NEW key \in Keys \cup {CpKey}, WriteFrame(type, key)
    PROVE  MarkInv'
<1> DEFINE f == NextFrame(type, key)
<1>1. /\ mode = "up" /\ pc = "idle" /\ recs' = recs \cup {f} /\ torn' = torn
      /\ unsynced' = unsynced \cup {f} /\ work' = {f} /\ eof' = eof + 1
      /\ pc' = "written" /\ mode' = mode /\ hwm' = hwm /\ acked' = acked
      /\ next_lsn' = next_lsn /\ tip_hash' = tip_hash
  BY DEF WriteFrame, CanAppend, memory
<1>2. /\ f.pos = eof /\ f.c.lsn = next_lsn /\ f.prev = tip_hash
      /\ f.hash = Link(tip_hash, f.c)
  BY DEF NextFrame
<1>3. /\ eof \in Nat /\ next_lsn \in Nat /\ unsynced \subseteq recs
      /\ \A r \in recs : r.pos \in Nat /\ r.pos < eof
      /\ Readable \subseteq recs /\ Front \subseteq recs /\ hwm.id \in Int
  BY Places DEF TypeInv, TypeOK
<1> HIDE DEF f
<1>4. f \notin recs
  BY <1>2, <1>3, SMT
<1>5. /\ Readable \subseteq Readable' /\ Readable' \subseteq Readable \cup {f}
      /\ Front \subseteq Front' /\ Front' \subseteq Front \cup {f}
      /\ f \in Readable' => /\ torn = {} /\ Ordered(recs) /\ Readable = recs
                            /\ \A r \in recs : r.c.lsn < f.c.lsn
  BY <1>1, <1>2, <1>3, ReadableAppend DEF MarkInv
<1>6. PlaceInv'
  BY <1>1, <1>2, <1>3, SMT DEF MarkInv, PlaceInv
<1>7. Chained(Readable)'
  <2>1. CASE f \notin Readable'
    BY <2>1, <1>5 DEF MarkInv, Chained
  <2>2. CASE f \in Readable'
    <3>1. Readable' = recs \cup {f} /\ tip_hash = ContentsOf(recs) /\ Chained(recs)
      BY <2>2, <1>1, <1>2, <1>5 DEF MarkInv, TipInv
    <3>2. ASSUME NEW r \in recs
          PROVE  /\ {g \in recs \cup {f} : g.pos < r.pos} = {g \in recs : g.pos < r.pos}
                 /\ {g \in recs \cup {f} : g.pos <= r.pos} = {g \in recs : g.pos <= r.pos}
      BY <1>2, <1>3, SMT
    <3>3. /\ {g \in recs \cup {f} : g.pos < f.pos} = recs
          /\ {g \in recs \cup {f} : g.pos <= f.pos} = recs \cup {f}
      BY <1>2, <1>3, SMT
    <3>4. ContentsOf(recs \cup {f}) = Link(ContentsOf(recs), f.c)
      BY DEF ContentsOf, Link
    <3>5. Chained(recs \cup {f})
      BY <1>2, <3>1, <3>2, <3>3, <3>4 DEF Chained
    <3> QED
      BY <3>1, <3>5 DEF Chained
  <2> QED
    BY <2>1, <2>2
<1>8. FrameInv'
  BY <1>1, <1>2, <1>3, SMT DEF FrameInv
<1>9. TipInv'
  BY <1>1, <1>2, <1>3, <1>5, SMT DEF MarkInv, TipInv
<1>10. RewriteInv'
  BY <1>1 DEF RewriteInv, Pruning
<1>11. Kept => Kept'
  <2>1. Readable \ unsynced \subseteq Readable' \ unsynced'
    BY <1>1, <1>3, <1>4, <1>5
  <2> QED
    BY <1>1, <2>1 DEF Kept, ContentsOf
<1>12. Anchored => Anchored'
  BY <1>1, <1>2, <1>3, <1>5 DEF Anchored
<1> QED
  BY <1>1, <1>6, <1>7, <1>8, <1>9, <1>10, <1>11, <1>12 DEF MarkInv, Short

LEMMA MarkAcknowledge ==
    ASSUME TypeInv, MarkInv, pc = "written", NEW r \in work, Acknowledge(r),
           UNCHANGED <<recs, torn, eof, mode>>, unsynced' \in {unsynced, {}}
    PROVE  MarkInv'
<1>1. /\ mode = "up" /\ r \in recs /\ r.pos = eof - 1 /\ r.c.lsn = next_lsn
      /\ r.hash = Link(tip_hash, r.c)
  BY DEF MarkInv, FrameInv, TypeInv
<1>2. /\ tip_hash' = r.hash /\ next_lsn' = next_lsn + 1 /\ acked' = acked \cup {r.c}
      /\ pc' = "idle" /\ work' = {} /\ hwm' \in {hwm, Mark(r.c.lsn, r.hash)}
  BY DEF Acknowledge
<1>3. /\ eof \in Nat /\ next_lsn \in Nat /\ hwm.id \in Int /\ hwm.hash \subseteq Contents
      /\ \A g \in recs : g.pos \in Nat /\ g.pos < eof /\ g.c.lsn \in Nat
      /\ Front \subseteq recs /\ tip_hash \subseteq Contents
      /\ \A c \in Contents : c.lsn \in Nat
  BY Places, LedgerAssumption, SMT DEF TypeInv, TypeOK, Contents
<1>4. Readable' = Readable /\ Front' = Front
  BY DEF Readable, Front
<1>5. PlaceInv' /\ Chained(Readable)' /\ FrameInv' /\ RewriteInv'
  BY <1>2, <1>4 DEF MarkInv, PlaceInv, FrameInv, RewriteInv, Pruning, Chained
<1>6. \A c \in r.hash : c.lsn <= next_lsn
  BY <1>1, <1>3, SMT DEF MarkInv, TipInv, Link
<1>7. \A c \in hwm'.hash : c.lsn <= hwm'.id
  BY <1>1, <1>2, <1>6, SMT DEF MarkInv, Mark
<1>8. TipInv'
  <2>1. \A g \in Front : g.c.lsn <= next_lsn'
    BY <1>1, <1>2, <1>3, SMT DEF MarkInv, TipInv
  <2>2. \A c \in tip_hash' : c.lsn < next_lsn'
    BY <1>1, <1>2, <1>3, <1>6, SMT DEF Link
  <2>3. hwm'.id < next_lsn'
    BY <1>1, <1>2, <1>3, SMT DEF MarkInv, TipInv, Mark
  <2>4. ASSUME torn = {}, Ordered(recs) PROVE r.hash = ContentsOf(recs)
    <3>1. Readable = recs
      BY <2>4, ReadableAll
    <3>2. {g \in recs : g.pos <= r.pos} = recs
      BY <1>1, <1>3, SMT
    <3> QED
      BY <1>1, <3>1, <3>2 DEF MarkInv, Chained
  <2> QED
    BY <1>2, <1>4, <2>1, <2>2, <2>3, <2>4 DEF TipInv, Ordered
<1>9. CASE hwm' = hwm
  <2>1. r.c \notin hwm.hash
    BY <1>1, <1>3, SMT DEF MarkInv, TipInv
  <2>2. Kept => Kept'
    BY <1>2, <1>4, <1>9, <2>1 DEF Kept, ContentsOf
  <2>3. Anchored => Anchored'
    BY <1>4, <1>9 DEF Anchored
  <2> QED
    BY <1>1, <1>5, <1>7, <1>8, <2>2, <2>3 DEF MarkInv, Short
<1>10. CASE hwm' = Mark(r.c.lsn, r.hash)
  <2>1. hwm'.id = next_lsn /\ hwm'.hash = r.hash
    BY <1>1, <1>10 DEF Mark
  <2>2. \A g \in Front : ~(g.c.lsn > next_lsn)
    BY <1>1, <1>3, SMT DEF MarkInv, TipInv
  <2>3. Anchored'
    BY <1>1, <1>4, <2>1, <2>2 DEF Anchored
  <2> QED
    BY <1>5, <1>7, <1>8, <2>3 DEF MarkInv
<1> QED
  BY <1>2, <1>9, <1>10

LEMMA MarkWriteFails == TypeInv /\ MarkInv /\ AppendWriteFails => MarkInv'
<1> SUFFICES ASSUME TypeInv, MarkInv, AppendWriteFails PROVE MarkInv'
  OBVIOUS
<1>1. /\ UNCHANGED <<recs, unsynced, hwm, mode, memory, pc, work, acked>>
      /\ mode = "up" /\ pc = "idle"
  BY DEF AppendWriteFails, CanAppend
<1>2. torn' = torn \/ \E t \in Partial(eof) : torn' = torn \cup {t}
  BY DEF AppendWriteFails
<1>3. \A r \in recs : r.pos < eof
  BY Places
<1>4. Readable' = Readable /\ Front' = Front
  BY <1>1, <1>2, <1>3, SMT DEF Readable, Front, Partial
<1>5. torn' = {} => torn = {}
  BY <1>2
<1>6. PlaceInv' /\ Chained(Readable)' /\ FrameInv' /\ RewriteInv'
  BY <1>1, <1>4 DEF MarkInv, PlaceInv, FrameInv, RewriteInv, Pruning, Chained
<1>7. TipInv'
  BY <1>1, <1>4, <1>5 DEF MarkInv, TipInv, Ordered, memory
<1>8. (Kept => Kept') /\ (Anchored => Anchored')
  BY <1>1, <1>4 DEF Kept, Anchored
<1> QED
  BY <1>1, <1>6, <1>7, <1>8 DEF MarkInv, Short

LEMMA MarkSyncFails == TypeInv /\ MarkInv /\ AppendSyncFails => MarkInv'
<1> SUFFICES ASSUME TypeInv, MarkInv, AppendSyncFails PROVE MarkInv'
  OBVIOUS
<1>1. /\ UNCHANGED <<recs, torn, unsynced, hwm, mode, next_lsn, tip_hash, acked>>
      /\ pc = "written" /\ pc' = "idle" /\ mode = "up"
  BY DEF AppendSyncFails, file, memory, TypeInv
<1>2. PICK r \in recs : r.c.lsn = next_lsn
  BY <1>1 DEF MarkInv, FrameInv
<1>3. next_lsn \in Nat
  BY Places
<1>4. Readable' = Readable /\ Front' = Front
  BY <1>1 DEF Readable, Front
<1>5. PlaceInv' /\ Chained(Readable)' /\ FrameInv' /\ RewriteInv'
  BY <1>1, <1>4 DEF MarkInv, PlaceInv, FrameInv, RewriteInv, Pruning, Chained
<1>6. TipInv'
  BY <1>1, <1>2, <1>3, <1>4, SMT DEF MarkInv, TipInv
<1>7. (Kept => Kept') /\ (Anchored => Anchored')
  BY <1>1, <1>4 DEF Kept, Anchored
<1> QED
  BY <1>1, <1>5, <1>6, <1>7 DEF MarkInv, Short

LEMMA RechainChained ==
    ASSUME NEW S
    PROVE  Chained(Rechain(S)) /\ ContentsOf(Rechain(S)) = ContentsOf(S)
<1> DEFINE R(g) == [pos |-> g.pos, c |-> g.c,
                    prev |-> ContentsOf({x \in S : x.pos < g.pos}),
                    hash |-> ContentsOf({x \in S : x.pos <= g.pos})]
<1>1. \A g : /\ R(g).pos = g.pos /\ R(g).c = g.c
             /\ R(g).prev = ContentsOf({x \in S : x.pos < g.pos})
             /\ R(g).hash = ContentsOf({x \in S : x.pos <= g.pos})
  OBVIOUS
<1>2. Rechain(S) = {R(g) : g \in S}
  BY DEF Rechain
<1> HIDE DEF R
<1>3. ASSUME NEW g \in S
      PROVE  /\ ContentsOf({r \in Rechain(S) : r.pos < R(g).pos})
                = ContentsOf({y \in S : y.pos < g.pos})
             /\ ContentsOf({r \in Rechain(S) : r.pos <= R(g).pos})
                = ContentsOf({y \in S : y.pos <= g.pos})
  <2>1. {r \in Rechain(S) : r.pos < R(g).pos} = {R(x) : x \in {y \in S : y.pos < g.pos}}
    BY <1>1, <1>2, SMT
  <2>2. {r \in Rechain(S) : r.pos <= R(g).pos} = {R(x) : x \in {y \in S : y.pos <= g.pos}}
    BY <1>1, <1>2, SMT
  <2>3. ContentsOf({R(x) : x \in {y \in S : y.pos < g.pos}})
        = ContentsOf({y \in S : y.pos < g.pos})
    BY <1>1, SMT DEF ContentsOf
  <2>4. ContentsOf({R(x) : x \in {y \in S : y.pos <= g.pos}})
        = ContentsOf({y \in S : y.pos <= g.pos})
    BY <1>1, SMT DEF ContentsOf
  <2> QED
    BY <2>1, <2>2, <2>3, <2>4
<1>4. Chained(Rechain(S))
  <2> SUFFICES ASSUME NEW g \in S
               PROVE  /\ R(g).prev = ContentsOf({r \in Rechain(S) : r.pos < R(g).pos})
                      /\ R(g).hash = ContentsOf({r \in Rechain(S) : r.pos <= R(g).pos})
    BY <1>2 DEF Chained
  <2> QED
    BY <1>1, <1>3
<1> QED
  BY <1>1, <1>2, <1>4, SMT DEF ContentsOf

LEMMA MarkPruneRemove == TypeInv /\ MarkInv /\ PruneRemove => MarkInv'
<1> SUFFICES ASSUME TypeInv, MarkInv, PruneRemove PROVE MarkInv'
  OBVIOUS
<1> DEFINE D == Droppable(cpReq)
           K == Readable \ D
<1>1. /\ UNCHANGED <<recs, torn, unsynced, hwm, mode, next_lsn, tip_hash>>
      /\ mode = "up" /\ pc = "idle" /\ pc' = "removed" /\ work' = Rechain(K)
      /\ acked' = acked \ ContentsOf(D)
  BY DEF PruneRemove, file, memory
<1> HIDE DEF D
<1>2. Readable' = Readable /\ Front' = Front
  BY <1>1 DEF Readable, Front
<1>3. PlaceInv' /\ Chained(Readable)' /\ FrameInv' /\ TipInv'
  BY <1>1, <1>2 DEF MarkInv, PlaceInv, FrameInv, TipInv, Chained
<1>4. Ordered(K)
  BY ReadableOrdered DEF MarkInv, Ordered
<1>5. /\ Ordered(Rechain(K)) /\ Chained(Rechain(K))
      /\ ContentsOf(Rechain(K)) = ContentsOf(K)
  BY <1>4, RechainFrames, RechainChained
<1>6. ASSUME hwm.hash \cap acked \subseteq ContentsOf(Readable)
      PROVE  hwm.hash \cap acked' \subseteq ContentsOf(K)
  BY <1>1, <1>6 DEF ContentsOf
<1>7. ASSUME Anchored, NEW g \in Rechain(K), ~(g.c.lsn <= hwm.id)
      PROVE  hwm.hash \subseteq ContentsOf(Readable)
  <2>1. PICK x \in K : x.c = g.c
    BY RechainFrames
  <2>2. x \in Readable /\ x \in Front /\ x.c.lsn > hwm.id
    BY <1>7, <2>1, Places, SMT
  <2>3. PICK m \in recs : m.hash = hwm.hash /\ m.pos < x.pos
    BY <1>7, <2>2 DEF Anchored
  <2>4. m \in Readable
    BY <2>2, <2>3, Places, SMT DEF Readable
  <2> QED
    BY <2>3, <2>4, SMT DEF MarkInv, Chained, ContentsOf
<1>8. \/ acked' \cap hwm.hash \subseteq ContentsOf(Rechain(K))
      \/ \A g \in Rechain(K) : g.c.lsn <= hwm.id
  <2>1. CASE Kept
    BY <1>5, <1>6, <2>1 DEF Kept, ContentsOf
  <2>2. CASE Anchored
    BY <1>5, <1>6, <1>7, <2>2
  <2> QED
    BY <1>1, <2>1, <2>2 DEF MarkInv, Short
<1>9. RewriteInv'
  <2>1. Ordered(work)' /\ Chained(work)'
    BY <1>1, <1>5 DEF Ordered, Chained
  <2> QED
    BY <1>1, <1>8, <2>1 DEF RewriteInv, ContentsOf
<1>10. (Kept => Kept') /\ (Anchored => Anchored')
  BY <1>1, <1>2 DEF Kept, Anchored
<1> QED
  BY <1>1, <1>3, <1>9, <1>10 DEF MarkInv, Short

LEMMA MarkPruneRename == TypeInv /\ MarkInv /\ PruneRename => MarkInv'
<1> SUFFICES ASSUME TypeInv, MarkInv, PruneRename PROVE MarkInv'
  OBVIOUS
<1>1. /\ pc = "removed" /\ pc' = "renamed" /\ recs' = work /\ work' = work
      /\ torn' = {} /\ unsynced' = {} /\ hwm' = hwm /\ acked' = acked
  BY DEF PruneRename
<1>2. RewriteInv /\ Ordered(work) /\ Chained(work)
  BY <1>1 DEF MarkInv, RewriteInv, Pruning
<1>3. Readable' = work
  BY <1>1, <1>2 DEF Readable, Ordered
<1>4. Chained(Readable)'
  BY <1>2, <1>3 DEF Chained
<1>5. PlaceInv'
  BY <1>1, <1>2 DEF PlaceInv, Ordered
<1>6. RewriteInv'
  BY <1>1, <1>2 DEF RewriteInv, Pruning, Ordered, Chained
<1> QED
  BY <1>1, <1>4, <1>5, <1>6 DEF MarkInv, FrameInv, TipInv

LEMMA MarkPruneCommit == TypeInv /\ MarkInv /\ PruneCommit => MarkInv'
<1> SUFFICES ASSUME TypeInv, MarkInv, PruneCommit PROVE MarkInv'
  OBVIOUS
<1>1. /\ pc = "renamed" /\ pc' = "idle" /\ work = recs /\ UNCHANGED <<recs, torn, unsynced>>
      /\ next_lsn' = TipId(recs) + 1 /\ tip_hash' = TipHash(recs) /\ acked' = acked
      /\ hwm'.id = TipId(recs) /\ hwm'.hash = TipHash(recs)
  BY DEF PruneCommit, file, TypeInv, Mark
<1>2. /\ eof \in Nat /\ recs \in SUBSET Frames /\ \A r \in recs : r.pos < eof
      /\ \A r \in recs : r.c.lsn \in Nat
  BY Places DEF TypeInv, TypeOK
<1>3. Ordered(recs) /\ Chained(recs)
  BY <1>1 DEF MarkInv, RewriteInv, Pruning
<1>4. TipHash(recs) = ContentsOf(recs) /\ TipId(recs) \in Int
  BY <1>2, <1>3, TipContents, TipType, SMT
<1>5. \A r \in recs : r.c.lsn <= TipId(recs)
  BY <1>2, <1>3, <1>4, TipBound, SMT
<1>6. Readable' = Readable /\ Front' = Front /\ Front \subseteq recs
  BY <1>1, Places DEF Readable, Front
<1>7. PlaceInv' /\ Chained(Readable)' /\ FrameInv' /\ RewriteInv'
  BY <1>1, <1>6 DEF MarkInv, PlaceInv, FrameInv, RewriteInv, Pruning, Chained
<1>8. \A c \in TipHash(recs) : c.lsn <= TipId(recs)
  BY <1>4, <1>5 DEF ContentsOf
<1>9. \A c \in TipHash(recs) : c.lsn \in Int
  BY <1>2, <1>4, SMT DEF ContentsOf
<1>10. TipInv'
  <2>1. \A r \in recs : r.c.lsn <= next_lsn'
    BY <1>1, <1>2, <1>4, <1>5, SMT
  <2>2. \A c \in tip_hash' : c.lsn < next_lsn'
    BY <1>1, <1>4, <1>8, <1>9, SMT
  <2> QED
    BY <1>1, <1>4, <1>6, <2>1, <2>2, SMT DEF TipInv
<1>11. Kept' \/ Anchored'
  <2>1. CASE recs = {}
    BY <1>1, <2>1 DEF Kept, TipHash, GenesisHash
  <2>2. CASE recs # {}
    <3>1. /\ Last(recs) \in recs /\ TipId(recs) = Last(recs).c.lsn
          /\ TipHash(recs) = Last(recs).hash
      BY <1>2, <2>2, LastFrame DEF TipId, TipHash, Frames
    <3>2. \A g \in recs : ~(g.c.lsn > TipId(recs))
      BY <1>2, <1>4, <1>5, SMT
    <3> QED
      BY <1>1, <1>6, <3>1, <3>2 DEF Anchored
  <2> QED
    BY <2>1, <2>2
<1> QED
  BY <1>1, <1>7, <1>8, <1>10, <1>11 DEF MarkInv

LEMMA MarkCut ==
    ASSUME TypeInv, MarkInv, Crash, ~Pruning,
           NEW p \in {r.pos : r \in unsynced} \cup {eof},
           recs' = {r \in recs : r.pos < p},
           NEW T, torn' = {t \in torn : t.pos < p} \cup T, \A t \in T : t.pos = p
    PROVE  MarkInv'
<1>1. /\ unsynced' = {} /\ acked' = acked /\ mode = "up" /\ mode' = "down"
      /\ pc' = "idle" /\ (hwm' = hwm \/ hwm' = NoMark)
  BY DEF Crash, CrashedMark
<1>2. /\ p \in Nat /\ unsynced \subseteq recs /\ hwm.id \in Int
      /\ \A r \in recs : r \in Frames /\ r.pos \in Nat /\ r.pos < eof /\ r.c.lsn \in Nat
      /\ Readable \subseteq recs /\ Front \subseteq recs
  BY Places DEF TypeInv, TypeOK
<1>3. /\ Readable' = {r \in Readable : r.pos < p}
      /\ Front' = {r \in Front : r.pos < p}
  BY <1>2, ReadableCut
<1>4. Chained({r \in Readable : r.pos < p})
  BY <1>2, ChainedBefore DEF MarkInv
<1>5. PlaceInv' /\ Chained(Readable)' /\ FrameInv' /\ TipInv' /\ RewriteInv'
  BY <1>1, <1>3, <1>4
  DEF MarkInv, PlaceInv, FrameInv, TipInv, RewriteInv, Pruning, Chained
<1>6. CASE hwm' = NoMark
  <2>1. hwm'.hash = {}
    BY <1>6 DEF NoMark, GenesisHash
  <2> QED
    BY <1>5, <2>1 DEF MarkInv, Kept
<1>7. CASE hwm' = hwm
  <2>1. CASE Kept
    <3>1. \A g \in Readable \ unsynced : g.pos < p
      BY <1>2, SMT DEF MarkInv, PlaceInv
    <3>2. Readable \ unsynced \subseteq Readable' \ unsynced'
      BY <1>1, <1>3, <3>1
    <3>3. Kept'
      BY <1>1, <1>7, <2>1, <3>2 DEF Kept, ContentsOf
    <3> QED
      BY <1>5, <1>7, <3>3 DEF MarkInv
  <2>2. ASSUME NEW m \in recs, m.c.lsn = hwm.id, m.hash = hwm.hash,
               \A g \in Front : g.c.lsn > hwm.id => m.pos < g.pos
        PROVE  Anchored' \/ Short'
    <3>1. CASE m.pos < p
      BY <1>3, <1>7, <2>2, <3>1 DEF Anchored
    <3>2. CASE ~(m.pos < p)
      <4>1. \A g \in Front' : g.c.lsn <= hwm.id
        BY <1>2, <1>3, <2>2, <3>2, SMT
      <4> QED
        BY <1>1, <1>7, <4>1 DEF Short
    <3> QED
      BY <3>1, <3>2
  <2>3. CASE Anchored
    BY <1>5, <1>7, <2>2, <2>3 DEF MarkInv, Anchored
  <2> QED
    BY <1>1, <2>1, <2>3 DEF MarkInv, Short, Pruning
<1> QED
  BY <1>1, <1>6, <1>7

LEMMA MarkInterrupt ==
    ASSUME TypeInv, MarkInv, Crash, Pruning, InterruptPrune
    PROVE  MarkInv'
<1>1. /\ unsynced' = {} /\ acked' = acked /\ mode = "up" /\ mode' = "down"
      /\ pc' = "idle" /\ (hwm' = hwm \/ hwm' = NoMark)
  BY DEF Crash, CrashedMark
<1>2. /\ Ordered(work) /\ Chained(work)
      /\ pc = "renamed" => torn = {} /\ recs = work
      /\ \/ acked \cap hwm.hash \subseteq ContentsOf(work)
         \/ \A g \in work : g.c.lsn <= hwm.id
  BY DEF MarkInv, RewriteInv, TypeInv
<1>3. FrameInv' /\ TipInv' /\ RewriteInv'
  BY <1>1 DEF FrameInv, TipInv, RewriteInv, Pruning
<1>4. \A c \in hwm'.hash : c.lsn <= hwm'.id
  BY <1>1, SMT DEF MarkInv, NoMark, GenesisHash
<1>5. CASE pc = "removed" /\ UNCHANGED <<recs, torn>>
  <2>1. Readable' = Readable /\ Front' = Front
    BY <1>5 DEF Readable, Front
  <2>2. PlaceInv' /\ Chained(Readable)'
    BY <1>1, <1>5, <2>1 DEF MarkInv, PlaceInv, Chained
  <2>3. Kept' \/ Anchored'
    <3>1. CASE hwm' = NoMark
      BY <3>1 DEF Kept, NoMark, GenesisHash
    <3>2. CASE hwm' = hwm /\ Kept
      BY <1>1, <2>1, <3>2 DEF Kept, ContentsOf
    <3>3. CASE hwm' = hwm /\ Anchored
      BY <1>5, <2>1, <3>3 DEF Anchored
    <3> QED
      BY <1>1, <1>5, <3>1, <3>2, <3>3 DEF MarkInv, Short
  <2> QED
    BY <1>3, <1>4, <2>2, <2>3 DEF MarkInv
<1>6. CASE recs' = work /\ torn' = {}
  <2>1. Readable' = work /\ Front' = work
    BY <1>2, <1>6 DEF Readable, Front, Ordered
  <2>2. PlaceInv' /\ Chained(Readable)'
    BY <1>1, <1>2, <1>6, <2>1 DEF PlaceInv, Chained, Ordered
  <2>3. Kept' \/ Short'
    <3>1. CASE hwm' = NoMark
      BY <3>1 DEF Kept, NoMark, GenesisHash
    <3>2. CASE hwm' = hwm
      BY <1>1, <1>2, <2>1, <3>2 DEF Kept, Short, ContentsOf
    <3> QED
      BY <1>1, <3>1, <3>2
  <2> QED
    BY <1>3, <1>4, <2>2, <2>3 DEF MarkInv
<1>7. CASE recs' = {} /\ torn' = {}
  <2>1. Readable' = {} /\ Front' = {}
    BY <1>7 DEF Readable, Front
  <2> QED
    BY <1>1, <1>3, <1>4, <1>7, <2>1 DEF MarkInv, PlaceInv, Chained, Short
<1> QED
  BY <1>2, <1>5, <1>6, <1>7 DEF InterruptPrune, Pruning

LEMMA MarkCrash == TypeInv /\ MarkInv /\ Crash => MarkInv'
<1> SUFFICES ASSUME TypeInv, MarkInv, Crash PROVE MarkInv'
  OBVIOUS
<1>1. CASE ~Pruning /\ LoseUnsynced
  <2>1. PICK p \in {r.pos : r \in unsynced} \cup {eof} :
           recs' = {r \in recs : r.pos < p} /\ torn' = {t \in torn : t.pos < p}
    BY <1>1 DEF LoseUnsynced
  <2> DEFINE T == {}
  <2>2. torn' = {t \in torn : t.pos < p} \cup T /\ \A t \in T : t.pos = p
    BY <2>1
  <2> HIDE DEF T
  <2> QED
    BY <1>1, <2>1, <2>2, MarkCut
<1>2. CASE ~Pruning /\ TearUnsynced
  <2>1. PICK p \in {r.pos : r \in unsynced} : \E t \in Partial(p) :
           /\ recs' = {r \in recs : r.pos < p}
           /\ torn' = {u \in torn : u.pos < p} \cup {t}
    BY <1>2 DEF TearUnsynced
  <2>2. PICK t \in Partial(p) : torn' = {u \in torn : u.pos < p} \cup {t}
    BY <2>1
  <2> DEFINE T == {t}
  <2>3. torn' = {u \in torn : u.pos < p} \cup T /\ \A u \in T : u.pos = p
    BY <2>2, SMT DEF Partial
  <2>4. p \in {r.pos : r \in unsynced} \cup {eof} /\ recs' = {r \in recs : r.pos < p}
    BY <2>1
  <2> HIDE DEF T
  <2> QED
    BY <1>2, <2>3, <2>4, MarkCut
<1>3. CASE Pruning /\ InterruptPrune
  BY <1>3, MarkInterrupt
<1> QED
  BY <1>1, <1>2, <1>3 DEF Crash

\* A file that passes the checks of Open has what its mark stands for.
LEMMA BootKeeps ==
    ASSUME TypeInv, MarkInv, mode # "up", MarkOK, VerifyChain
    PROVE  /\ acked \cap hwm.hash \subseteq ContentsOf(Readable)
           /\ Kept \/ Anchored
<1>1. /\ eof \in Nat /\ Readable \in SUBSET Frames /\ \A r \in Readable : r.pos < eof
      /\ \A r \in recs : r.pos \in Nat /\ r.c.lsn \in Nat
      /\ hwm.id \in Nat \cup {-1} /\ Readable \subseteq recs
  BY Places DEF TypeInv, TypeOK
<1>2. Front = Readable /\ pc = "idle"
  BY FrontReadable DEF VerifyChain, TypeInv
<1>3. TipHash(Readable) = ContentsOf(Readable)
  BY <1>1, TipContents DEF MarkInv
<1>4. hwm.id <= TipId(Readable) /\ (TipId(Readable) = hwm.id => TipHash(Readable) = hwm.hash)
  BY DEF MarkOK
<1>5. CASE Readable = {}
  <2>1. TipId(Readable) = -1
    BY <1>5 DEF TipId
  <2>2. hwm.hash = {}
    BY <1>1, <1>3, <1>4, <1>5, <2>1, SMT DEF ContentsOf
  <2> QED
    BY <2>2 DEF Kept
<1>6. CASE Readable # {}
  <2> DEFINE l == Last(Readable)
  <2>1. l \in Readable /\ TipId(Readable) = l.c.lsn /\ TipHash(Readable) = l.hash
    BY <1>1, <1>6, LastFrame DEF TipId, TipHash, Frames
  <2> HIDE DEF l
  <2>2. CASE Kept
    BY <2>2 DEF Kept, ContentsOf
  <2>3. CASE Anchored
    <3>1. PICK m \in recs : /\ m.hash = hwm.hash
                            /\ \A g \in Front : g.c.lsn > hwm.id => m.pos < g.pos
      BY <2>3 DEF Anchored
    <3>2. CASE l.c.lsn = hwm.id
      BY <1>3, <1>4, <2>1, <2>3, <3>2
    <3>3. CASE l.c.lsn # hwm.id
      <4>1. l.c.lsn > hwm.id
        BY <1>1, <1>4, <2>1, <3>3, SMT
      <4>2. m.pos < l.pos
        BY <1>2, <2>1, <3>1, <4>1
      <4>3. m \in Readable
        BY <1>1, <2>1, <4>2, Places, SMT DEF Readable
      <4>4. m.hash \subseteq ContentsOf(Readable)
        BY <4>3, SMT DEF MarkInv, Chained, ContentsOf
      <4> QED
        BY <2>3, <3>1, <4>4
    <3> QED
      BY <3>2, <3>3
  <2>4. CASE Short
    <3>1. l.c.lsn = hwm.id
      BY <1>1, <1>2, <1>4, <2>1, <2>4, SMT DEF Short
    <3>2. \A g \in Front : ~(g.c.lsn > hwm.id)
      BY <1>1, <1>2, <2>4, SMT DEF Short
    <3>3. Anchored
      BY <1>1, <1>4, <2>1, <3>1, <3>2 DEF Anchored
    <3> QED
      BY <1>3, <1>4, <2>1, <3>1, <3>3
  <2> QED
    BY <1>2, <2>2, <2>3, <2>4 DEF MarkInv
<1> QED
  BY <1>5, <1>6

LEMMA MarkBoot == TypeInv /\ MarkInv /\ Boot => MarkInv'
<1> SUFFICES ASSUME TypeInv, MarkInv, Boot PROVE MarkInv'
  OBVIOUS
<1>1. /\ mode # "up" /\ pc = "idle"
      /\ UNCHANGED <<recs, torn, unsynced, hwm, pc, work, acked>>
  BY DEF Boot, file, TypeInv
<1>2. Readable' = Readable /\ Front' = Front
  BY <1>1 DEF Readable, Front
<1>3. PlaceInv' /\ Chained(Readable)' /\ FrameInv' /\ RewriteInv'
  BY <1>1, <1>2 DEF MarkInv, PlaceInv, FrameInv, RewriteInv, Pruning, Chained
<1>4. (Kept => Kept') /\ (Anchored => Anchored')
  BY <1>1, <1>2 DEF Kept, Anchored
<1>5. CASE MarkOK /\ VerifyChain
  <2>1. /\ next_lsn' = TipId(Readable) + 1 /\ tip_hash' = TipHash(Readable)
        /\ hwm.id <= TipId(Readable) /\ Front = Readable
    BY <1>5, FrontReadable DEF Boot, MarkOK, VerifyChain
  <2>2. /\ eof \in Nat /\ Readable \in SUBSET Frames /\ \A r \in Readable : r.pos < eof
        /\ \A r \in Readable : r.c.lsn \in Nat
        /\ hwm.id \in Int
    BY Places
  <2>3. Ordered(Readable)
    BY ReadableOrdered DEF MarkInv
  <2>4. TipHash(Readable) = ContentsOf(Readable) /\ TipId(Readable) \in Int
    BY <2>2, TipContents, TipType, SMT DEF MarkInv
  <2>5. \A r \in Readable : r.c.lsn < TipId(Readable) + 1
    BY <2>2, <2>3, TipBound
  <2>6. \A c \in ContentsOf(Readable) : c.lsn < TipId(Readable) + 1
    BY <2>5 DEF ContentsOf
  <2>7. \A g \in Front' : g.c.lsn <= next_lsn'
    BY <1>2, <2>1, <2>2, <2>4, <2>5, SMT
  <2>8. torn = {} /\ Ordered(recs) => Readable = recs
    BY ReadableAll
  <2>9. TipInv'
    BY <1>1, <2>1, <2>2, <2>4, <2>6, <2>7, <2>8, SMT DEF TipInv, Ordered, ContentsOf
  <2> QED
    BY <1>1, <1>3, <1>4, <1>5, <2>9, BootKeeps DEF MarkInv
<1>6. CASE ~(MarkOK /\ VerifyChain)
  <2>1. mode' = "refused"
    BY <1>6 DEF Boot
  <2>2. Short => Short'
    BY <1>1, <1>2, <2>1 DEF Short
  <2> QED
    BY <1>1, <1>3, <1>4, <2>1, <2>2 DEF MarkInv, TipInv
<1> QED
  BY <1>5, <1>6

LEMMA MarkInit == Init => MarkInv
BY SMT DEF Init, MarkInv, PlaceInv, Chained, Readable, FrameInv, TipInv, RewriteInv,
       Pruning, Kept, NoMark, GenesisHash

LEMMA MarkStep == TypeInv /\ MarkInv /\ [Next]_vars => MarkInv'
<1> SUFFICES ASSUME TypeInv, MarkInv, [Next]_vars PROVE MarkInv'
  OBVIOUS
<1>1. ASSUME NEW type \in {"PUT"} \cup Transit, NEW key \in Keys, AppendRecord(type, key)
      PROVE  MarkInv'
  BY <1>1, MarkWriteFrame DEF AppendRecord
<1>2. CASE AppendWriteFails
  BY <1>2, MarkWriteFails
<1>3. CASE AppendSynced
  BY <1>3, MarkAcknowledge DEF AppendSynced
<1>4. CASE AppendFlushLost
  BY <1>4, MarkAcknowledge DEF AppendFlushLost, file
<1>5. CASE AppendSyncFails
  BY <1>5, MarkSyncFails
<1>6. ASSUME NEW cp \in 0 .. next_lsn - 1, RunCheckpoint(cp)
      PROVE  MarkInv'
  BY <1>6, MarkWriteFrame DEF RunCheckpoint
<1>7. CASE PruneRemove
  BY <1>7, MarkPruneRemove
<1>8. CASE PruneNothing \/ UNCHANGED vars
  <2>1. UNCHANGED <<recs, torn, eof, unsynced, hwm, mode, next_lsn, tip_hash, pc, work, acked>>
    BY <1>8 DEF PruneNothing, vars, file, memory
  <2>2. Readable' = Readable /\ Front' = Front
    BY <2>1 DEF Readable, Front
  <2>3. PlaceInv' /\ Chained(Readable)' /\ FrameInv' /\ TipInv' /\ RewriteInv'
    BY <2>1, <2>2
    DEF MarkInv, PlaceInv, FrameInv, TipInv, RewriteInv, Pruning, Chained, Ordered
  <2>4. (Kept => Kept') /\ (Anchored => Anchored') /\ (Short => Short')
    BY <2>1, <2>2 DEF Kept, Anchored, Short
  <2> QED
    BY <2>1, <2>3, <2>4 DEF MarkInv
<1>9. CASE PruneRename
  BY <1>9, MarkPruneRename
<1>10. CASE PruneCommit
  BY <1>10, MarkPruneCommit
<1>11. CASE Crash
  BY <1>11, MarkCrash
<1>12. CASE Boot
  BY <1>12, MarkBoot
<1> QED
  BY <1>1, <1>2, <1>3, <1>4, <1>5, <1>6, <1>7, <1>8, <1>9, <1>10, <1>11, <1>12
  DEF Next

(***************************************************************************)
(* The members and the mark, as long as the disk does what it is asked to. *)
(***************************************************************************)

\* The tip is the frame behind all the others.
LEMMA LastIs ==
    ASSUME NEW n \in Nat, NEW S \in SUBSET Frames, \A g \in S : g.pos < n,
           NEW r \in S, \A g \in S : g.pos <= r.pos /\ (g.pos = r.pos => g = r)
    PROVE  Last(S) = r /\ TipId(S) = r.c.lsn /\ TipHash(S) = r.hash
<1>1. Last(S) \in S /\ \A g \in S : g.pos <= Last(S).pos
  BY LastFrame DEF Frames
<1>2. Last(S).pos \in Nat /\ r.pos \in Nat
  BY <1>1 DEF Frames
<1>3. Last(S) = r
  BY <1>1, <1>2, SMT
<1> QED
  BY <1>3 DEF TipId, TipHash

\* Open finds no break in a file that is not corrupt.
LEMMA ChainVerified ==
    ASSUME TypeInv, MarkInv, ~ReadCorrupt
    PROVE  VerifyChain
<1> SUFFICES ASSUME NEW r \in Readable
             PROVE  /\ r.prev = TipHash({g \in Readable : g.pos < r.pos})
                    /\ r.hash = Link(r.prev, r.c)
  BY DEF VerifyChain
<1> DEFINE B == {g \in Readable : g.pos < r.pos}
<1>1. /\ eof \in Nat /\ Readable \in SUBSET Frames /\ Readable \subseteq recs
      /\ \A g \in Readable : g.pos < eof /\ g.pos \in Nat
  BY Places
<1>2. r.prev = ContentsOf(B) /\ r.hash = ContentsOf({g \in Readable : g.pos <= r.pos})
  BY DEF MarkInv, Chained
<1>3. Chained(B)
  BY <1>1, ChainedBefore DEF MarkInv
<1>4. B \in SUBSET Frames /\ \A g \in B : g.pos < eof
  BY <1>1
<1>5. {g \in Readable : g.pos <= r.pos} = B \cup {r}
  BY <1>1, SMT DEF MarkInv, PlaceInv
<1> HIDE DEF B
<1>6. TipHash(B) = ContentsOf(B)
  BY <1>1, <1>3, <1>4, TipContents
<1>7. ContentsOf(B \cup {r}) = Link(ContentsOf(B), r.c)
  BY DEF ContentsOf, Link
<1>8. r.prev = TipHash(B) /\ r.hash = Link(r.prev, r.c)
  BY <1>2, <1>5, <1>6, <1>7
<1> QED
  BY <1>8 DEF B

LEMMA MembersSynced ==
    ASSUME TypeInv, NoFaultInv, MembersInv, AppendSynced
    PROVE  MembersInv'
<1>1. PICK r \in recs : /\ work = {r} /\ unsynced = {r} /\ r.pos = eof - 1
                        /\ r.c.lsn = next_lsn
  BY DEF AppendSynced, NoFaultInv, AppendInv
<1>2. /\ pc = "written" /\ pc' = "idle" /\ unsynced' = {} /\ next_lsn' = next_lsn + 1
      /\ recs' = recs /\ mode' = mode /\ mode = "up"
      /\ hwm' \in {hwm, Mark(r.c.lsn, r.hash)}
      /\ last_checkpoint_lsn' = IF r.c.type = "CHECKPOINT" THEN r.c.lsn
                                ELSE last_checkpoint_lsn
  BY <1>1 DEF AppendSynced, Acknowledge, TypeInv
<1>3. /\ eof \in Nat /\ recs \in SUBSET Frames /\ \A g \in recs : g.pos < eof
      /\ \A g \in recs : g.pos \in Nat /\ g.c.lsn \in Nat
      /\ hwm.id \in Int /\ next_lsn \in Nat
  BY Places
<1>4. \A g \in recs : g.pos <= r.pos /\ (g.pos = r.pos => g = r)
  BY <1>1, <1>3, SMT DEF NoFaultInv, Ordered
<1>5. TipId(recs) = r.c.lsn /\ TipHash(recs) = r.hash
  BY <1>3, <1>4, LastIs
<1>6. /\ next_lsn = TipId(recs \ {r}) + 1 /\ hwm.id <= TipId(recs \ {r})
      /\ last_checkpoint_lsn = LastCheckpoint(recs \ {r})
  BY <1>1, <1>2 DEF MembersInv, Pruning
<1>7. TipId(recs \ {r}) \in Int
  BY <1>3, TipType, SMT
<1>8. last_checkpoint_lsn' = LastCheckpoint(recs)
  <2> DEFINE C == {g \in recs : g.c.type = "CHECKPOINT"}
  <2>1. CASE r.c.type = "CHECKPOINT"
    <3>0. /\ C \in SUBSET Frames /\ r \in C /\ \A g \in C : g.pos < eof
          /\ \A g \in C : g.pos <= r.pos /\ (g.pos = r.pos => g = r)
      BY <1>3, <1>4, <2>1
    <3> HIDE DEF C
    <3>1. TipId(C) = r.c.lsn
      BY <1>3, <3>0, LastIs
    <3> USE DEF C
    <3> QED
      BY <1>2, <2>1, <3>1 DEF LastCheckpoint
  <2>2. CASE r.c.type # "CHECKPOINT"
    <3>1. {g \in recs \ {r} : g.c.type = "CHECKPOINT"} = C
      BY <2>2, SMT
    <3> QED
      BY <1>2, <1>6, <2>2, <3>1 DEF LastCheckpoint
  <2> QED
    BY <2>1, <2>2
<1>9. hwm'.id <= r.c.lsn /\ (hwm'.id = r.c.lsn => hwm'.hash = r.hash)
  BY <1>1, <1>2, <1>3, <1>6, <1>7, SMT DEF Mark
<1>10. recs' \ unsynced' = recs
  BY <1>2
<1> QED
  BY <1>1, <1>2, <1>5, <1>8, <1>9, <1>10 DEF MembersInv

LEMMA MembersCrash ==
    ASSUME TypeInv, NoFaultInv, MembersInv, Crash, \A k : ~Fault(k)
    PROVE  MembersInv'
<1>1. ~Pruning /\ LoseUnsynced /\ unsynced' = {} /\ mode = "up" /\ mode' = "down"
      /\ (hwm' = hwm \/ hwm' = NoMark)
  BY DEF Crash, CrashedMark
<1>2. PICK p \in {r.pos : r \in unsynced} \cup {eof} : recs' = {r \in recs : r.pos < p}
  BY <1>1 DEF LoseUnsynced
<1>3. /\ eof \in Nat /\ recs \in SUBSET Frames /\ \A g \in recs : g.pos < eof
      /\ \A g \in recs : g.pos \in Nat /\ g.c.lsn \in Nat
      /\ hwm.id \in Int /\ next_lsn \in Nat
  BY Places
<1>4. recs' \ unsynced' = recs' /\ recs' \in SUBSET Frames /\ \A g \in recs' : g.pos < eof
  BY <1>1, <1>2, <1>3
<1>5. TipId(recs') \in Nat \cup {-1} /\ (TipId(recs') = -1 => TipHash(recs') = {})
  <2>1. CASE recs' = {}
    BY <2>1 DEF TipId, TipHash, GenesisHash
  <2>2. CASE recs' # {}
    <3>1. Last(recs') \in recs'
      BY <1>2, <1>3, <2>2, LastFrame
    <3> QED
      BY <1>2, <1>3, <2>2, <3>1, SMT DEF TipId
  <2> QED
    BY <2>1, <2>2
<1>6. CASE hwm' = NoMark
  <2>1. hwm'.id = -1 /\ hwm'.hash = {}
    BY <1>6 DEF NoMark, GenesisHash
  <2> QED
    BY <1>1, <1>4, <1>5, <2>1, SMT DEF MembersInv
<1>7. CASE hwm' = hwm
  <2>1. /\ hwm.id <= TipId(recs \ unsynced)
        /\ hwm.id = TipId(recs \ unsynced) => hwm.hash = TipHash(recs \ unsynced)
        /\ next_lsn = TipId(recs \ unsynced) + 1
    BY <1>1 DEF MembersInv, Pruning
  <2>2. CASE unsynced = {}
    <3>1. recs' = recs \ unsynced
      BY <1>2, <1>3, <2>2
    <3> QED
      BY <1>1, <1>4, <1>7, <2>1, <3>1 DEF MembersInv
  <2>3. CASE unsynced # {}
    <3>1. PICK r \in recs : unsynced = {r} /\ r.pos = eof - 1 /\ r.c.lsn = next_lsn
      BY <2>3 DEF NoFaultInv, AppendInv
    <3>2. \A g \in recs : g.pos <= r.pos /\ (g.pos = r.pos => g = r)
      BY <1>3, <3>1, SMT DEF NoFaultInv, Ordered
    <3>3. CASE p = r.pos
      <4>1. recs' = recs \ unsynced
        BY <1>2, <1>3, <3>1, <3>2, <3>3, SMT
      <4> QED
        BY <1>1, <1>4, <1>7, <2>1, <4>1 DEF MembersInv
    <3>4. CASE p = eof
      <4>1. recs' = recs
        BY <1>2, <1>3, <3>4
      <4>2. TipId(recs) = next_lsn
        BY <1>3, <3>1, <3>2, LastIs
      <4>3. TipId(recs \ unsynced) \in Int
        BY <1>3, TipType, SMT
      <4> QED
        BY <1>1, <1>3, <1>4, <1>7, <2>1, <4>1, <4>2, <4>3, SMT DEF MembersInv
    <3> QED
      BY <1>2, <3>1, <3>3, <3>4
  <2> QED
    BY <2>2, <2>3
<1> QED
  BY <1>1, <1>6, <1>7

LEMMA MembersBoot ==
    ASSUME TypeInv, MarkInv, NoFaultInv, MembersInv, Boot
    PROVE  MembersInv'
<1>1. /\ mode # "up" /\ pc = "idle" /\ unsynced = {}
      /\ UNCHANGED <<recs, torn, unsynced, hwm, pc>>
  BY DEF Boot, file, TypeInv, NoFaultInv, AppendInv
<1>2. Readable = recs /\ torn = {} /\ recs \ unsynced = recs
  BY <1>1, ReadableAll DEF NoFaultInv
<1>3. ~ReadCorrupt
  BY <1>2, Places, SMT DEF ReadCorrupt, NoFaultInv, Ordered
<1>4. MarkOK /\ VerifyChain
  BY <1>1, <1>2, <1>3, ChainVerified DEF MarkOK, MembersInv
<1>5. /\ mode' = "up" /\ next_lsn' = TipId(recs) + 1
      /\ last_checkpoint_lsn' = LastCheckpoint(recs)
  BY <1>2, <1>4 DEF Boot
<1>6. recs' \ unsynced' = recs
  BY <1>1
<1> QED
  BY <1>1, <1>2, <1>5, <1>6 DEF MembersInv

LEMMA MembersStep ==
    ASSUME TypeInv, MarkInv, NoFaultInv, MembersInv, [Next]_vars,
           \A k : ~Fault(k)
    PROVE  MembersInv'
<1>1. ASSUME NEW type, NEW key, WriteFrame(type, key)
      PROVE  MembersInv'
  <2>1. /\ mode = "up" /\ pc = "idle" /\ unsynced = {} /\ pc' = "written"
        /\ UNCHANGED <<mode, hwm, next_lsn, last_checkpoint_lsn>>
    BY <1>1 DEF WriteFrame, CanAppend, memory, NoFaultInv, AppendInv
  <2>2. NextFrame(type, key).pos = eof /\ eof \in Nat /\ \A r \in recs : r.pos < eof
    BY Places DEF NextFrame
  <2>3. recs' \ unsynced' = recs \ unsynced
    BY <1>1, <2>1, <2>2, Places, SMT DEF WriteFrame
  <2> QED
    BY <2>1, <2>3 DEF MembersInv, Pruning
<1>2. CASE AppendWriteFails \/ AppendFlushLost \/ AppendSyncFails
  BY <1>2 DEF AppendWriteFails, AppendFlushLost, AppendSyncFails
<1>3. CASE AppendSynced
  BY <1>3, MembersSynced
<1>4. CASE PruneRemove
  BY <1>4 DEF PruneRemove, file, memory, MembersInv, Pruning
<1>5. CASE PruneNothing \/ UNCHANGED vars
  BY <1>5 DEF PruneNothing, vars, file, memory, MembersInv, Pruning
<1>6. CASE PruneRename
  BY <1>6 DEF PruneRename, MembersInv, Pruning
<1>7. CASE PruneCommit
  <2>1. /\ pc = "renamed" /\ work = recs /\ unsynced = {}
        /\ UNCHANGED <<recs, unsynced, mode>>
        /\ next_lsn' = TipId(work) + 1 /\ last_checkpoint_lsn' = LastCheckpoint(work)
        /\ hwm'.id = TipId(work) /\ hwm'.hash = TipHash(work)
    BY <1>7 DEF PruneCommit, file, TypeInv, Mark, NoFaultInv, AppendInv
  <2>2. recs' \ unsynced' = work
    BY <2>1
  <2>3. TipId(work) \in Int
    BY <2>1, TipType, SMT DEF TypeInv, TypeOK
  <2> QED
    BY <2>1, <2>2, <2>3, SMT DEF MembersInv
<1>8. CASE Crash
  BY <1>8, MembersCrash
<1>9. CASE Boot
  BY <1>9, MembersBoot
<1> QED
  BY <1>1, <1>2, <1>3, <1>4, <1>5, <1>6, <1>7, <1>8, <1>9
  DEF Next, AppendRecord, RunCheckpoint

LEMMA FullInvariance == Spec => []FullInv
<1>1. Init => FullInv
  <2>1. Init => MembersInv
    BY SMT DEF Init, MembersInv, TipId, TipHash, LastCheckpoint, NoMark, GenesisHash, Pruning
  <2> QED
    BY <2>1, InvInit, MarkInit DEF FullInv
<1>2. FullInv /\ [Next]_vars => FullInv'
  <2> SUFFICES ASSUME FullInv, [Next]_vars PROVE FullInv'
    OBVIOUS
  <2>1. TypeInv /\ IInv' /\ MarkInv'
    BY InvStep, MarkStep DEF FullInv, IInv
  <2>2. ASSUME NoFaultYet' PROVE MembersInv'
    <3>1. NoFaultYet /\ \A k : ~Fault(k)
      BY <2>1, <2>2, NoFaultBefore
    <3> QED
      BY <2>1, <3>1, MembersStep DEF FullInv, IInv
  <2> QED
    BY <2>1, <2>2 DEF FullInv
<1> QED
  BY <1>1, <1>2, PTL DEF Spec

\* For every number of keys, LSNs, frames and checkpoints: as long as the
\* disk has not misbehaved, the next Append takes the LSN after the last
\* record of the file and chains to its hash, also after a crash in the middle
\* of an AppendRecord, after a prune and after a boot.
THEOREM MembersFollowFile == Spec => []MembersMatchFile
<1>1. FullInv => MembersMatchFile
  <2> SUFFICES ASSUME FullInv, NoFaultYet, mode = "up", pc = "idle"
               PROVE  /\ next_lsn = TipId(Readable) + 1
                      /\ tip_hash = TipHash(Readable)
                      /\ last_checkpoint_lsn = LastCheckpoint(Readable)
    BY DEF MembersMatchFile
  <2>1. /\ TypeInv /\ torn = {} /\ Ordered(recs) /\ unsynced = {}
        /\ \A r \in recs : r.c.lsn < next_lsn
    BY DEF FullInv, IInv, NoFaultInv, AppendInv
  <2>2. Readable = recs /\ recs \ unsynced = recs
    BY <2>1, ReadableAll
  <2>3. tip_hash = ContentsOf(recs) /\ Chained(recs)
    BY <2>1, <2>2 DEF FullInv, MarkInv, TipInv
  <2>4. TipHash(recs) = ContentsOf(recs)
    BY <2>1, <2>3, TipContents DEF TypeInv, TypeOK
  <2> QED
    BY <2>2, <2>3, <2>4 DEF FullInv, MembersInv, Pruning
<1> QED
  BY <1>1, FullInvariance, PTL

\* Under the same conditions Open accepts every file the log left behind,
\* whatever instant the crash came at (wal.cpp:364-369, 394-397).
THEOREM OpenAccepts == Spec => []NeverRefused
<1>1. FullInv => NeverRefused
  BY DEF FullInv, MembersInv, NeverRefused
<1> QED
  BY <1>1, FullInvariance, PTL

\* And whatever the disk did - torn and failed writes, failed syncs and
\* flushes, a crash in the middle of a prune, any number of them - a boot that
\* passes the checks of Open has every acknowledged record of the chain the
\* high-water mark was taken from (wal.cpp:364-370).
THEOREM MarkGuardsBoot == Spec => MarkedRecordsSurviveBoot
<1>1. FullInv /\ [Next]_vars =>
        [mode # "up" /\ mode' = "up" =>
            acked \cap hwm.hash \subseteq ContentsOf(Readable)]_vars
  <2> SUFFICES ASSUME FullInv, Next, mode # "up", mode' = "up"
               PROVE  acked \cap hwm.hash \subseteq ContentsOf(Readable)
    OBVIOUS
  <2>1. TypeInv /\ MarkInv /\ pc = "idle"
    BY DEF FullInv, IInv, TypeInv
  <2>2. Boot
    BY <2>1
    DEF Next, AppendRecord, AppendWriteFails, AppendSynced, AppendFlushLost,
        AppendSyncFails, RunCheckpoint, WriteFrame, CanAppend, PruneRemove,
        PruneNothing, PruneRename, PruneCommit, Crash
  <2> QED
    BY <2>1, <2>2, BootKeeps DEF Boot
<1> QED
  BY <1>1, FullInvariance, PTL DEF Spec, MarkedRecordsSurviveBoot

(***************************************************************************)
(* The migration of a data directory.                                      *)
(***************************************************************************)

\* The bytes a directory can have held before the first run.
Unsealed == [n : Nat, tail : {"none", "short", "long"}, ok : BOOLEAN, seal : {<<>>}]

\* Sealing adds one key to the bytes and leaves bytes.
LEMMA SealUnderFacts ==
    ASSUME NEW f \in Files, NEW b \in Bytes, NEW t \in Tags
    PROVE  /\ SealUnder(f, b, t) \in Bytes
           /\ SealUnder(f, b, t).seal = Append(b.seal, t)
           /\ Outer(SealUnder(f, b, t)) = t
<1>1. SealedSize(b.n) \in Nat
  <2>1. b.n \in Nat /\ kPageSize \in Nat \ {0} /\ kSealedPageSize \in Nat
    BY ReencryptAssumption DEF Bytes
  <2>2. \A m \in Nat, k \in Nat \ {0} : m \div k \in Nat
    BY SMT
  <2>3. \A m \in Nat, k \in Nat : m * k \in Nat
    BY SMT
  <2> QED
    BY <2>1, <2>2, <2>3 DEF SealedSize
<1>2. b.seal \in Seq(Tags) /\ Append(b.seal, t) \in Seq(Tags)
  BY SMT DEF Bytes
<1>3. SealUnder(f, b, t) \in Bytes /\ SealUnder(f, b, t).seal = Append(b.seal, t)
  BY <1>1, <1>2 DEF SealUnder, Bytes
<1>4. Append(b.seal, t)[Len(Append(b.seal, t))] = t
  BY <1>2, SMT
<1> QED
  BY <1>3, <1>4 DEF Outer

FilesTyped ==
    /\ dir \in Directories
    /\ disk \in [Files -> Bytes \cup {Missing}]
    /\ header \in [Files -> Nat \cup {None}]
    /\ interrupts \in Nat
    /\ at \in 0 .. Len(Order)
    /\ step \in {"read", "remove", "rename", "header"}
    /\ at = 0 => step = "read"

\* The tag a run can have drawn for f.
TagOf(f) == IF Kind[f] = "dsf" THEN Nat ELSE {"dek"}

\* Between the temporary file and the end of a file, what is to be renamed is
\* one sealing of what the file was, unless an earlier run has spoilt the file.
Pending ==
    step # "read" =>
        LET f == Order[at] IN
        /\ out \in Bytes
        /\ Outer(out) \in TagOf(f)
        /\ step = "header" => disk[f] = out /\ Kind[f] = "dsf"
        /\ f \notin lost \cup unheaded =>
              /\ dir.files[f] # Missing
              /\ out = SealUnder(f, dir.files[f], Outer(out))
              /\ step = "remove" => disk[f] = dir.files[f]

Inv == FilesTyped /\ Pending /\ ContentsKept

LEMMA DirFiles ==
    ASSUME FilesTyped, NEW f \in Files
    PROVE  dir.files[f] \in Unsealed \cup {Missing} /\ Unsealed \subseteq Bytes
<1>1. dir.files \in [Files -> Unsealed \cup {Missing}]
  BY ReencryptAssumption DEF FilesTyped, Unsealed
<1>2. Unsealed \subseteq Bytes
  <2>1. <<>> \in Seq(Tags)
    BY SMT
  <2> QED
    BY <2>1 DEF Unsealed, Bytes
<1> QED
  BY <1>1, <1>2

LEMMA AtFile ==
    ASSUME FilesTyped, step # "read"
    PROVE  at > 0
<1>1. at \in 0 .. Len(Order) /\ at # 0 /\ Len(Order) \in Nat
  BY ReencryptAssumption, SMT DEF FilesTyped
<1> QED
  BY <1>1, SMT

LEMMA CurrentFile ==
    ASSUME FilesTyped, at > 0
    PROVE  Order[at] \in Files /\ at \in DOMAIN Order
<1>1. Order \in Seq(Files) /\ at \in 0 .. Len(Order)
  BY ReencryptAssumption DEF FilesTyped
<1> QED
  BY <1>1, SMT

LEMMA MigrationInvInit == MigrationInit => Inv
<1> SUFFICES ASSUME MigrationInit PROVE Inv
  OBVIOUS
<1>1. dir.files \in [Files -> Unsealed \cup {Missing}]
  BY ReencryptAssumption DEF MigrationInit, Unsealed
<1>2. Unsealed \subseteq Bytes
  <2>1. <<>> \in Seq(Tags)
    BY SMT
  <2> QED
    BY <2>1 DEF Unsealed, Bytes
<1>3. FilesTyped
  BY <1>1, <1>2, ReencryptAssumption, SMT DEF MigrationInit, FilesTyped
<1> QED
  BY <1>3 DEF MigrationInit, Inv, Pending, ContentsKept

\* What a step leaves of the file it is at and of the others.
LEMMA OthersKept ==
    ASSUME FilesTyped, ContentsKept, at > 0, NEW f \in Files, f # Order[at],
           disk'[f] = disk[f], header'[f] = header[f], dir' = dir,
           lost \subseteq lost', unheaded \subseteq unheaded'
    PROVE  disk'[f] = dir'.files[f] \/ Migrated(f)' \/ f \in lost' \/ f \in unheaded'
BY DEF ContentsKept, Migrated, SealUnder, SealedSize

\* A file the tool decides to seal is what it was, unless it was spoilt.
LEMMA SealsOriginals ==
    ASSUME Inv, at > 0, step = "read", ~Skips(Order[at]),
           Order[at] \notin lost \cup unheaded
    PROVE  disk[Order[at]] = dir.files[Order[at]]
<1> DEFINE f == Order[at]
<1>1. f \in Files /\ FilesTyped
  BY CurrentFile DEF Inv
<1>2. disk[f] # Missing /\ disk[f] \in Bytes
  BY <1>1 DEF Skips, FilesTyped
<1>3. disk[f] = dir.files[f] \/ Migrated(f)
  BY <1>1 DEF Inv, ContentsKept
<1>4. ASSUME Migrated(f) PROVE FALSE
  <2>1. dir.files[f] \in Bytes /\ dir.files[f].seal = <<>>
    BY <1>1, <1>4, DirFiles DEF Migrated, Unsealed
  <2>2. ASSUME NEW t, disk[f] = SealUnder(f, dir.files[f], t)
        PROVE  disk[f].seal = <<t>>
    <3>1. "seal" \in DOMAIN dir.files[f]
      BY <2>1 DEF Bytes
    <3>2. disk[f].seal = Append(dir.files[f].seal, t)
      BY <2>2, <3>1 DEF SealUnder
    <3> QED
      BY <2>1, <3>2, SMT
  <2>3. CASE Kind[f] = "dsf"
    <3>1. header[f] = None
      BY <1>2, <2>3 DEF Skips, HasPageHeader
    <3>2. disk[f].seal = <<None>>
      BY <1>4, <2>2, <2>3, <3>1 DEF Migrated
    <3>3. disk[f].seal \in Seq(Tags)
      BY <1>2 DEF Bytes
    <3> QED
      BY <3>2, <3>3, ReencryptAssumption, SMT
  <2>4. CASE Kind[f] # "dsf"
    <3>1. disk[f].seal = <<>>
      BY <1>2, <2>4 DEF Skips, LooksSealed
    <3>2. disk[f].seal = <<"dek">>
      BY <1>4, <2>2, <2>4 DEF Migrated
    <3> QED
      BY <3>1, <3>2, SMT
  <2> QED
    BY <2>3, <2>4
<1> QED
  BY <1>3, <1>4

\* A step that changes no file keeps their contents, unless it leaves one of
\* the two windows.
LEMMA FilesKept ==
    ASSUME ContentsKept, at = 0 \/ step \in {"read", "remove"},
           UNCHANGED <<dir, disk, header, lost, unheaded>>
    PROVE  ContentsKept'
<1> SUFFICES ASSUME NEW g \in Files
             PROVE  disk'[g] = dir'.files[g] \/ Migrated(g)' \/ g \in lost' \/ g \in unheaded'
  BY DEF ContentsKept
<1>1. disk[g] = dir.files[g] \/ Migrated(g) \/ g \in lost \/ g \in unheaded
  BY SMT DEF ContentsKept
<1> QED
  BY <1>1 DEF Migrated, SealUnder, SealedSize

\* Leaving a file, or stopping, keeps the place and the step in their types.
LEMMA NextFileType ==
    ASSUME FilesTyped, at > 0, NextFile \/ Go(0, "read")
    PROVE  at' \in 0 .. Len(Order) /\ step' = "read"
BY ReencryptAssumption, SMT DEF FilesTyped, NextFile, Go

LEMMA MigrationInvStep == Inv /\ [MigrationNext]_migrationVars => Inv'
<1> SUFFICES ASSUME Inv, [MigrationNext]_migrationVars PROVE Inv'
  OBVIOUS
<1> PICK f : f = Order[at]
  OBVIOUS
<1>0. FilesTyped /\ Pending /\ ContentsKept
  BY DEF Inv
<1>1. CASE Start
  <2>1. at' \in 0 .. Len(Order) /\ step' = "read"
    BY <1>0, <1>1, ReencryptAssumption, SMT DEF Start, Go, FilesTyped
  <2>2. FilesTyped' /\ Pending'
    BY <1>0, <1>1, <2>1 DEF Start, FilesTyped, Pending
  <2>3. at = 0 /\ disk' = disk /\ header' = header /\ dir' = dir /\ lost' = lost /\ unheaded' = unheaded
    BY <1>1 DEF Start
  <2>4. ContentsKept'
    BY <1>0, <2>3, FilesKept
  <2> QED
    BY <2>2, <2>4 DEF Inv
<1>2. CASE SkipFile \/ RefuseFile
  <2>1. /\ at > 0 /\ step = "read" /\ (NextFile \/ Go(0, "read"))
        /\ UNCHANGED <<dir, disk, header, interrupts, lost, unheaded>>
    BY <1>2 DEF SkipFile, RefuseFile
  <2>2. at' \in 0 .. Len(Order) /\ step' = "read"
    BY <1>0, <2>1, NextFileType
  <2>3. FilesTyped' /\ Pending'
    BY <1>0, <2>1, <2>2 DEF FilesTyped, Pending
  <2>4. ContentsKept'
    BY <1>0, <2>1, FilesKept
  <2> QED
    BY <2>3, <2>4 DEF Inv
<1>3. CASE SealFile
  <2>1. /\ at > 0 /\ step = "read" /\ ~Skips(f) /\ at' = at /\ step' = "remove"
        /\ out' = SealUnder(f, disk[f], FileSubkey(f))
        /\ UNCHANGED <<dir, disk, header, interrupts, lost, unheaded>>
    BY <1>3 DEF SealFile, Go, Sealed
  <2>2. f \in Files /\ disk[f] \in Bytes /\ disk[f] # Missing
    BY <1>0, <2>1, CurrentFile, ReencryptAssumption DEF FilesTyped, Skips
  <2>3. FileSubkey(f) \in TagOf(f) /\ FileSubkey(f) \in Tags
    BY <1>0 DEF FileSubkey, TagOf, Tags, FilesTyped
  <2>4. out' \in Bytes /\ Outer(out') = FileSubkey(f)
    BY <2>1, <2>2, <2>3, SealUnderFacts
  <2>5. f \notin lost \cup unheaded => disk[f] = dir.files[f]
    BY <2>1, SealsOriginals
  <2>6. FilesTyped'
    BY <1>0, <2>1, SMT DEF FilesTyped
  <2>7. Pending'
    <3>1. Order'[at'] = f /\ TagOf(f)' = TagOf(f)
      BY <2>1 DEF TagOf
    <3>2. f \notin (lost \cup unheaded)' =>
            /\ dir'.files[f] # Missing
            /\ out' = SealUnder(f, dir'.files[f], Outer(out'))
            /\ disk'[f] = dir'.files[f]
      BY <2>1, <2>2, <2>4, <2>5
    <3> QED
      BY <2>1, <2>3, <2>4, <3>1, <3>2 DEF Pending, SealUnder, SealedSize
  <2>8. ContentsKept'
    BY <1>0, <2>1, FilesKept
  <2> QED
    BY <2>6, <2>7, <2>8 DEF Inv
<1>4. CASE RemoveOriginal
  <2>1. /\ step = "remove" /\ at' = at /\ step' = "rename" /\ out' = out
        /\ disk' = [disk EXCEPT ![f] = Missing]
        /\ UNCHANGED <<dir, header, interrupts, lost, unheaded>>
    BY <1>4 DEF RemoveOriginal, Go
  <2>2. at > 0 /\ f \in Files
    BY <1>0, <2>1, CurrentFile, AtFile
  <2>3. FilesTyped'
    BY <1>0, <2>1, <2>2 DEF FilesTyped
  <2>4. Pending'
    BY <1>0, <2>1, <2>2 DEF Pending, TagOf, SealUnder, SealedSize
  <2>5. ASSUME NEW g \in Files, g # f
        PROVE  disk'[g] = dir'.files[g] \/ Migrated(g)' \/ g \in lost' \/ g \in unheaded'
    BY <1>0, <2>1, <2>2, <2>5, OthersKept DEF FilesTyped
  <2>6. ContentsKept'
    BY <2>1, <2>2, <2>5 DEF ContentsKept
  <2> QED
    BY <2>3, <2>4, <2>6 DEF Inv
<1>5. CASE RenameSealed
  <2>1. /\ step = "rename" /\ disk' = [disk EXCEPT ![f] = out]
        /\ UNCHANGED <<dir, header, interrupts, lost, unheaded>>
        /\ IF Kind[f] = "dsf" THEN at' = at /\ step' = "header" /\ out' = out ELSE NextFile
    BY <1>5 DEF RenameSealed, Go
  <2>2. at > 0 /\ f \in Files /\ out \in Bytes
    BY <1>0, <2>1, CurrentFile, AtFile DEF Pending
  <2>3. Kind[f] # "dsf" => at' \in 0 .. Len(Order) /\ step' = "read"
    BY <1>0, <2>1, <2>2, NextFileType
  <2>4. FilesTyped'
    BY <1>0, <2>1, <2>2, <2>3 DEF FilesTyped
  <2>5. disk'[f] = out
    BY <1>0, <2>1, <2>2 DEF FilesTyped
  <2>6. Pending'
    <3>1. CASE Kind[f] = "dsf"
      BY <1>0, <2>1, <2>5, <3>1 DEF Pending, TagOf, SealUnder, SealedSize
    <3>2. CASE Kind[f] # "dsf"
      BY <2>3, <3>2 DEF Pending
    <3> QED
      BY <3>1, <3>2
  <2>7. ASSUME NEW g \in Files, g # f
        PROVE  disk'[g] = dir'.files[g] \/ Migrated(g)' \/ g \in lost' \/ g \in unheaded'
    BY <1>0, <2>1, <2>2, <2>7, OthersKept DEF FilesTyped
  <2>8. \/ Migrated(f)' \/ f \in lost' \/ f \in unheaded'
        \/ at' > 0 /\ Order[at'] = f /\ step' \in {"rename", "header"}
    <3>1. CASE Kind[f] = "dsf"
      BY <2>1, <2>2, <3>1
    <3>2. CASE Kind[f] # "dsf" /\ f \notin lost \cup unheaded
      BY <1>0, <2>1, <2>5, <3>2 DEF Pending, TagOf, Migrated, SealUnder, SealedSize
    <3> QED
      BY <2>1, <3>1, <3>2
  <2>9. ContentsKept'
    BY <2>7, <2>8 DEF ContentsKept
  <2> QED
    BY <2>4, <2>6, <2>9 DEF Inv
<1>6. CASE WritePageHeaderFile
  <2>1. /\ step = "header" /\ NextFile
        /\ header' = [header EXCEPT ![f] = Outer(out)]
        /\ UNCHANGED <<dir, disk, interrupts, lost, unheaded>>
    BY <1>6 DEF WritePageHeaderFile
  <2>2. at > 0 /\ f \in Files /\ Kind[f] = "dsf" /\ disk[f] = out /\ Outer(out) \in Nat
    BY <1>0, <2>1, CurrentFile, AtFile DEF Pending, TagOf
  <2>3. at' \in 0 .. Len(Order) /\ step' = "read"
    BY <1>0, <2>1, <2>2, NextFileType
  <2>4. FilesTyped' /\ Pending'
    BY <1>0, <2>1, <2>2, <2>3 DEF FilesTyped, Pending
  <2>5. ASSUME NEW g \in Files, g # f
        PROVE  disk'[g] = dir'.files[g] \/ Migrated(g)' \/ g \in lost' \/ g \in unheaded'
    BY <1>0, <2>1, <2>2, <2>5, OthersKept DEF FilesTyped
  <2>6. Migrated(f)' \/ f \in lost' \/ f \in unheaded'
    <3>1. header'[f] = Outer(out) /\ disk'[f] = out
      BY <1>0, <2>1, <2>2 DEF FilesTyped
    <3> QED
      BY <1>0, <2>1, <2>2, <3>1 DEF Pending, Migrated, SealUnder, SealedSize
  <2>7. ContentsKept'
    BY <2>5, <2>6 DEF ContentsKept
  <2> QED
    BY <2>4, <2>7 DEF Inv
<1>7. CASE Interrupt
  <2>1. /\ at > 0 /\ interrupts' = interrupts - 1 /\ interrupts > 0 /\ at' = 0 /\ step' = "read"
        /\ lost' = IF step = "rename" THEN lost \cup {f} ELSE lost
        /\ unheaded' = IF step = "header" THEN unheaded \cup {f} ELSE unheaded
        /\ UNCHANGED <<dir, disk, header>>
    BY <1>7 DEF Interrupt, Go
  <2>2. FilesTyped' /\ Pending'
    <3>1. interrupts - 1 \in Nat /\ 0 \in 0 .. Len(Order)
      <4>1. Order \in Seq(Files) /\ interrupts \in Nat /\ interrupts > 0
        BY <1>0, <2>1, ReencryptAssumption DEF FilesTyped
      <4> QED
        BY <4>1, SMT
    <3> QED
      BY <1>0, <2>1, <3>1 DEF FilesTyped, Pending
  <2>3. ContentsKept'
    BY <1>0, <2>1 DEF ContentsKept, Migrated, SealUnder, SealedSize
  <2> QED
    BY <2>2, <2>3 DEF Inv
<1>8. CASE UNCHANGED migrationVars
  BY <1>0, <1>8
  DEF migrationVars, Inv, FilesTyped, Pending, ContentsKept, Migrated, SealUnder, SealedSize, TagOf
<1> QED
  BY <1>1, <1>2, <1>3, <1>4, <1>5, <1>6, <1>7, <1>8 DEF MigrationNext, Run

\* For every set of files, every order the tool takes them in and every point
\* at which its runs end, a file outside the two windows of WriteAtomic and
\* SealDsfFile is what it was or is sealed once, under the key the node
\* derives for it (reencrypt.cpp:44-60, 188-227).
THEOREM MigrationKeepsContents == MigrationSpec => []ContentsKept
<1>1. Inv => ContentsKept
  BY DEF Inv
<1> QED
  BY <1>1, MigrationInvInit, MigrationInvStep, PTL DEF MigrationSpec

-----------------------------------------------------------------------------
(* Booting a half-migrated directory *)

\* A file other than pages that the tool has sealed.
Done(f) == disk[f] # Missing /\ disk[f].n > 0 /\ LooksSealed(disk[f])

\* A file other than pages that held something.
ToSeal(f) == Kind[f] # "dsf" /\ HeldIn(dir.files, f)

\* Of the files before place j, those that are not pages are sealed.
DoneBefore(j) == \A i \in 1 .. j - 1 : ToSeal(Order[i]) => Done(Order[i])

\* What is on the disk of each file.
Modes ==
    \A f \in Files :
        /\ disk[f] # Missing /\ ~LooksSealed(disk[f]) => disk[f] = dir.files[f]
        /\ Kind[f] # "dsf" /\ disk[f] # Missing /\ LooksSealed(disk[f]) => disk[f].n > 0
        /\ header[f] # None => Kind[f] = "dsf" /\ (disk[f] # Missing => LooksSealed(disk[f]))
        /\ f \in unheaded => Kind[f] = "dsf"

\* What the tool has in hand.
InHand ==
    step # "read" =>
        LET f == Order[at] IN
        /\ out # Missing /\ LooksSealed(out) /\ header[f] = None
        /\ lost = {} => HeldIn(dir.files, f)
        /\ Kind[f] # "dsf" => out.n > 0
        /\ Kind[f] # "dsf" /\ disk[f] # Missing => ~LooksSealed(disk[f])
        /\ step = "rename" => disk[f] = Missing

\* As long as no file was lost, pages are sealed after the files before them.
InOrder ==
    lost = {} =>
        /\ at > 0 => DoneBefore(at)
        /\ \A f \in Files : Kind[f] = "dsf" /\ disk[f] # Missing /\ LooksSealed(disk[f]) =>
              /\ HeldIn(dir.files, f)
              /\ \E j \in DOMAIN Order : Order[j] = f /\ DoneBefore(j)

BootInv == Modes /\ InHand /\ InOrder

\* Sealed bytes look sealed, and only pages change their size.
LEMMA SealedLooks ==
    ASSUME NEW f \in Files, NEW b \in Bytes, NEW t \in Tags
    PROVE  /\ LooksSealed(SealUnder(f, b, t))
           /\ Kind[f] # "dsf" => SealUnder(f, b, t).n = b.n
           /\ SealUnder(f, b, t) # Missing
<1>1. SealUnder(f, b, t) \in Bytes /\ SealUnder(f, b, t).seal = Append(b.seal, t)
  BY SealUnderFacts
<1>2. b.seal \in Seq(Tags)
  BY DEF Bytes
<1>3. Append(b.seal, t) # <<>>
  BY <1>2, SMT
<1>4. Kind[f] # "dsf" => SealUnder(f, b, t).n = b.n
  BY DEF SealUnder, Bytes
<1> QED
  BY <1>1, <1>3, <1>4, ReencryptAssumption DEF LooksSealed

\* A file the tool passes over is sealed if it is not pages and held anything.
LEMMA SkippedIsDone ==
    ASSUME Inv, Modes, at > 0, step = "read", lost = {},
           Skips(Order[at]), ToSeal(Order[at])
    PROVE  Done(Order[at])
<1> DEFINE f == Order[at]
<1>1. f \in Files /\ FilesTyped
  BY CurrentFile DEF Inv
<1>2. f \notin unheaded /\ Kind[f] # "dsf"
  BY <1>1 DEF Modes, ToSeal
<1>3. disk[f] = dir.files[f] \/ Migrated(f)
  BY <1>1, <1>2 DEF Inv, ContentsKept
<1>4. dir.files[f] \in Bytes /\ dir.files[f].n > 0 /\ dir.files[f] # Missing
  BY <1>1, DirFiles DEF ToSeal, HeldIn
<1>5. disk[f] # Missing /\ disk[f].n > 0
  <2>1. CASE disk[f] = dir.files[f]
    BY <1>4, <2>1
  <2>2. CASE Migrated(f)
    <3>1. disk[f] = SealUnder(f, dir.files[f], "dek")
      BY <1>2, <2>2 DEF Migrated
    <3>2. "dek" \in Tags
      BY DEF Tags
    <3> QED
      BY <1>1, <1>2, <1>4, <3>1, <3>2, SealedLooks
  <2> QED
    BY <1>3, <2>1, <2>2
<1> QED
  BY <1>2, <1>5 DEF Skips, Done

\* A file that is sealed stays sealed as long as a step leaves it alone.
LEMMA BeforeKept ==
    ASSUME NEW j \in DOMAIN Order, DoneBefore(j), dir' = dir,
           \A g \in Files : ToSeal(g) /\ Done(g) => disk'[g] = disk[g]
    PROVE  DoneBefore(j)'
<1> SUFFICES ASSUME NEW i \in 1 .. j - 1, ToSeal(Order[i])' PROVE Done(Order[i])'
  BY DEF DoneBefore
<1>1. i \in DOMAIN Order /\ Order[i] \in Files
  <2>1. Order \in Seq(Files)
    BY ReencryptAssumption
  <2>2. DOMAIN Order = 1 .. Len(Order) /\ Len(Order) \in Nat
    BY <2>1, SMT
  <2>3. i \in 1 .. Len(Order)
    BY <2>2, SMT
  <2> QED
    BY <2>2, <2>3 DEF Files
<1>2. ToSeal(Order[i]) /\ Done(Order[i])
  BY DEF DoneBefore, ToSeal, HeldIn
<1> QED
  BY <1>1, <1>2 DEF Done, LooksSealed

\* The order of the files is kept by a step that seals no pages, or those of
\* the file the tool is at.
LEMMA OrderKept ==
    ASSUME FilesTyped, InOrder, dir' = dir, lost \subseteq lost',
           lost' = {} /\ at' > 0 => DoneBefore(at)',
           lost' = {} => \A g \in Files : ToSeal(g) /\ Done(g) => disk'[g] = disk[g],
           \A g \in Files :
               Kind[g] = "dsf" /\ disk'[g] # Missing /\ LooksSealed(disk'[g]) =>
                   \/ disk'[g] = disk[g]
                   \/ at > 0 /\ Order[at] = g /\ HeldIn(dir.files, g)
    PROVE  InOrder'
<1> SUFFICES ASSUME lost' = {} PROVE InOrder'
  BY DEF InOrder
<1>1. lost = {} /\ \A g \in Files : ToSeal(g) /\ Done(g) => disk'[g] = disk[g]
  OBVIOUS
<1>2. ASSUME NEW g \in Files, Kind[g] = "dsf", disk'[g] # Missing, LooksSealed(disk'[g])
      PROVE  /\ HeldIn(dir.files, g)
             /\ \E j \in DOMAIN Order : Order[j] = g /\ DoneBefore(j)'
  <2>1. CASE disk'[g] = disk[g]
    <3>1. HeldIn(dir.files, g) /\ \E j \in DOMAIN Order : Order[j] = g /\ DoneBefore(j)
      BY <1>1, <1>2, <2>1 DEF InOrder
    <3>2. PICK j \in DOMAIN Order : Order[j] = g /\ DoneBefore(j)
      BY <3>1
    <3>3. DoneBefore(j)'
      BY <1>1, <3>2, BeforeKept
    <3> QED
      BY <3>1, <3>2, <3>3
  <2>2. CASE at > 0 /\ Order[at] = g /\ HeldIn(dir.files, g)
    <3>1. PICK j \in DOMAIN Order : j = at
      BY <2>2, CurrentFile
    <3>2. DoneBefore(j)
      BY <1>1, <2>2, <3>1 DEF InOrder
    <3>3. DoneBefore(j)'
      BY <1>1, <3>2, BeforeKept
    <3> QED
      BY <2>2, <3>1, <3>3
  <2> QED
    BY <1>2, <2>1, <2>2
<1> QED
  BY <1>1, <1>2 DEF InOrder, HeldIn, LooksSealed

\* Passing over a file, or being through with one that is sealed.
LEMMA BeforeNext ==
    ASSUME FilesTyped, InOrder, lost = {}, at > 0, NextFile, dir' = dir,
           \A g \in Files : ToSeal(g) /\ Done(g) => disk'[g] = disk[g],
           NEW f, f = Order[at], ToSeal(f)' => Done(f)'
    PROVE  at' > 0 => DoneBefore(at)'
<1> SUFFICES ASSUME at' > 0, NEW i \in 1 .. at' - 1, ToSeal(Order[i])'
             PROVE  Done(Order[i])'
  BY DEF DoneBefore
<1>1. at' = at + 1 /\ at \in DOMAIN Order
  BY CurrentFile, SMT DEF NextFile, Go
<1>2. PICK j \in DOMAIN Order : j = at
  BY <1>1
<1>3. DoneBefore(j)'
  <2>1. DoneBefore(j)
    BY <1>2 DEF InOrder
  <2> QED
    BY <2>1, BeforeKept
<1>4. CASE i = j
  <2>1. Order[i] = f
    BY <1>2, <1>4
  <2> QED
    BY <2>1
<1>5. CASE i \in 1 .. j - 1
  BY <1>3, <1>5 DEF DoneBefore
<1>6. i = j \/ i \in 1 .. j - 1
  BY <1>1, <1>2, ReencryptAssumption, SMT
<1> QED
  BY <1>4, <1>5, <1>6

\* A step that leaves the files alone leaves their modes alone.
LEMMA ModesKept ==
    ASSUME Modes, UNCHANGED <<dir, disk, header, unheaded>>
    PROVE  Modes'
BY DEF Modes, LooksSealed

LEMMA BootStep == Inv /\ BootInv /\ [MigrationNext]_migrationVars => BootInv'
<1> SUFFICES ASSUME Inv, BootInv, [MigrationNext]_migrationVars PROVE BootInv'
  OBVIOUS
<1> PICK f : f = Order[at]
  OBVIOUS
<1>0. FilesTyped /\ Pending /\ Modes /\ InHand /\ InOrder
  BY DEF Inv, BootInv
<1>1. CASE Start
  <2>1. /\ at = 0 /\ step = "read" /\ step' = "read" /\ at' \in {0, 1}
        /\ UNCHANGED <<dir, disk, header, lost, unheaded>>
    BY <1>0, <1>1 DEF Start, Go, FilesTyped
  <2>2. Modes' /\ InHand'
    BY <1>0, <2>1, ModesKept DEF InHand
  <2>3. lost' = {} /\ at' > 0 => DoneBefore(at)'
    <3>1. at' = 0 \/ at' = 1
      BY <2>1
    <3>2. \A i \in 1 .. 1 - 1 : FALSE
      BY SMT
    <3>3. CASE at' = 1
      BY <3>2, <3>3 DEF DoneBefore
    <3> QED
      BY <3>1, <3>3, SMT
  <2>4. InOrder'
    BY <1>0, <2>1, <2>3, OrderKept
  <2> QED
    BY <2>2, <2>4 DEF BootInv
<1>2. CASE SkipFile
  <2>1. /\ at > 0 /\ step = "read" /\ step' = "read" /\ Skips(f) /\ NextFile
        /\ UNCHANGED <<dir, disk, header, lost, unheaded>>
    BY <1>2 DEF SkipFile, NextFile, Go
  <2>2. Modes' /\ InHand'
    BY <1>0, <2>1, ModesKept DEF InHand
  <2>3. lost' = {} /\ at' > 0 => DoneBefore(at)'
    <3> SUFFICES ASSUME lost' = {} PROVE at' > 0 => DoneBefore(at)'
      OBVIOUS
    <3>1. ToSeal(f) => Done(f)
      BY <1>0, <2>1, SkippedIsDone
    <3>2. ToSeal(f)' => Done(f)'
      BY <2>1, <3>1 DEF ToSeal, HeldIn, Done, LooksSealed
    <3> QED
      BY <1>0, <2>1, <3>2, BeforeNext
  <2>4. InOrder'
    BY <1>0, <2>1, <2>3, OrderKept
  <2> QED
    BY <2>2, <2>4 DEF BootInv
<1>3. CASE RefuseFile
  <2>1. /\ step = "read" /\ step' = "read" /\ at' = 0
        /\ UNCHANGED <<dir, disk, header, lost, unheaded>>
    BY <1>3 DEF RefuseFile, Go
  <2>2. Modes' /\ InHand'
    BY <1>0, <2>1, ModesKept DEF InHand
  <2>3. ~(at' > 0)
    <3>1. ~(0 > 0)
      BY SMT
    <3> QED
      BY <2>1, <3>1
  <2>4. InOrder'
    BY <1>0, <2>1, <2>3, OrderKept
  <2> QED
    BY <2>2, <2>4 DEF BootInv
<1>4. CASE SealFile
  <2>1. /\ at > 0 /\ step = "read" /\ ~Skips(f) /\ at' = at /\ step' = "remove"
        /\ out' = SealUnder(f, disk[f], FileSubkey(f))
        /\ UNCHANGED <<dir, disk, header, lost, unheaded>>
    BY <1>4 DEF SealFile, Go, Sealed
  <2>2. f \in Files /\ disk[f] \in Bytes /\ disk[f] # Missing /\ disk[f].n > 0
    BY <1>0, <2>1, CurrentFile DEF FilesTyped, Skips
  <2>3. FileSubkey(f) \in Tags
    BY <1>0 DEF FileSubkey, Tags, FilesTyped
  <2>4. out' # Missing /\ LooksSealed(out') /\ (Kind[f] # "dsf" => out'.n > 0)
    BY <2>1, <2>2, <2>3, SealedLooks
  <2>5. header[f] = None /\ (Kind[f] # "dsf" => ~LooksSealed(disk[f]))
    BY <1>0, <2>1, <2>2 DEF Skips, HasPageHeader, Modes
  <2>6. lost = {} => HeldIn(dir.files, f)
    <3>1. CASE LooksSealed(disk[f])
      BY <1>0, <2>2, <2>5, <3>1 DEF InOrder
    <3>2. CASE ~LooksSealed(disk[f])
      BY <1>0, <2>2, <3>2 DEF Modes, HeldIn
    <3> QED
      BY <3>1, <3>2
  <2>7. Modes'
    BY <1>0, <2>1, ModesKept
  <2>8. InHand'
    BY <2>1, <2>4, <2>5, <2>6 DEF InHand, LooksSealed, HeldIn
  <2>9. lost' = {} /\ at' > 0 => DoneBefore(at)'
    <3>1. PICK j \in DOMAIN Order : j = at
      BY <1>0, <2>1, CurrentFile
    <3>2. lost = {} => DoneBefore(j)
      BY <1>0, <2>1, <3>1 DEF InOrder
    <3>3. lost = {} => DoneBefore(j)'
      BY <2>1, <3>2, BeforeKept
    <3> QED
      BY <2>1, <3>1, <3>3 DEF DoneBefore
  <2>10. InOrder'
    BY <1>0, <2>1, <2>9, OrderKept
  <2> QED
    BY <2>7, <2>8, <2>10 DEF BootInv

<1>5. CASE RemoveOriginal
  <2>1. /\ step = "remove" /\ at' = at /\ step' = "rename" /\ out' = out
        /\ disk' = [disk EXCEPT ![f] = Missing]
        /\ UNCHANGED <<dir, header, lost, unheaded>>
    BY <1>5 DEF RemoveOriginal, Go
  <2>2. at > 0 /\ f \in Files /\ disk \in [Files -> Bytes \cup {Missing}]
    BY <1>0, <2>1, CurrentFile, AtFile DEF FilesTyped
  <2>3. disk'[f] = Missing /\ \A g \in Files : g # f => disk'[g] = disk[g]
    BY <2>1, <2>2
  <2>4. Modes'
    BY <1>0, <2>1, <2>3 DEF Modes, LooksSealed
  <2>5. InHand'
    BY <1>0, <2>1, <2>3 DEF InHand, LooksSealed, HeldIn
  <2>6. ASSUME NEW g \in Files, ToSeal(g), Done(g) PROVE disk'[g] = disk[g]
    <3>1. g # f
      BY <1>0, <2>1, <2>6 DEF InHand, ToSeal, Done
    <3> QED
      BY <2>3, <3>1
  <2>7. lost' = {} /\ at' > 0 => DoneBefore(at)'
    <3>1. PICK j \in DOMAIN Order : j = at
      BY <1>0, <2>2, CurrentFile
    <3>2. lost = {} => DoneBefore(j)
      BY <1>0, <2>2, <3>1 DEF InOrder
    <3>3. lost = {} => DoneBefore(j)'
      BY <2>1, <2>6, <3>2, BeforeKept
    <3> QED
      BY <2>1, <3>1, <3>3 DEF DoneBefore
  <2>8. InOrder'
    BY <1>0, <2>1, <2>3, <2>6, <2>7, OrderKept
  <2> QED
    BY <2>4, <2>5, <2>8 DEF BootInv
<1>6. CASE RenameSealed
  <2>1. /\ step = "rename" /\ disk' = [disk EXCEPT ![f] = out]
        /\ UNCHANGED <<dir, header, lost, unheaded>>
        /\ IF Kind[f] = "dsf" THEN at' = at /\ step' = "header" /\ out' = out ELSE NextFile
    BY <1>6 DEF RenameSealed, Go
  <2>2. at > 0 /\ f \in Files /\ disk \in [Files -> Bytes \cup {Missing}]
    BY <1>0, <2>1, CurrentFile, AtFile DEF FilesTyped
  <2>3. disk'[f] = out /\ \A g \in Files : g # f => disk'[g] = disk[g]
    BY <2>1, <2>2
  <2>4. /\ out # Missing /\ LooksSealed(out) /\ header[f] = None /\ disk[f] = Missing
        /\ lost = {} => HeldIn(dir.files, f)
        /\ Kind[f] # "dsf" => out.n > 0
    BY <1>0, <2>1 DEF InHand
  <2>5. Modes'
    BY <1>0, <2>1, <2>3, <2>4 DEF Modes, LooksSealed
  <2>6. InHand'
    <3>1. CASE Kind[f] = "dsf"
      BY <1>0, <2>1, <2>3, <2>4, <3>1 DEF InHand, LooksSealed, HeldIn
    <3>2. CASE Kind[f] # "dsf"
      BY <2>1, <3>2 DEF InHand, NextFile, Go
    <3> QED
      BY <3>1, <3>2
  <2>7. ASSUME NEW g \in Files, ToSeal(g), Done(g) PROVE disk'[g] = disk[g]
    BY <2>3, <2>4, <2>7 DEF Done
  <2>8. lost' = {} /\ at' > 0 => DoneBefore(at)'
    <3>1. CASE Kind[f] = "dsf"
      <4>1. PICK j \in DOMAIN Order : j = at
        BY <1>0, <2>2, CurrentFile
      <4>2. lost = {} => DoneBefore(j)
        BY <1>0, <2>2, <4>1 DEF InOrder
      <4>3. lost = {} => DoneBefore(j)'
        BY <2>1, <2>7, <4>2, BeforeKept
      <4> QED
        BY <2>1, <3>1, <4>1, <4>3 DEF DoneBefore
    <3>2. CASE Kind[f] # "dsf"
      <4>1. Done(f)'
        BY <2>3, <2>4, <3>2 DEF Done, LooksSealed
      <4> QED
        BY <1>0, <2>1, <2>2, <2>7, <3>2, <4>1, BeforeNext
    <3> QED
      BY <3>1, <3>2
  <2>9. InOrder'
    <3>1. ASSUME NEW g \in Files, lost' = {}
          PROVE  disk'[g] = disk[g] \/ (at > 0 /\ Order[at] = g /\ HeldIn(dir.files, g))
      BY <2>1, <2>2, <2>3, <2>4, <3>1
    <3> QED
      BY <1>0, <2>1, <2>7, <2>8, <3>1, OrderKept DEF InOrder
  <2> QED
    BY <2>5, <2>6, <2>9 DEF BootInv
<1>7. CASE WritePageHeaderFile
  <2>1. /\ step = "header" /\ NextFile
        /\ header' = [header EXCEPT ![f] = Outer(out)]
        /\ UNCHANGED <<dir, disk, lost, unheaded>>
    BY <1>7 DEF WritePageHeaderFile
  <2>2. at > 0 /\ f \in Files /\ Kind[f] = "dsf" /\ disk[f] = out /\ LooksSealed(out)
    BY <1>0, <2>1, CurrentFile, AtFile DEF Pending, InHand
  <2>3. \A g \in Files : g # f => header'[g] = header[g]
    BY <1>0, <2>1, <2>2 DEF FilesTyped
  <2>4. Modes'
    BY <1>0, <2>1, <2>2, <2>3 DEF Modes, LooksSealed
  <2>5. InHand'
    BY <2>1 DEF InHand, NextFile, Go
  <2>6. ~ToSeal(f)'
    BY <2>2 DEF ToSeal
  <2>7. lost' = {} /\ at' > 0 => DoneBefore(at)'
    BY <1>0, <2>1, <2>2, <2>6, BeforeNext
  <2>8. InOrder'
    BY <1>0, <2>1, <2>7, OrderKept
  <2> QED
    BY <2>4, <2>5, <2>8 DEF BootInv
<1>8. CASE Interrupt
  <2>1. /\ at > 0 /\ at' = 0 /\ step' = "read" /\ lost \subseteq lost'
        /\ unheaded' = IF step = "header" THEN unheaded \cup {f} ELSE unheaded
        /\ UNCHANGED <<dir, disk, header>>
    BY <1>8 DEF Interrupt, Go
  <2>2. step = "header" => Kind[f] = "dsf"
    BY <1>0 DEF Pending
  <2>3. Modes' /\ InHand'
    BY <1>0, <2>1, <2>2 DEF Modes, InHand, LooksSealed
  <2>4. ~(at' > 0)
    <3>1. ~(0 > 0)
      BY SMT
    <3> QED
      BY <2>1, <3>1
  <2>5. InOrder'
    BY <1>0, <2>1, <2>4, OrderKept
  <2> QED
    BY <2>3, <2>5 DEF BootInv
<1>9. CASE UNCHANGED migrationVars
  <2>1. UNCHANGED <<dir, disk, header, at, step, out, lost, unheaded>>
    BY <1>9 DEF migrationVars
  <2>2. Modes'
    BY <1>0, <2>1, ModesKept
  <2>3. InHand'
    BY <1>0, <2>1 DEF InHand, HeldIn, LooksSealed
  <2>4. InOrder'
    <3>1. DoneBefore(at) => DoneBefore(at)'
      BY <2>1 DEF DoneBefore, ToSeal, Done, HeldIn, LooksSealed
    <3>2. lost' = {} /\ at' > 0 => DoneBefore(at)'
      BY <1>0, <2>1, <3>1 DEF InOrder
    <3> QED
      BY <1>0, <2>1, <3>2, OrderKept
  <2> QED
    BY <2>2, <2>3, <2>4 DEF BootInv
<1> QED
  BY <1>1, <1>2, <1>3, <1>4, <1>5, <1>6, <1>7, <1>8, <1>9 DEF MigrationNext, Run

LEMMA BootInit == MigrationInit => BootInv
<1> SUFFICES ASSUME MigrationInit PROVE BootInv
  OBVIOUS
<1>1. ASSUME NEW f \in Files, disk[f] # Missing PROVE ~LooksSealed(disk[f]) /\ disk[f] = dir.files[f]
  <2>1. disk[f] \in Unsealed
    BY <1>1, MigrationInvInit, DirFiles DEF MigrationInit, Inv
  <2> QED
    BY <2>1 DEF Unsealed, LooksSealed, MigrationInit
<1>2. \A f \in Files : header[f] = None
  BY DEF MigrationInit
<1>3. Modes
  BY <1>1, <1>2 DEF MigrationInit, Modes
<1>4. InHand
  BY DEF MigrationInit, InHand
<1>5. InOrder
  <2>1. at = 0 /\ ~(0 > 0)
    BY SMT DEF MigrationInit
  <2> QED
    BY <1>1, <2>1 DEF InOrder
<1> QED
  BY <1>3, <1>4, <1>5 DEF BootInv

\* With the key a directory boots only if all of it is sealed.
LEMMA KeyWantsAll ==
    ASSUME FilesTyped, Modes, Opens(TRUE), NEW f \in Files, disk[f] # Missing, disk[f].n > 0
    PROVE  LooksSealed(disk[f])
<1>1. ModeOK(f, TRUE) /\ Kind[f] \in {"log", "json", "dsf", "identity"}
  BY ReencryptAssumption DEF Opens
<1>2. disk[f].n \in Nat
  BY DEF FilesTyped, Bytes
<1>3. CASE Kind[f] = "log"
  BY <1>1, <1>3 DEF ModeOK, DetectLogMode
<1>4. CASE Kind[f] = "json"
  BY <1>1, <1>4 DEF ModeOK, ReadSealedJsonFile
<1>5. CASE Kind[f] = "identity"
  BY <1>1, <1>5 DEF ModeOK, LoadOrCreate
<1>6. CASE Kind[f] = "dsf"
  BY <1>1, <1>2, <1>6, SMT DEF ModeOK, DiskManagerOpen, HasPageHeader, Modes
<1> QED
  BY <1>1, <1>3, <1>4, <1>5, <1>6

\* Without it, a sealed file that is not pages stands in the way.
LEMMA PlainWantsNone ==
    ASSUME Opens(FALSE), NEW f \in Files, Kind[f] # "dsf", Done(f)
    PROVE  FALSE
<1>1. ModeOK(f, FALSE) /\ Kind[f] \in {"log", "json", "dsf", "identity"}
  BY ReencryptAssumption DEF Opens
<1>2. CASE Kind[f] = "log"
  BY <1>1, <1>2 DEF ModeOK, DetectLogMode, Done
<1>3. CASE Kind[f] = "json"
  BY <1>1, <1>3 DEF ModeOK, ReadSealedJsonFile, Done
<1>4. CASE Kind[f] = "identity"
  BY <1>1, <1>4 DEF ModeOK, LoadOrCreate, Done
<1> QED
  BY <1>1, <1>2, <1>3, <1>4

LEMMA BootInvHolds == Inv /\ BootInv => NoMixedBoot
<1> SUFFICES ASSUME Inv, BootInv, lost = {} PROVE NoMixedBoot
  BY DEF NoMixedBoot
<1>0. FilesTyped /\ Modes /\ InOrder
  BY DEF Inv, BootInv
<1>1. ASSUME Opens(TRUE), NEW f \in Files, disk[f] # Missing, disk[f].n > 0
      PROVE  LooksSealed(disk[f])
  BY <1>0, <1>1, KeyWantsAll
<1>2. ASSUME Opens(FALSE), NEW f \in Files, disk[f] # Missing, LooksSealed(disk[f])
      PROVE  FALSE
  <2>1. CASE Kind[f] # "dsf"
    BY <1>0, <1>2, <2>1, PlainWantsNone DEF Modes, Done
  <2>2. CASE Kind[f] = "dsf"
    <3>1. HeldIn(dir.files, f) /\ \E j \in DOMAIN Order : Order[j] = f /\ DoneBefore(j)
      BY <1>0, <1>2, <2>2 DEF InOrder
    <3>2. PICK j \in DOMAIN Order : Order[j] = f /\ DoneBefore(j)
      BY <3>1
    <3>3. PICK i \in 1 .. j - 1 : Kind[Order[i]] # "dsf" /\ HeldIn(dir.files, Order[i])
      BY <1>0, <2>2, <3>1, <3>2, ReencryptAssumption DEF FilesTyped
    <3>4. Done(Order[i])
      BY <3>2, <3>3 DEF DoneBefore, ToSeal
    <3>5. Order[i] \in Files
      <4>1. Order \in Seq(Files)
        BY ReencryptAssumption
      <4> QED
        BY <3>2, <3>3, <4>1, SMT
    <3> QED
      BY <1>2, <3>3, <3>4, <3>5, PlainWantsNone
  <2> QED
    BY <2>1, <2>2
<1> QED
  BY <1>1, <1>2 DEF NoMixedBoot

\* As long as no run lost a file between remove and rename, a half-migrated
\* directory does not boot in either mode: the mode checks of at_rest.cpp and
\* the order in which the tool takes the files see to it together, also for
\* pages that are sealed and have no header yet (reencrypt.cpp:287-390).
THEOREM HalfMigratedStaysDown == MigrationSpec => []NoMixedBoot
<1>1. MigrationInit => Inv /\ BootInv
  BY MigrationInvInit, BootInit
<1>2. Inv /\ BootInv /\ [MigrationNext]_migrationVars => Inv' /\ BootInv'
  BY MigrationInvStep, BootStep
<1> QED
  BY <1>1, <1>2, BootInvHolds, PTL DEF MigrationSpec

=============================================================================
