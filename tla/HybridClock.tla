----------------------------- MODULE HybridClock -----------------------------
(***************************************************************************)
(* The hybrid logical clock of one node (src/src/crdt/hlc.cpp), its        *)
(* checkpoint file hlc_clock and the calls the node engine makes on both   *)
(* (src/src/engine/node_engine.cpp).                                       *)
(*                                                                         *)
(* Peers run on unsynchronised wall clocks, so a remote stamp is any stamp *)
(* at all.  A stamp is compared by (physical, logical); the node id only   *)
(* breaks ties between nodes.                                              *)
(***************************************************************************)
EXTENDS Integers

CONSTANTS
    MaxWall,      \* largest physical time of any node
    LogicalSize,  \* 2^32: the logical counter is taken modulo this
    MaxSkew,      \* kMaxFutureSkewMs
    SaveEvery     \* physical time between two checkpoints of the clock

ASSUME ClockAssumption ==
    /\ MaxWall \in Nat
    /\ LogicalSize \in Nat \ {0}
    /\ MaxSkew \in Nat
    /\ SaveEvery \in Nat

VARIABLES
    wall,    \* WallClockMs(): may step back, never to the epoch
    clk,     \* last_physical_, last_logical_
    saved,   \* the stamp in hlc_clock ((0,0) when there is no file)
    up,
    floor,   \* largest stamp this clock object produced, observed or restored
    top,     \* the largest value the local wall clock ever had
    wrapped  \* the logical counter has wrapped at some time

clockVars == <<wall, clk, saved, up, floor, top, wrapped>>

Stamps == [p : 0 .. MaxWall, l : 0 .. LogicalSize - 1]

Zero == [p |-> 0, l |-> 0]

Less(a, b) == a.p < b.p \/ (a.p = b.p /\ a.l < b.l)

LessEq(a, b) == Less(a, b) \/ a = b

MaxLogical == LogicalSize - 1

Highest(a, b) == IF Less(a, b) THEN b ELSE a

ClockInit ==
    /\ wall \in 1 .. MaxWall
    /\ clk = Zero /\ saved = Zero /\ floor = Zero
    /\ up = FALSE
    /\ top = wall
    /\ wrapped = FALSE

\* The stamp Now() is about to return.
NextStamp ==
    IF wall > clk.p THEN [p |-> wall, l |-> 0]
    ELSE [p |-> clk.p, l |-> (clk.l + 1) % LogicalSize]

\* PersistClockIfDue after the clock has moved to c: forced once the clock is
\* SaveEvery past the file, and on every 512th call.
PersistClockIfDue(c) ==
    \/ saved' = c
    \/ c.p < saved.p + SaveEvery /\ saved' = saved

Now ==
    /\ up
    /\ clk' = NextStamp
    /\ floor' = Highest(floor, NextStamp)
    /\ wrapped' = (wrapped \/ (wall <= clk.p /\ clk.l = MaxLogical))
    /\ UNCHANGED <<wall, up, top>>

\* PutDocument: stamp the write, store it, checkpoint the clock.
PutDocument ==
    /\ Now
    /\ PersistClockIfDue(NextStamp)

\* The callers of Now() that leave the checkpoint alone: transit intents and
\* claims, ACL records, checkpoint markers, a PutDocument whose PutRaw fails.
StampLedgerEntry == Now /\ UNCHANGED saved

\* Mutant: the skew bound is not applied.
ObservableAnyTime(r) == clk.l # MaxLogical /\ r.l # MaxLogical

\* The early returns of Observe.
Observable(r) ==
    /\ r.p <= wall + MaxSkew
    /\ clk.l # MaxLogical /\ r.l # MaxLogical

\* Mutant: a remote stamp at the local physical time is not counted.
ObservedForgetful(r) ==
    LET maxp == IF wall >= clk.p /\ wall >= r.p THEN wall
                ELSE IF clk.p >= r.p THEN clk.p ELSE r.p
    IN  [p |-> maxp,
         l |-> IF maxp = clk.p THEN clk.l + 1
               ELSE IF maxp = r.p THEN r.l + 1
               ELSE 0]

\* The clock after Observe(r).
Observed(r) ==
    LET maxp == IF wall >= clk.p /\ wall >= r.p THEN wall
                ELSE IF clk.p >= r.p THEN clk.p ELSE r.p
    IN  [p |-> maxp,
         l |-> IF maxp = clk.p /\ maxp = r.p
               THEN (IF clk.l > r.l THEN clk.l ELSE r.l) + 1
               ELSE IF maxp = clk.p THEN clk.l + 1
               ELSE IF maxp = r.p THEN r.l + 1
               ELSE 0]

\* MergeRemote: a stamp that is refused drops the document.  The checkpoint
\* is skipped when the merged document could not be stored.
MergeRemote(r) ==
    /\ up
    /\ Observable(r)
    /\ clk' = Observed(r)
    /\ floor' = Highest(Highest(floor, r), Observed(r))
    /\ saved' \in {saved, Observed(r)}
    /\ UNCHANGED <<wall, up, top, wrapped>>

\* The operating system moves the wall clock, in either direction.
SetWall(w) ==
    /\ wall' = w
    /\ top' = IF w > top THEN w ELSE top
    /\ UNCHANGED <<clk, saved, up, floor, wrapped>>

Crash ==
    /\ up
    /\ up' = FALSE
    /\ clk' = Zero /\ floor' = Zero
    /\ UNCHANGED <<wall, saved, top, wrapped>>

\* Mutant: the checkpoint is not read back.
LoadClockStateSkipped ==
    /\ ~up
    /\ up' = TRUE
    /\ UNCHANGED <<wall, clk, saved, floor, top, wrapped>>

\* Open: a new clock object restores the checkpoint.
LoadClockState ==
    /\ ~up
    /\ up' = TRUE
    /\ clk' = Highest(clk, saved)
    /\ floor' = Highest(clk, saved)
    /\ UNCHANGED <<wall, saved, top, wrapped>>

ClockNext ==
    \/ PutDocument
    \/ StampLedgerEntry
    \/ \E r \in Stamps : MergeRemote(r)
    \/ \E w \in 1 .. MaxWall : SetWall(w)
    \/ Crash
    \/ LoadClockState

ClockSpec == ClockInit /\ [][ClockNext]_clockVars

-----------------------------------------------------------------------------
(* Properties *)

\* Every variable has its type.
TypeOK ==
    /\ wall \in 1 .. MaxWall /\ top \in 1 .. MaxWall
    /\ clk \in Stamps /\ saved \in Stamps /\ floor \in Stamps
    /\ up \in BOOLEAN
    /\ wrapped \in BOOLEAN

Stamping == PutDocument \/ StampLedgerEntry

\* Now() returns a stamp "greater than every timestamp this clock has produced
\* or observed so far" (hlc.h:53-54), whatever the wall clock does, until the
\* logical counter wraps.
NowIsFresh ==
    [][Stamping => Less(floor, clk') \/ wrapped']_clockVars

\* A stamp at or below the checkpoint is never issued again: what was saved
\* before a restart stays used (hlc.h:65-66).
CheckpointedStampsStayUsed ==
    [][Stamping => Less(saved, clk') \/ wrapped']_clockVars

\* No peer can drag the clock further ahead than kMaxFutureSkewMs of the
\* furthest the local wall clock has been, also not by way of the checkpoint
\* and a restart (hlc.cpp:32-34).
NoClockPinning == clk.p <= top + MaxSkew /\ saved.p <= top + MaxSkew

=============================================================================
