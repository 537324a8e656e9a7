----------------------------- MODULE Reencrypt ------------------------------
(***************************************************************************)
(* The offline migration of a data directory from plaintext to sealed      *)
(* files: ReencryptDataDir of src/src/storage/reencrypt.cpp, run by        *)
(* src/apps/desentry_node/main.cpp on a stopped node, with the sealing and *)
(* the mode checks of src/src/security/at_rest.cpp.                        *)
(*                                                                         *)
(* The tool goes through the files in a fixed order.  A file it seals is   *)
(* written to a temporary file, the original is removed and the temporary  *)
(* one renamed; a paged file then gets a header with the random tag its    *)
(* key is derived from.  The tool may end at any point, by an error of a   *)
(* file operation or with its process, and is run again.                   *)
(*                                                                         *)
(* The bytes of a file are how much it holds (whole records of a log,      *)
(* bytes of a paged file, 1 otherwise), what is left of a torn record at   *)
(* the end of a log, whether they decode, and the keys they were sealed    *)
(* under, first one first.  The .tmp files are never read and left out.    *)
(***************************************************************************)
EXTENDS Integers, Sequences

CONSTANTS
    Order,         \* the files, in the order the tool comes to them
    Kind,          \* of each file: "log", "json", "dsf" or "identity"
    Directories,   \* the data directories the tool is run on
    None, Missing,
    kPageSize, kSealedPageSize,
    MaxInterrupts  \* how often the tool ends early

Files == {Order[i] : i \in DOMAIN Order}

Tags == {"dek"} \cup Nat
Bytes == [n : Nat, tail : {"none", "short", "long"}, ok : BOOLEAN, seal : Seq(Tags)]

\* There is something in f to migrate.
HeldIn(files, f) == files[f] # Missing /\ files[f].n > 0

\* A put appends to the ledger before any page is written (StorageEngine::PutRaw),
\* so pages come after a file that is not empty.
ASSUME ReencryptAssumption ==
    /\ Order \in Seq(Files) /\ Order # <<>>
    /\ Kind \in [Files -> {"log", "json", "dsf", "identity"}]
    /\ Directories \subseteq
         [files : [Files -> [n : Nat, tail : {"none", "short", "long"}, ok : BOOLEAN,
                             seal : {<<>>}] \cup {Missing}],
          vendored : BOOLEAN]
    /\ Missing \notin Bytes /\ None \notin Tags
    /\ kPageSize \in Nat \ {0} /\ kSealedPageSize \in Nat
    /\ MaxInterrupts \in Nat
    /\ \A d \in Directories : \A j \in DOMAIN Order :
          Kind[Order[j]] = "dsf" /\ HeldIn(d.files, Order[j]) =>
              \E i \in 1 .. j - 1 : Kind[Order[i]] # "dsf" /\ HeldIn(d.files, Order[i])

VARIABLES
    dir,         \* the directory as it was when the tool was first run
    disk,        \* the bytes of each file
    header,      \* the tag in the header of each paged file
    at,          \* the place in Order the tool is at, 0 when it is not running
    step,        \* what it does next with that file
    out,         \* what it will rename into place
    result,      \* how its last run ended: "none", "done", "aborted" or "interrupted"
    interrupts,  \* how many more may come
    lost,        \* history: the files removed by a run that went no further
    unheaded     \* history: the paged files whose header a run did not come to

migrationVars == <<dir, disk, header, at, step, out, result, interrupts, lost, unheaded>>

MigrationInit ==
    /\ dir \in Directories
    /\ disk = dir.files
    /\ header = [f \in Files |-> None]
    /\ at = 0 /\ step = "read" /\ out = Missing
    /\ result = "none"
    /\ interrupts = MaxInterrupts
    /\ lost = {} /\ unheaded = {}

-----------------------------------------------------------------------------
(* One file *)

LooksSealed(b) == b.seal # <<>>

\* The key whose seal is the outermost.
Outer(b) == b.seal[Len(b.seal)]

HasPageHeader(f) == header[f] # None

\* Mutant: only a paged file knows that it is done.
SkipsNothingSealed(f) ==
    disk[f] # Missing /\ disk[f].n > 0 => Kind[f] = "dsf" /\ HasPageHeader(f)

\* Nothing to migrate, or a previous run did it: the magic of the first record
\* or of the file says so, for pages the header.  A log that has nothing but a
\* torn record is left as it is.
Skips(f) ==
    disk[f] # Missing /\ disk[f].n > 0 =>
        IF Kind[f] = "dsf" THEN HasPageHeader(f) ELSE LooksSealed(disk[f])

\* What does not decode is refused; a paged file is looked at for its size only.
Refuses(f) ==
    IF Kind[f] = "dsf" THEN disk[f].n % kPageSize # 0 ELSE ~disk[f].ok

\* FileSubkey: of the data key and the name of the file, for a paged file a
\* random tag that no earlier run drew.
FileSubkey(f) == IF Kind[f] = "dsf" THEN interrupts ELSE "dek"

\* A page grows by its nonce and its tag.
SealedSize(n) == (n \div kPageSize) * kSealedPageSize

\* The bytes b of f, sealed under the key of a tag.
SealUnder(f, b, tag) ==
    [b EXCEPT !.n = IF Kind[f] = "dsf" THEN SealedSize(@) ELSE @,
              !.seal = Append(@, tag)]

Sealed(f) == SealUnder(f, disk[f], FileSubkey(f))

-----------------------------------------------------------------------------
(* ReencryptDataDir *)

Go(i, s) == at' = i /\ step' = s

\* A run starts; vendored engines are refused up front.
Start ==
    /\ at = 0
    /\ result # "done"
    /\ IF dir.vendored THEN result' = "aborted" /\ UNCHANGED <<at, step>>
                       ELSE Go(1, "read") /\ UNCHANGED result
    /\ UNCHANGED <<dir, disk, header, out, interrupts, lost, unheaded>>

\* The tool goes on to the file after the one it is at.
NextFile ==
    /\ IF at = Len(Order) THEN Go(0, "read") /\ result' = "done"
                          ELSE Go(at + 1, "read") /\ UNCHANGED result
    /\ out' = Missing

\* Mutant: a file that needs nothing ends the run.
SkipFileReturns ==
    /\ at > 0 /\ step = "read"
    /\ Skips(Order[at])
    /\ Go(0, "read") /\ result' = "done"
    /\ UNCHANGED <<dir, disk, header, out, interrupts, lost, unheaded>>

SkipFile ==
    /\ at > 0 /\ step = "read"
    /\ Skips(Order[at])
    /\ NextFile
    /\ UNCHANGED <<dir, disk, header, interrupts, lost, unheaded>>

RefuseFile ==
    /\ at > 0 /\ step = "read"
    /\ ~Skips(Order[at]) /\ Refuses(Order[at])
    /\ Go(0, "read")
    /\ result' = "aborted"
    /\ UNCHANGED <<dir, disk, header, out, interrupts, lost, unheaded>>

\* The sealed bytes are in the temporary file.
SealFile ==
    /\ at > 0 /\ step = "read"
    /\ ~Skips(Order[at]) /\ ~Refuses(Order[at])
    /\ Go(at, "remove")
    /\ out' = Sealed(Order[at])
    /\ UNCHANGED <<dir, disk, header, result, interrupts, lost, unheaded>>

\* WriteAtomic, once the temporary file is there.
RemoveOriginal ==
    /\ step = "remove"
    /\ disk' = [disk EXCEPT ![Order[at]] = Missing]
    /\ Go(at, "rename")
    /\ UNCHANGED <<dir, header, out, result, interrupts, lost, unheaded>>

RenameSealed ==
    /\ step = "rename"
    /\ disk' = [disk EXCEPT ![Order[at]] = out]
    /\ IF Kind[Order[at]] = "dsf" THEN Go(at, "header") /\ UNCHANGED <<out, result>> ELSE NextFile
    /\ UNCHANGED <<dir, header, interrupts, lost, unheaded>>

WritePageHeaderFile ==
    /\ step = "header"
    /\ header' = [header EXCEPT ![Order[at]] = Outer(out)]
    /\ NextFile
    /\ UNCHANGED <<dir, disk, interrupts, lost, unheaded>>

\* A file operation fails, or the process ends.
Interrupt ==
    /\ at > 0
    /\ interrupts > 0
    /\ interrupts' = interrupts - 1
    /\ Go(0, "read") /\ out' = Missing
    /\ result' = "interrupted"
    /\ lost' = IF step = "rename" THEN lost \cup {Order[at]} ELSE lost
    /\ unheaded' = IF step = "header" THEN unheaded \cup {Order[at]} ELSE unheaded
    /\ UNCHANGED <<dir, disk, header>>

Run ==
    \/ Start
    \/ SkipFile
    \/ RefuseFile
    \/ SealFile
    \/ RemoveOriginal
    \/ RenameSealed
    \/ WritePageHeaderFile

MigrationNext == Run \/ Interrupt

MigrationSpec == MigrationInit /\ [][MigrationNext]_migrationVars

\* The operator runs the tool again until it is done, and a run goes on.
FairMigrationSpec == MigrationSpec /\ WF_migrationVars(Run)

-----------------------------------------------------------------------------
(* The node *)

\* Mutant: a log is taken as it comes.
DetectLogModeNever(f, key) == TRUE

\* A torn record tells the mode of a log when its first 64 bytes are there.
DetectLogMode(f, key) ==
    (disk[f].n > 0 \/ disk[f].tail = "long") => LooksSealed(disk[f]) = key

\* A paged file is a sealed one when it has a header, whatever its pages are.
DiskManagerOpen(f, key) ==
    IF key THEN HasPageHeader(f) \/ disk[f].n = 0 ELSE ~HasPageHeader(f)

ReadSealedJsonFile(f, key) == disk[f].n > 0 => LooksSealed(disk[f]) = key

LoadOrCreate(f, key) == disk[f].n > 0 => LooksSealed(disk[f]) = key

\* What opening f with or without a key asks of it; a file that is not there
\* is made anew.
ModeOK(f, key) ==
    disk[f] # Missing =>
        CASE Kind[f] = "log" -> DetectLogMode(f, key)
          [] Kind[f] = "dsf" -> DiskManagerOpen(f, key)
          [] Kind[f] = "json" -> ReadSealedJsonFile(f, key)
          [] Kind[f] = "identity" -> LoadOrCreate(f, key)

\* The node boots with or without a key as far as the mode of its files goes.
Opens(key) == \A f \in Files : ModeOK(f, key)

-----------------------------------------------------------------------------
(* Properties *)

\* The bytes of f open under the key the node derives for it, and hold what
\* they held before.
Migrated(f) ==
    /\ dir.files[f] # Missing
    /\ disk[f] = SealUnder(f, dir.files[f], IF Kind[f] = "dsf" THEN header[f] ELSE "dek")

\* However runs end, a file is what it was or is sealed once under the key the
\* node will derive for it.  Two windows are excepted: a file whose run ended
\* between remove and rename is gone, and pages whose run ended before the
\* header was written have lost their tag (WriteAtomic, SealDsfFile).
ContentsKept ==
    \A f \in Files :
        \/ disk[f] = dir.files[f]
        \/ Migrated(f)
        \/ f \in lost \/ f \in unheaded
        \/ at > 0 /\ Order[at] = f /\ step \in {"rename", "header"}

\* A half-migrated directory does not boot: with the key, only when no file
\* has plaintext left, and without it, only when no file is sealed, also for
\* pages that have no header yet (the order of the files, ModeOK).
NoMixedBoot ==
    lost = {} =>
        /\ Opens(TRUE) => \A f \in Files : disk[f] # Missing /\ disk[f].n > 0 => LooksSealed(disk[f])
        /\ Opens(FALSE) => \A f \in Files : disk[f] # Missing => ~LooksSealed(disk[f])

\* The tool has nothing to refuse in the directory.
Clean ==
    /\ ~dir.vendored
    /\ \A f \in Files : dir.files[f] # Missing =>
          IF Kind[f] = "dsf" THEN dir.files[f].n % kPageSize = 0 ELSE dir.files[f].ok

\* "re-running it after an abort finishes the job" (reencrypt.h:17), when no
\* run ended before a header was written: the tool comes to its end, and every
\* file that is still there and held anything is migrated.
RerunsFinish ==
    Clean ~> \/ unheaded # {}
             \/ /\ result = "done"
                /\ \A f \in Files : disk[f] # Missing /\ disk[f].n > 0 => Migrated(f)

=============================================================================
