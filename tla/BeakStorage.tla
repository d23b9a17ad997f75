----------------------------- MODULE BeakStorage -----------------------------
(***************************************************************************)
(* One beak storage location in a local directory, and the three commands  *)
(* that change it: store, prune and fsck.  The storage is a set of files,  *)
(* each named after its content: the root index file of a point in time,   *)
(* and the archive files (tars and sub directory index files) it lists.    *)
(* Nothing but the files is persistent, and nothing is locked: a command   *)
(* that is killed leaves the files as they are, and the next command       *)
(* starts from what it finds.                                              *)
(*                                                                         *)
(* One command runs at a time here; StoreAndScan runs two of them.         *)
(***************************************************************************)
EXTENDS Integers, FiniteSets

CONSTANTS
    Points,      \* the points in time of the origin, ordered by their time
    Tars,        \* the archive files, each identified with its content
    SubFiles,    \* point -> the archive files below the sub directories
    RootTars,    \* point -> the tars in the root directory of the backup
    None         \* no file, and no point in time

ASSUME PointsAssumption == Points \subseteq Nat /\ Points # {}
ASSUME TarsAssumption == Points \cap Tars = {}
ASSUME LayoutAssumption ==
    /\ SubFiles \in [Points -> SUBSET Tars]
    /\ RootTars \in [Points -> SUBSET Tars]
    /\ \A p \in Points : SubFiles[p] \cap RootTars[p] = {}
ASSUME NoneAssumption == None \notin Points \cup Tars

\* The name of an archive file is a hash of the sizes, names and mtimes of what
\* it holds, so a change of the origin gives other files.  An archive file that
\* went out of use does not come back: mtimes in the origin are not turned back.
ASSUME NoRevertAssumption ==
    \A p, q, r \in Points :
        p < q /\ q < r =>
            (SubFiles[p] \cup RootTars[p]) \cap (SubFiles[r] \cup RootTars[r])
                \subseteq SubFiles[q] \cup RootTars[q]

\* The root index file of a point in time carries its timestamp in its name,
\* so the point stands for the name of its index file.
File == Points \cup Tars

\* What a root index file lists.
Tarfiles(p) == SubFiles[p] \cup RootTars[p]

FilesOf(p) == {p} \cup Tarfiles(p)

VARIABLES
    disk,      \* file -> how much of it is in the storage directory
    tainted,   \* files written from an origin that had changed since the scan
    origin,    \* the point in time the origin directory is at
    cmd,       \* the command that runs
    pc,        \* where it is
    target,    \* the point in time a store is storing
    todo,      \* the files the command still has to visit, or to delete
    cur,       \* the file a store is writing
    failed,    \* history: a write of this store failed, and it went on
    history,   \* the points in time a prune or fsck found
    needs,     \* point -> the archive files it read from the index file
    verdict,   \* the points a prune keeps, or a fsck reports as OK
    broken,    \* the index files a fsck wants to delete
    promised   \* history: stored without a complaint, and not yet pruned

storeVars == <<target, cur, failed>>
scanVars == <<history, needs, verdict, broken>>
vars == <<disk, tainted, origin, cmd, pc, todo, storeVars, scanVars, promised>>

\* absent; created but not fully written; written but with the wrong mtime;
\* and with the size and the mtime the backup wants.
FileState == {"absent", "short", "unstamped", "stored"}

\* The type of every variable, and the values they have in code paths.
TypeOK ==
    /\ disk \in [File -> FileState]
    /\ tainted \subseteq Tars
    /\ origin \in Points
    /\ cmd \in {"idle", "store", "prune", "fsck"}
    /\ pc \in {"idle", "visit", "create", "fill", "stalled", "stamp", "list",
               "delete", "deleteBroken"}
    /\ target \in Points \cup {None}
    /\ todo \subseteq File
    /\ cur \in File \cup {None}
    /\ failed \in BOOLEAN
    /\ history \subseteq Points
    /\ needs \in [Points -> SUBSET Tars]
    /\ verdict \subseteq Points
    /\ broken \subseteq Points
    /\ promised \subseteq Points

Existing == {f \in File : disk[f] # "absent"}

\* Every file of the point in time is there, with the content it was named for.
Intact(p) == \A f \in FilesOf(p) : disk[f] = "stored" /\ f \notin tainted

IntactPoints == {p \in Points : Intact(p)}

NothingLoaded == [p \in Points |-> {}]

Init ==
    /\ disk = [f \in File |-> "absent"]
    /\ tainted = {}
    /\ origin \in Points
    /\ cmd = "idle"
    /\ pc = "idle"
    /\ target = None
    /\ todo = {}
    /\ cur = None
    /\ failed = FALSE
    /\ history = {}
    /\ needs = NothingLoaded
    /\ verdict = {}
    /\ broken = {}
    /\ promised = {}

\* The command has ended or died, and what it held in memory is gone.
Exit ==
    /\ cmd' = "idle"
    /\ pc' = "idle"
    /\ target' = None
    /\ todo' = {}
    /\ cur' = None
    /\ failed' = FALSE
    /\ history' = {}
    /\ needs' = NothingLoaded
    /\ verdict' = {}
    /\ broken' = {}

\* Killed, a power failure, or an exit through error().
Crash ==
    /\ cmd # "idle"
    /\ Exit
    /\ UNCHANGED <<disk, tainted, origin, promised>>

\* The user works in the origin directory, its newest mtime moves on.
OriginChanges ==
    /\ \E p \in Points : p > origin /\ origin' = p
    /\ UNCHANGED <<disk, tainted, cmd, pc, todo, storeVars, scanVars, promised>>

-----------------------------------------------------------------------------
(* beak store                                                              *)

\* The scan of the origin decides which files the backup consists of.
StartStore ==
    /\ cmd = "idle"
    /\ cmd' = "store"
    /\ pc' = "visit"
    /\ target' = origin
    /\ todo' = FilesOf(origin)
    /\ UNCHANGED <<disk, tainted, origin, cur, failed, scanVars, promised>>

\* The deepest directories first, the root directory last, and in a directory
\* the index file before the tars.
Visitable(f) ==
    /\ f \in todo
    /\ f \notin SubFiles[target] => todo \cap SubFiles[target] = {}
    /\ f \in RootTars[target] => target \notin todo

\* The file on disk has the right permissions, size and mtime: up to date.
SkipFile(f) ==
    /\ pc = "visit" /\ Visitable(f)
    /\ disk[f] = "stored"
    /\ todo' = todo \ {f}
    /\ UNCHANGED <<disk, tainted, origin, cmd, pc, storeVars, scanVars, promised>>

\* It is missing, or it is some remains that have to be deleted first.
ReplaceFile(f) ==
    /\ pc = "visit" /\ Visitable(f)
    /\ disk[f] # "stored"
    /\ disk' = [disk EXCEPT ![f] = "absent"]
    /\ tainted' = tainted \ {f}
    /\ cur' = f
    /\ pc' = "create"
    /\ UNCHANGED <<origin, cmd, target, todo, failed, scanVars, promised>>

CreateFile ==
    /\ pc = "create"
    /\ disk' = [disk EXCEPT ![cur] = "short"]
    /\ pc' = "fill"
    /\ UNCHANGED <<tainted, origin, cmd, todo, storeVars, scanVars, promised>>

\* The bytes of a tar are read from the origin files now, not when they were
\* scanned.  If those have changed since, the tar is not what its name says.
FillFile ==
    /\ pc = "fill"
    /\ disk' = [disk EXCEPT ![cur] = IF @ = "short" THEN "unstamped" ELSE @]
    /\ tainted' = IF cur \in Tars \ FilesOf(origin) THEN tainted \cup {cur}
                                                     ELSE tainted
    /\ pc' = "stamp"
    /\ UNCHANGED <<origin, cmd, todo, storeVars, scanVars, promised>>

\* Nothing can be read where the tar has the content of an origin file: it has
\* shrunk, is gone, or the read fails, of an unchanged file too (no permission,
\* an error of the disk).  readVirtualTar prints the failure and tries again,
\* until the store is killed.  (Reads that fail for a while are in VirtualTar.)
ReadStalls ==
    /\ pc = "fill" /\ cur \in Tars
    /\ pc' = "stalled"
    /\ UNCHANGED <<disk, tainted, origin, cmd, todo, storeVars, scanVars, promised>>

\* The file cannot be opened, or a write fails (a full disk).  createFile logs
\* it and returns false, createFilee drops the result, and the store goes on.
WriteFails ==
    /\ pc \in {"create", "fill"}
    /\ failed' = TRUE
    /\ pc' = "stamp"
    /\ UNCHANGED <<disk, tainted, origin, cmd, target, todo, cur, scanVars, promised>>

\* Mutant: a file that could not be written stays on the list to be retried.
StampFileOrRetry ==
    /\ pc = "stamp"
    /\ disk' = [disk EXCEPT ![cur] = IF @ = "unstamped" THEN "stored" ELSE @]
    /\ todo' = IF disk[cur] = "unstamped" THEN todo \ {cur} ELSE todo
    /\ cur' = None
    /\ pc' = "visit"
    /\ UNCHANGED <<tainted, origin, cmd, target, failed, scanVars, promised>>

\* utime: a file of the right size is now up to date for every later store.
StampFile ==
    /\ pc = "stamp"
    /\ disk' = [disk EXCEPT ![cur] = IF @ = "unstamped" THEN "stored" ELSE @]
    /\ todo' = todo \ {cur}
    /\ cur' = None
    /\ pc' = "visit"
    /\ UNCHANGED <<tainted, origin, cmd, target, failed, scanVars, promised>>

\* All files visited.  The entries are compared with the origin once more; if
\* they have changed the user is warned, and the backup is not to be relied on.
FinishStore ==
    /\ cmd = "store" /\ pc = "visit" /\ todo = {}
    /\ promised' = IF failed \/ origin # target THEN promised
                                                ELSE promised \cup {target}
    /\ Exit
    /\ UNCHANGED <<disk, tainted, origin>>

-----------------------------------------------------------------------------
(* beak prune and beak fsck                                                *)

\* Both start by reading every root index file in the storage.  One that was
\* not fully written decompresses to a part of its content: some of its tar
\* lines are read, then loading fails, which is logged and otherwise ignored.
LoadIndexes(command) ==
    /\ cmd = "idle"
    /\ Points \cap Existing # {}
    /\ cmd' = command
    /\ pc' = "list"
    /\ history' = Points \cap Existing
    /\ \E part \in [{p \in Points : disk[p] = "short"} -> SUBSET Tars] :
           needs' = [p \in Points |->
                       IF disk[p] = "short" THEN Tarfiles(p) \cap part[p]
                       ELSE IF p \in Existing THEN Tarfiles(p) ELSE {}]
    /\ UNCHANGED <<disk, tainted, origin, todo, storeVars, verdict, broken, promised>>

StartPrune == LoadIndexes("prune")
StartFsck == LoadIndexes("fsck")

\* Mutant: the index file of a kept point is not required.
RequiredTarsOnly(points) == UNION {needs[p] : p \in points}

Required(points) == points \cup UNION {needs[p] : p \in points}

Newest(points) == CHOOSE p \in points : \A q \in points : q <= p

\* The points the keep rules may keep: the newest is always one of them
\* (PruneKeep computes them).
MayKeep(points) == {K \in SUBSET points : Newest(points) \in K}

\* Mutant: the files of every point found are required, kept or not.
DecidePruneByHistory ==
    /\ cmd = "prune" /\ pc = "list"
    /\ \E keep \in MayKeep(history) :
        /\ Existing \ Required(history) # {}
        /\ verdict' = keep
        /\ todo' = Existing \ Required(history)
        /\ promised' = promised \ (history \ keep)
    /\ pc' = "delete"
    /\ UNCHANGED <<disk, tainted, origin, cmd, storeVars, history, needs, broken>>

\* The files below the root are listed, and those no kept point requires are
\* deleted if the user agrees.
DecidePrune ==
    /\ cmd = "prune" /\ pc = "list"
    /\ \E keep \in MayKeep(history) :
        /\ Existing \ Required(keep) # {}
        /\ verdict' = keep
        /\ todo' = Existing \ Required(keep)
        /\ promised' = promised \ (history \ keep)
    /\ pc' = "delete"
    /\ UNCHANGED <<disk, tainted, origin, cmd, storeVars, history, needs, broken>>

\* A dry run, the user says no, or there is nothing to delete but empty files.
DeclinePrune ==
    /\ cmd = "prune" /\ pc = "list"
    /\ Exit
    /\ UNCHANGED <<disk, tainted, origin, promised>>

Lost == Required(history) \ Existing

\* Mutant: only a missing index file makes a point broken.
BrokenWithoutIndex == history \ Existing

\* A point is broken if its index file or a tar it lists is not there.  Names
\* are compared, not sizes.
BrokenPoints ==
    IF Lost = {} THEN {}
    ELSE {p \in history : ~(Required({p}) \subseteq Existing)}

\* Files no point in time lists are superfluous, deleted if the user agrees.
DecideFsck ==
    /\ cmd = "fsck" /\ pc = "list"
    /\ broken' = BrokenPoints
    /\ verdict' = history \ BrokenPoints
    /\ todo' \in {{}, Existing \ Required(history)}
    /\ pc' = "delete"
    /\ UNCHANGED <<disk, tainted, origin, cmd, storeVars, history, needs, promised>>

\* removeBackupFiles deletes them one by one.  To find one gone is an error(),
\* the end of the command (a Crash).
DeleteFile(f) ==
    /\ pc \in {"delete", "deleteBroken"}
    /\ f \in todo /\ disk[f] # "absent"
    /\ disk' = [disk EXCEPT ![f] = "absent"]
    /\ tainted' = tainted \ {f}
    /\ todo' = todo \ {f}
    /\ UNCHANGED <<origin, cmd, pc, storeVars, scanVars, promised>>

FinishPrune ==
    /\ cmd = "prune" /\ pc = "delete" /\ todo = {}
    /\ Exit
    /\ UNCHANGED <<disk, tainted, origin, promised>>

\* Then the index files of the broken points, if the user agrees.
DeleteBroken ==
    /\ cmd = "fsck" /\ pc = "delete" /\ todo = {}
    /\ broken # {}
    /\ todo' = broken
    /\ pc' = "deleteBroken"
    /\ UNCHANGED <<disk, tainted, origin, cmd, storeVars, scanVars, promised>>

FinishFsck ==
    /\ cmd = "fsck" /\ pc \in {"delete", "deleteBroken"} /\ todo = {}
    /\ Exit
    /\ UNCHANGED <<disk, tainted, origin, promised>>

-----------------------------------------------------------------------------

StoreStep ==
    \/ \E f \in File : SkipFile(f) \/ ReplaceFile(f)
    \/ CreateFile
    \/ FillFile
    \/ ReadStalls
    \/ WriteFails
    \/ StampFile
    \/ FinishStore

ScanStep ==
    \/ DecidePrune
    \/ DeclinePrune
    \/ DecideFsck
    \/ \E f \in File : DeleteFile(f)
    \/ FinishPrune
    \/ DeleteBroken
    \/ FinishFsck

CommandStep == StoreStep \/ ScanStep

Next ==
    \/ StartStore
    \/ StartPrune
    \/ StartFsck
    \/ CommandStep
    \/ Crash
    \/ OriginChanges

Spec == Init /\ [][Next]_vars

\* A command that runs goes on: nothing in it waits for another command.
FairSpec == Spec /\ WF_vars(CommandStep)

-----------------------------------------------------------------------------
(* Properties                                                              *)

\* A backup that beak store reported without a complaint, from whatever earlier
\* commands had left behind, can be restored until a prune discards it: no
\* later interrupted or failing store, no prune that keeps it, no fsck and no
\* change of the origin takes a file of it away or spoils it.
PromisedIntact == promised \subseteq IntactPoints

\* A finished prune leaves nothing but what the points it kept require.
PruneLeavesOnlyKept ==
    [][cmd = "prune" /\ pc = "delete" /\ todo = {} /\ cmd' = "idle"
         => Existing \subseteq Required(verdict)]_vars

\* A fsck that was allowed to delete the broken points leaves no index file
\* behind that lists a missing file: the next fsck finds no broken point.
FsckLeavesNoBrokenPoint ==
    [][cmd = "fsck" /\ todo = {} /\ cmd' = "idle"
         /\ (pc = "deleteBroken" \/ (pc = "delete" /\ broken = {}))
         => \A p \in Points \cap Existing : needs[p] \subseteq Existing]_vars

\* Every command comes to its end, after any crashes and failed writes of earlier
\* ones, unless it is a store that cannot read an origin file.
EndsUnlessStalled == cmd # "idle" ~> cmd = "idle" \/ pc = "stalled"

\* The storage implements the promise: only points in time that a prune was
\* allowed to discard are ever lost.
Promise == INSTANCE BackupPromise WITH
    intact <- IntactPoints,
    condemned <- IF cmd = "prune" /\ pc = "delete" THEN history \ verdict ELSE {}

ImplementsPromise == Promise!PromiseSpec

\* The claim of the warning "Origin directory modified while doing backup!",
\* which fails: a store goes on to its end, and warns, whatever became of a file.
CommandEnds == cmd # "idle" ~> cmd = "idle"

\* The code's claim, which fails: what fsck lists as OK has every file, and
\* none of the wrong size (beak_help.cc: fsck shows "wrongly sized files").
FsckOkMeansComplete ==
    cmd = "fsck" /\ pc \in {"delete", "deleteBroken"} =>
        \A p \in verdict : \A f \in FilesOf(p) : disk[f] \in {"unstamped", "stored"}

\* The claim of the message that ends a local store, "Local backup copy is now
\* complete", which fails: a failed write does not stop the store.
StoreMeansComplete ==
    [][cmd = "store" /\ pc = "visit" /\ todo = {} /\ cmd' = "idle"
         /\ origin = target => Intact(target)]_vars

\* The README's claim, which fails: beak does not destroy the previous backup
\* when the current one was interrupted.  Prune keeps the newest index file,
\* complete or not, and may discard the last backup that can be restored.
PruneSparesLastBackup ==
    [][cmd = "prune" /\ IntactPoints # {} => (IntactPoints # {})']_vars

=============================================================================
