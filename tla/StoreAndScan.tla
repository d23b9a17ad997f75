---------------------------- MODULE StoreAndScan ----------------------------
(***************************************************************************)
(* Two beak processes on one storage location: one stores, and at the same *)
(* time the other prunes or checks it (a cron job and a user, or two       *)
(* client computers).  beak takes no lock, so the steps of the two         *)
(* commands of BeakStorage interleave over the same files.                 *)
(***************************************************************************)
EXTENDS Integers, FiniteSets

CONSTANTS Points, Tars, SubFiles, RootTars, None

ASSUME TarsAssumption == Points \cap Tars = {}
ASSUME LayoutAssumption ==
    SubFiles \in [Points -> SUBSET Tars] /\ RootTars \in [Points -> SUBSET Tars]
ASSUME NoneAssumption == None \notin Points \cup Tars

VARIABLES
    disk, tainted, origin, promised,                \* shared
    wcmd, wpc, target, wtodo, cur, failed,          \* the process that stores
    scmd, spc, stodo, history, needs, verdict, broken, \* the one that scans
    nothing, \* None, what the one that scans is storing
    safe  \* history: the backups that could be restored when the scan began,
          \* and that it has not decided to discard

writerVars == <<wcmd, wpc, target, wtodo, cur, failed>>
scannerVars == <<scmd, spc, stodo, history, needs, verdict, broken, nothing>>
pairVars == <<disk, tainted, origin, promised, writerVars, scannerVars, safe>>

Writer == INSTANCE BeakStorage WITH
    cmd <- wcmd, pc <- wpc, todo <- wtodo,
    history <- {}, needs <- [p \in Points |-> {}], verdict <- {}, broken <- {}

Scanner == INSTANCE BeakStorage WITH
    cmd <- scmd, pc <- spc, todo <- stodo,
    target <- nothing, cur <- nothing, failed <- nothing # None

PairTypeOK ==
    /\ Writer!TypeOK
    /\ Scanner!TypeOK
    /\ safe \subseteq Points

PairInit == Writer!Init /\ Scanner!Init /\ safe = {}

\* A step of the process that stores.
WriterStep ==
    /\ Writer!StartStore \/ Writer!StoreStep \/ Writer!Crash
    /\ UNCHANGED <<scannerVars, safe>>

\* The process that scans reads the index files, while they may be half written.
StartScan ==
    /\ Scanner!StartPrune \/ Scanner!StartFsck
    /\ safe' = Writer!IntactPoints
    /\ UNCHANGED writerVars

\* It lists the files, decides and deletes.  A prune may discard what it read
\* and does not keep.
ScannerStep ==
    /\ Scanner!ScanStep
    /\ safe' = IF scmd = "prune" THEN safe \ (history' \ verdict') ELSE safe
    /\ scmd' # "idle"
    /\ UNCHANGED writerVars

\* It ends, or is killed, or finds a file gone that it was to delete.
EndScan ==
    /\ Scanner!ScanStep \/ Scanner!Crash
    /\ scmd' = "idle"
    /\ safe' = {}
    /\ UNCHANGED writerVars

OriginChanges == Writer!OriginChanges /\ UNCHANGED <<scannerVars, safe>>

PairNext == WriterStep \/ StartScan \/ ScannerStep \/ EndScan \/ OriginChanges

PairSpec == PairInit /\ [][PairNext]_pairVars

-----------------------------------------------------------------------------
(* Properties                                                              *)

\* Without a lock a store may still lose what it is storing, but a backup that
\* could be restored when a prune or fsck began, and that it does not discard,
\* can be restored for as long as it runs: the store beside it takes nothing
\* away, and what the scan deletes is not needed.
RestorableSurvives == safe \subseteq Writer!IntactPoints

=============================================================================
