------------------------- MODULE BeakStorage_proofs -------------------------
(***************************************************************************)
(* For any number of points in time, any archive files and any sharing of  *)
(* them between the points: the types are right, a promised backup stays   *)
(* intact, a prune and a fsck leave the storage clean, and the storage     *)
(* implements BackupPromise.                                               *)
(***************************************************************************)
EXTENDS BeakStorage, TLAPS

\* A file spoiled by a change of the origin belongs to no backup of the origin
\* as it is now or will be.
TaintIsPast ==
    \A f \in tainted, p \in Points : p >= origin => f \notin Tarfiles(p)

\* A store never writes to a file that is already stored, and unless a write
\* failed everything it has visited is stored.
StoreInv ==
    cmd = "store" =>
        /\ pc \in {"visit", "create", "fill", "stalled", "stamp"}
        /\ target \in Points /\ target <= origin
        /\ todo \subseteq FilesOf(target)
        /\ pc # "visit" => cur \in todo /\ disk[cur] # "stored"
        /\ pc = "fill" => disk[cur] = "short"
        /\ pc = "stamp" /\ ~failed => disk[cur] = "unstamped"
        /\ ~failed => \A f \in FilesOf(target) \ todo : disk[f] = "stored"

\* The points that are intact are among those a prune or fsck has found, and it
\* knows all they need.
ScanInv ==
    cmd \in {"prune", "fsck"} =>
        /\ pc \in {"list", "delete", "deleteBroken"}
        /\ \A p \in IntactPoints : p \in history /\ needs[p] = Tarfiles(p)

\* What it is going to delete belongs to no intact point that it keeps.
DeleteInv ==
    pc \in {"delete", "deleteBroken"} =>
        /\ cmd \in {"prune", "fsck"}
        /\ cmd = "prune" => pc = "delete"
        /\ cmd = "fsck" => IntactPoints \subseteq verdict
        /\ promised \subseteq verdict
        /\ cmd = "fsck" => broken \cap verdict = {}
        /\ \A p \in IntactPoints \cap verdict : todo \cap FilesOf(p) = {}

IdleInv == cmd = "idle" => pc = "idle"

IInv ==
    /\ TypeOK
    /\ PromisedIntact
    /\ TaintIsPast
    /\ StoreInv
    /\ ScanInv
    /\ DeleteInv
    /\ IdleInv

-----------------------------------------------------------------------------
(* Types                                                                   *)

\* The files of a point in time are files: its index file and archive files.
LEMMA FilesTyped ==
    \A p \in Points : /\ Tarfiles(p) \subseteq Tars
                      /\ FilesOf(p) \subseteq File
                      /\ p \in FilesOf(p)
BY LayoutAssumption DEF Tarfiles, FilesOf, File

\* Memory that was lost or released is well typed.
LEMMA ExitTyped ==
    ASSUME Exit
    PROVE  /\ cmd' \in {"idle", "store", "prune", "fsck"}
           /\ pc' = "idle"
           /\ target' \in Points \cup {None}
           /\ todo' \subseteq File
           /\ cur' \in File \cup {None}
           /\ failed' \in BOOLEAN
           /\ history' \subseteq Points
           /\ needs' \in [Points -> SUBSET Tars]
           /\ verdict' \subseteq Points
           /\ broken' \subseteq Points
BY DEF Exit, NothingLoaded

\* Every step keeps every variable within its type.
LEMMA TypeStep == TypeOK /\ [Next]_vars => TypeOK'
<1> SUFFICES ASSUME TypeOK, [Next]_vars PROVE TypeOK'
    OBVIOUS
<1> USE DEF TypeOK, FileState
<1>1. CASE StartStore
    BY <1>1, FilesTyped DEF StartStore, scanVars
<1>2. ASSUME NEW f \in File, SkipFile(f) PROVE TypeOK'
    BY <1>2 DEF SkipFile, storeVars, scanVars
<1>3. ASSUME NEW f \in File, ReplaceFile(f) PROVE TypeOK'
    BY <1>3 DEF ReplaceFile, scanVars
<1>4. CASE CreateFile
    BY <1>4 DEF CreateFile, storeVars, scanVars
<1>5. CASE FillFile
    <2>1. tainted' \subseteq Tars
        BY <1>5 DEF FillFile
    <2>2. disk' \in [File -> FileState]
        BY <1>5 DEF FillFile
    <2> QED
        BY <1>5, <2>1, <2>2 DEF FillFile, storeVars, scanVars
<1>6. CASE WriteFails \/ ReadStalls
    BY <1>6 DEF WriteFails, ReadStalls, storeVars, scanVars
<1>7. CASE StampFile
    <2>1. disk' \in [File -> FileState]
        BY <1>7 DEF StampFile
    <2> QED
        BY <1>7, <2>1 DEF StampFile, scanVars
<1>8. CASE FinishStore
    <2>1. target \in Points \/ promised' = promised
        <3>1. CASE target = None
            BY <1>8, <3>1, NoneAssumption DEF FinishStore
        <3> QED
            BY <3>1
    <2> QED
        BY <1>8, <2>1, ExitTyped DEF FinishStore
<1>9. ASSUME NEW command \in {"prune", "fsck"}, LoadIndexes(command) PROVE TypeOK'
    <2>1. needs' \in [Points -> SUBSET Tars]
        BY <1>9, FilesTyped DEF LoadIndexes
    <2> QED
        BY <1>9, <2>1 DEF LoadIndexes, storeVars
<1>10. CASE DecidePrune
    BY <1>10 DEF DecidePrune, Existing, MayKeep, storeVars
<1>11. CASE DeclinePrune \/ FinishPrune \/ FinishFsck \/ Crash
    BY <1>11, ExitTyped DEF DeclinePrune, FinishPrune, FinishFsck, Crash
<1>12. CASE DecideFsck
    BY <1>12 DEF DecideFsck, BrokenPoints, Existing, storeVars
<1>13. ASSUME NEW f \in File, DeleteFile(f) PROVE TypeOK'
    BY <1>13 DEF DeleteFile, storeVars, scanVars
<1>14. CASE DeleteBroken
    BY <1>14 DEF DeleteBroken, File, storeVars, scanVars
<1>15. CASE OriginChanges
    BY <1>15 DEF OriginChanges, storeVars, scanVars
<1>16. CASE UNCHANGED vars
    BY <1>16 DEF vars, storeVars, scanVars
<1> QED
    BY <1>1, <1>2, <1>3, <1>4, <1>5, <1>6, <1>7, <1>8, <1>9, <1>10, <1>11,
       <1>12, <1>13, <1>14, <1>15, <1>16
    DEF Next, CommandStep, StoreStep, ScanStep, StartPrune, StartFsck

\* Every variable keeps its type.
THEOREM TypeCorrect == Spec => []TypeOK
<1>1. Init => TypeOK
    BY DEF Init, TypeOK, FileState, NothingLoaded
<1> QED
    BY <1>1, TypeStep, PTL DEF Spec

-----------------------------------------------------------------------------
(* The inductive invariant                                                 *)

\* While the files are left alone the same points stay intact.
LEMMA IntactUnchanged ==
    ASSUME UNCHANGED <<disk, tainted>>
    PROVE  IntactPoints' = IntactPoints
BY DEF IntactPoints, Intact

\* A step that spoils no stored file loses no intact point.
LEMMA IntactKept ==
    ASSUME \A f \in File : disk[f] = "stored" /\ f \notin tainted
                             => disk'[f] = "stored" /\ f \notin tainted'
    PROVE  IntactPoints \subseteq IntactPoints'
BY FilesTyped DEF IntactPoints, Intact

\* Deleting files completes no point.
LEMMA DeleteGainsNothing ==
    ASSUME TypeOK, NEW f \in File,
           disk' = [disk EXCEPT ![f] = "absent"], tainted' = tainted \ {f}
    PROVE  IntactPoints' \subseteq IntactPoints
<1> SUFFICES ASSUME NEW p \in Points, Intact(p)' PROVE Intact(p)
    BY DEF IntactPoints
<1> SUFFICES ASSUME NEW g \in FilesOf(p) PROVE disk[g] = "stored" /\ g \notin tainted
    BY DEF Intact
<1>1. g \in File
    BY FilesTyped
<1>2. disk'[g] = "stored" /\ g \notin tainted'
    BY DEF Intact, FilesOf, Tarfiles
<1>3. g # f
    BY <1>1, <1>2 DEF TypeOK
<1> QED
    BY <1>1, <1>2, <1>3 DEF TypeOK

\* Deleting a file of no kept point leaves the kept points intact.
LEMMA DeleteKeeps ==
    ASSUME TypeOK, NEW f \in File, NEW p \in IntactPoints, f \notin FilesOf(p),
           disk' = [disk EXCEPT ![f] = "absent"], tainted' = tainted \ {f}
    PROVE  p \in IntactPoints'
<1> SUFFICES ASSUME NEW g \in FilesOf(p) PROVE disk'[g] = "stored" /\ g \notin tainted'
    BY DEF IntactPoints, Intact, FilesOf, Tarfiles
<1>1. g \in File /\ g # f
    BY FilesTyped DEF IntactPoints
<1> QED
    BY <1>1 DEF IntactPoints, Intact, TypeOK

\* A file that a store writes from a changed origin is in no later backup:
\* what went out of use does not come back.
LEMMA WrittenLateIsPast ==
    ASSUME TypeOK, StoreInv, cmd = "store",
           NEW f \in FilesOf(target), f \in Tars \ FilesOf(origin),
           NEW p \in Points, p >= origin
    PROVE  f \notin Tarfiles(p)
<1>1. f \in Tarfiles(target)
    BY TarsAssumption DEF StoreInv, FilesOf
<1>2. target \in Points /\ origin \in Points /\ target <= origin
    BY DEF StoreInv, TypeOK
<1>3. target # origin
    BY <1>1 DEF FilesOf
<1>4. CASE p = origin
    BY <1>4 DEF FilesOf
<1>5. CASE p # origin
    <2>1. target < origin /\ origin < p
        BY <1>2, <1>3, <1>5, PointsAssumption
    <2> QED
        BY <1>1, <1>2, <2>1, NoRevertAssumption DEF Tarfiles, FilesOf
<1> QED
    BY <1>4, <1>5

\* A command that ends keeps the invariant: memory is released, files stay.
LEMMA ExitKeepsInv ==
    ASSUME IInv, TypeOK', Exit, UNCHANGED <<disk, tainted, origin>>,
           promised' \subseteq IntactPoints
    PROVE  IInv'
<1>1. PromisedIntact'
    BY IntactUnchanged DEF PromisedIntact
<1> QED
    BY <1>1 DEF IInv, TaintIsPast, StoreInv, ScanInv, DeleteInv, IdleInv, Exit, Tarfiles

\* Every step of a store keeps the invariant.
LEMMA StoreStepKeepsInv == IInv /\ StoreStep => IInv'
<1> SUFFICES ASSUME IInv, StoreStep PROVE IInv'
    OBVIOUS
<1>1. TypeOK /\ TypeOK'
    BY TypeStep DEF IInv, Next, CommandStep
<1>2. cmd = "store" => target \in Points /\ FilesOf(target) \subseteq File
    BY FilesTyped DEF IInv, StoreInv
<1>3. ASSUME NEW f \in File, SkipFile(f) PROVE IInv'
    <2>1. cmd = "store"
        BY <1>3 DEF SkipFile, IInv, TypeOK, ScanInv, IdleInv
    <2>2. PromisedIntact' /\ TaintIsPast'
        BY <1>3, IntactUnchanged
        DEF SkipFile, storeVars, IInv, PromisedIntact, TaintIsPast, Tarfiles
    <2>3. StoreInv'
        BY <1>3 DEF SkipFile, storeVars, IInv, StoreInv, FilesOf, Tarfiles
    <2> QED
        BY <1>1, <1>3, <2>1, <2>2, <2>3
        DEF SkipFile, IInv, ScanInv, DeleteInv, IdleInv
<1>4. ASSUME NEW f \in File, ReplaceFile(f) PROVE IInv'
    <2>1. cmd = "store"
        BY <1>4 DEF ReplaceFile, IInv, TypeOK, ScanInv, IdleInv
    <2>2. IntactPoints \subseteq IntactPoints'
        BY <1>1, <1>4, IntactKept DEF ReplaceFile, TypeOK
    <2>3. PromisedIntact' /\ TaintIsPast'
        BY <1>4, <2>2 DEF ReplaceFile, IInv, PromisedIntact, TaintIsPast, Tarfiles
    <2>4. StoreInv'
        BY <1>1, <1>2, <1>4
        DEF ReplaceFile, Visitable, IInv, StoreInv, TypeOK, FilesOf, Tarfiles
    <2> QED
        BY <1>1, <1>4, <2>1, <2>3, <2>4
        DEF ReplaceFile, IInv, ScanInv, DeleteInv, IdleInv
<1>5. ASSUME CreateFile \/ WriteFails \/ ReadStalls PROVE IInv'
    <2>1. cmd = "store" /\ cur \in todo /\ cur \in File /\ disk[cur] # "stored"
        BY <1>1, <1>5
        DEF CreateFile, WriteFails, ReadStalls, IInv, TypeOK, StoreInv, ScanInv, IdleInv
    <2>2. IntactPoints \subseteq IntactPoints'
        BY <1>1, <1>5, <2>1, IntactKept DEF CreateFile, WriteFails, ReadStalls, TypeOK
    <2>3. PromisedIntact' /\ TaintIsPast'
        BY <1>5, <2>2 DEF CreateFile, WriteFails, ReadStalls, IInv, PromisedIntact, TaintIsPast, Tarfiles
    <2>4. StoreInv'
        BY <1>1, <1>2, <1>5, <2>1
        DEF CreateFile, WriteFails, ReadStalls, storeVars, IInv, StoreInv, TypeOK, FilesOf, Tarfiles
    <2> QED
        BY <1>1, <1>5, <2>1, <2>3, <2>4
        DEF CreateFile, WriteFails, ReadStalls, IInv, ScanInv, DeleteInv, IdleInv
<1>6. CASE FillFile
    <2>1. cmd = "store" /\ cur \in todo /\ cur \in File /\ disk[cur] # "stored"
        BY <1>1, <1>6 DEF FillFile, IInv, TypeOK, StoreInv, ScanInv, IdleInv
    <2>2. IntactPoints \subseteq IntactPoints'
        BY <1>1, <1>6, <2>1, IntactKept DEF FillFile, TypeOK
    <2>3. PromisedIntact'
        BY <1>6, <2>2 DEF FillFile, IInv, PromisedIntact
    <2>4. TaintIsPast'
        <3>1. cur \in FilesOf(target) /\ origin' = origin
            BY <1>6, <2>1 DEF FillFile, IInv, StoreInv
        <3>2. \A p \in Points :
                cur \in Tars \ FilesOf(origin) /\ p >= origin => cur \notin Tarfiles(p)
            BY <1>1, <2>1, <3>1, WrittenLateIsPast DEF IInv
        <3> QED
            BY <1>6, <3>1, <3>2 DEF FillFile, IInv, TaintIsPast, Tarfiles
    <2>5. StoreInv'
        BY <1>1, <1>2, <1>6, <2>1
        DEF FillFile, storeVars, IInv, StoreInv, TypeOK, FilesOf, Tarfiles
    <2> QED
        BY <1>1, <1>6, <2>1, <2>3, <2>4, <2>5
        DEF FillFile, IInv, ScanInv, DeleteInv, IdleInv
<1>7. CASE StampFile
    <2>1. cmd = "store" /\ cur \in todo /\ cur \in File /\ disk[cur] # "stored"
        BY <1>1, <1>7 DEF StampFile, IInv, TypeOK, StoreInv, ScanInv, IdleInv
    <2>2. IntactPoints \subseteq IntactPoints'
        BY <1>1, <1>7, <2>1, IntactKept DEF StampFile, TypeOK
    <2>3. PromisedIntact' /\ TaintIsPast'
        BY <1>7, <2>2 DEF StampFile, IInv, PromisedIntact, TaintIsPast, Tarfiles
    <2>4. StoreInv'
        BY <1>1, <1>2, <1>7, <2>1
        DEF StampFile, IInv, StoreInv, TypeOK, FilesOf, Tarfiles
    <2> QED
        BY <1>1, <1>7, <2>1, <2>3, <2>4
        DEF StampFile, IInv, ScanInv, DeleteInv, IdleInv
<1>8. CASE FinishStore
    <2>1. ~failed /\ origin = target => Intact(target)
        BY <1>1, <1>2, <1>8, TarsAssumption
        DEF FinishStore, IInv, StoreInv, TaintIsPast, TypeOK, Intact, FilesOf
    <2>2. promised' \subseteq IntactPoints
        BY <1>2, <1>8, <2>1 DEF FinishStore, IInv, PromisedIntact, IntactPoints
    <2> QED
        BY <1>1, <1>8, <2>2, ExitKeepsInv DEF FinishStore
<1> QED
    BY <1>3, <1>4, <1>5, <1>6, <1>7, <1>8 DEF StoreStep

\* What a prune or fsck has read of an intact point is all of its files, and
\* they are there.
LEMMA IntactIsRequired ==
    ASSUME IInv, cmd \in {"prune", "fsck"}, NEW p \in IntactPoints
    PROVE  /\ p \in history
           /\ \A points \in SUBSET Points :
                 p \in points => FilesOf(p) \subseteq Required(points)
           /\ Required({p}) = FilesOf(p)
           /\ FilesOf(p) \subseteq Existing
<1>1. p \in Points /\ p \in history /\ needs[p] = Tarfiles(p)
    BY DEF IInv, ScanInv, IntactPoints
<1>2. \A points \in SUBSET Points : p \in points => FilesOf(p) \subseteq Required(points)
    BY <1>1 DEF Required, FilesOf
<1>3. Required({p}) = FilesOf(p)
    BY <1>1 DEF Required, FilesOf
<1>4. FilesOf(p) \subseteq Existing
    BY <1>1, FilesTyped DEF IntactPoints, Intact, Existing
<1> QED
    BY <1>1, <1>2, <1>3, <1>4

\* Every step of a prune or a fsck keeps the invariant.
LEMMA ScanStepKeepsInv == IInv /\ ScanStep => IInv'
<1> SUFFICES ASSUME IInv, ScanStep PROVE IInv'
    OBVIOUS
<1>1. TypeOK /\ TypeOK'
    BY TypeStep DEF IInv, Next, CommandStep
<1>2. CASE DecidePrune
    <2> PICK keep \in MayKeep(history) :
            /\ verdict' = keep
            /\ todo' = Existing \ Required(keep)
            /\ promised' = promised \ (history \ keep)
        BY <1>2 DEF DecidePrune
    <2>1. keep \subseteq Points /\ cmd = "prune" /\ cmd' = "prune" /\ pc' = "delete"
        BY <1>1, <1>2 DEF DecidePrune, MayKeep, TypeOK
    <2>2. IntactPoints' = IntactPoints /\ UNCHANGED <<disk, tainted, origin>>
        BY <1>2, IntactUnchanged DEF DecidePrune
    <2>3. \A p \in IntactPoints \cap keep : todo' \cap FilesOf(p) = {}
        BY <2>1, IntactIsRequired
    <2>4. ScanInv'
        BY <1>2, <2>1, <2>2 DEF DecidePrune, IInv, ScanInv, Tarfiles
    <2>5. promised \subseteq history
        BY <2>1, IntactIsRequired DEF IInv, PromisedIntact
    <2>6. DeleteInv'
        BY <2>1, <2>2, <2>3, <2>5 DEF DeleteInv, FilesOf, Tarfiles
    <2>7. PromisedIntact'
        BY <2>2 DEF IInv, PromisedIntact
    <2> QED
        BY <1>1, <2>1, <2>2, <2>4, <2>6, <2>7
        DEF IInv, TaintIsPast, StoreInv, IdleInv, Tarfiles
<1>3. CASE DecideFsck
    <2>1. cmd = "fsck" /\ cmd' = "fsck" /\ pc' = "delete"
        BY <1>3 DEF DecideFsck
    <2>2. /\ IntactPoints' = IntactPoints
          /\ UNCHANGED <<disk, tainted, origin, promised, history, needs>>
        BY <1>3, IntactUnchanged DEF DecideFsck
    <2>3. IntactPoints \subseteq verdict'
        BY <1>3, <2>1, IntactIsRequired DEF DecideFsck, BrokenPoints
    <2>4. broken' \cap verdict' = {}
        BY <1>3 DEF DecideFsck
    <2>5. \A p \in IntactPoints : todo' \cap FilesOf(p) = {}
        BY <1>1, <1>3, <2>1, IntactIsRequired DEF DecideFsck, TypeOK
    <2>6. PromisedIntact' /\ promised' \subseteq IntactPoints
        BY <2>2 DEF IInv, PromisedIntact
    <2>7. DeleteInv'
        BY <2>1, <2>2, <2>3, <2>4, <2>5, <2>6 DEF DeleteInv, FilesOf, Tarfiles
    <2> QED
        BY <1>1, <2>1, <2>2, <2>6, <2>7
        DEF IInv, TaintIsPast, StoreInv, ScanInv, IdleInv, Tarfiles
<1>4. ASSUME NEW f \in File, DeleteFile(f) PROVE IInv'
    <2>1. /\ pc \in {"delete", "deleteBroken"} /\ f \in todo
          /\ disk' = [disk EXCEPT ![f] = "absent"] /\ tainted' = tainted \ {f}
          /\ todo' = todo \ {f}
          /\ UNCHANGED <<origin, cmd, pc, storeVars, scanVars, promised>>
        BY <1>4 DEF DeleteFile
    <2>2. IntactPoints' \subseteq IntactPoints
        BY <1>1, <2>1, DeleteGainsNothing
    <2>3. \A p \in IntactPoints \cap verdict : p \in IntactPoints'
        BY <1>1, <2>1, DeleteKeeps DEF IInv, DeleteInv
    <2>4. PromisedIntact'
        BY <2>1, <2>3 DEF IInv, PromisedIntact, DeleteInv
    <2>5. cmd \in {"prune", "fsck"}
        BY <2>1 DEF IInv, DeleteInv
    <2>6. ScanInv' /\ DeleteInv'
        BY <2>1, <2>2, <2>5
        DEF IInv, ScanInv, DeleteInv, scanVars, Tarfiles, FilesOf
    <2> QED
        BY <1>1, <2>1, <2>4, <2>5, <2>6 DEF IInv, TaintIsPast, StoreInv, IdleInv, Tarfiles
<1>5. CASE DeleteBroken
    <2>1. /\ cmd = "fsck" /\ pc = "delete" /\ pc' = "deleteBroken" /\ todo' = broken
          /\ UNCHANGED <<disk, tainted, origin, cmd, storeVars, scanVars, promised>>
        BY <1>5 DEF DeleteBroken
    <2>2. IntactPoints' = IntactPoints
        BY <2>1, IntactUnchanged
    <2>3. \A p \in Points \cap verdict : broken \cap FilesOf(p) = {}
        BY <1>1, <2>1, TarsAssumption, FilesTyped
        DEF IInv, DeleteInv, TypeOK, FilesOf
    <2>4. DeleteInv'
        BY <2>1, <2>2, <2>3
        DEF IInv, DeleteInv, scanVars, IntactPoints, FilesOf, Tarfiles
    <2> QED
        BY <1>1, <2>1, <2>2, <2>4
        DEF IInv, PromisedIntact, TaintIsPast, StoreInv, ScanInv, IdleInv, scanVars, Tarfiles
<1>6. CASE DeclinePrune \/ FinishPrune \/ FinishFsck
    BY <1>1, <1>6, ExitKeepsInv
    DEF DeclinePrune, FinishPrune, FinishFsck, IInv, PromisedIntact
<1> QED
    BY <1>2, <1>3, <1>4, <1>5, <1>6 DEF ScanStep

\* The invariant is inductive.
LEMMA InvStep == IInv /\ [Next]_vars => IInv'
<1> SUFFICES ASSUME IInv, [Next]_vars PROVE IInv'
    OBVIOUS
<1>1. TypeOK /\ TypeOK'
    BY TypeStep DEF IInv
<1>2. CASE StartStore
    <2>1. IntactPoints' = IntactPoints
        BY <1>2, IntactUnchanged DEF StartStore
    <2> QED
        BY <1>1, <1>2, <2>1, PointsAssumption
        DEF StartStore, TypeOK, IInv, PromisedIntact, TaintIsPast, StoreInv,
            ScanInv, DeleteInv, IdleInv, FilesOf, Tarfiles
<1>3. ASSUME NEW command \in {"prune", "fsck"}, LoadIndexes(command) PROVE IInv'
    <2>1. IntactPoints' = IntactPoints
        BY <1>3, IntactUnchanged DEF LoadIndexes
    <2>2. \A p \in IntactPoints : p \in history' /\ needs'[p] = Tarfiles(p)
        BY <1>3 DEF LoadIndexes, IntactPoints, Intact, Existing, FilesOf, File
    <2>3. /\ cmd' = command /\ pc' = "list"
          /\ UNCHANGED <<disk, tainted, origin, promised>>
        BY <1>3 DEF LoadIndexes
    <2> QED
        BY <1>1, <2>1, <2>2, <2>3
        DEF IInv, PromisedIntact, TaintIsPast, StoreInv, ScanInv, DeleteInv,
            IdleInv, Tarfiles
<1>4. CASE Crash
    BY <1>1, <1>4, ExitKeepsInv DEF Crash, IInv, PromisedIntact
<1>5. CASE OriginChanges
    <2>1. IntactPoints' = IntactPoints /\ origin' \in Points /\ origin < origin'
        BY <1>5, IntactUnchanged, PointsAssumption
        DEF OriginChanges, IInv, TypeOK
    <2>2. /\ UNCHANGED <<disk, tainted, cmd, pc, todo, target, cur, failed>>
          /\ UNCHANGED <<history, needs, verdict, broken, promised>>
        BY <1>5 DEF OriginChanges, storeVars, scanVars
    <2>3. TaintIsPast' /\ StoreInv'
        BY <1>1, <2>1, <2>2, PointsAssumption
        DEF IInv, TypeOK, TaintIsPast, StoreInv, FilesOf, Tarfiles
    <2> QED
        BY <1>1, <2>1, <2>2, <2>3
        DEF IInv, PromisedIntact, ScanInv, DeleteInv, IdleInv, FilesOf, Tarfiles
<1>6. CASE UNCHANGED vars
    <2>1. IntactPoints' = IntactPoints
        BY <1>6, IntactUnchanged DEF vars
    <2> QED
        BY <1>1, <1>6, <2>1
        DEF vars, storeVars, scanVars, IInv, PromisedIntact, TaintIsPast,
            StoreInv, ScanInv, DeleteInv, IdleInv, FilesOf, Tarfiles
<1> QED
    BY <1>2, <1>3, <1>4, <1>5, <1>6, StoreStepKeepsInv, ScanStepKeepsInv
    DEF Next, CommandStep, StartPrune, StartFsck

\* The invariant holds when the storage is empty.
LEMMA InvInit == Init => IInv
BY DEF Init, NothingLoaded, IInv, TypeOK, FileState, PromisedIntact, TaintIsPast,
       StoreInv, ScanInv, DeleteInv, IdleInv

\* A backup that beak store reported without a complaint stays complete and as
\* it was named, through any sequence of stores, crashes, failing writes,
\* changes of the origin, prunes that keep it and fscks.
THEOREM PromiseKept == Spec => []PromisedIntact
<1>1. IInv => PromisedIntact
    BY DEF IInv
<1> QED
    BY <1>1, InvInit, InvStep, PTL DEF Spec

-----------------------------------------------------------------------------
(* What a prune and a fsck leave behind                                    *)

\* What a prune is not going to delete is required by a point it keeps.
PruneEndInv ==
    cmd = "prune" /\ pc = "delete" => Existing \ todo \subseteq Required(verdict)

\* A fsck has found every index file there is.
FsckFoundInv == cmd = "fsck" => Points \cap Existing \subseteq history

\* Every point a fsck found is either complete, and stays so, or broken; the
\* index files of the broken ones are there until it is their turn.
FsckEndInv ==
    cmd = "fsck" /\ pc \in {"delete", "deleteBroken"} =>
        /\ history \subseteq verdict \cup broken /\ verdict \subseteq history
        /\ broken \cap verdict = {}
        /\ \A p \in verdict : Required({p}) \subseteq Existing
        /\ pc = "delete" => todo \cap Required(history) = {}
        /\ pc = "deleteBroken" => todo \subseteq broken /\ Existing \cap broken \subseteq todo

EndInv == PruneEndInv /\ FsckFoundInv /\ FsckEndInv

\* It says nothing of a step that is none of a prune or fsck that deletes.
LEMMA NotDeletingKeepsEnd ==
    ASSUME pc' \notin {"delete", "deleteBroken"}, FsckFoundInv'
    PROVE  EndInv'
BY DEF EndInv, PruneEndInv, FsckEndInv

\* A point is reported broken if and only if a file it needs is missing.
LEMMA BrokenMeansMissing ==
    ASSUME TypeOK, NEW p \in history
    PROVE  p \notin BrokenPoints <=> Required({p}) \subseteq Existing
<1>1. Required({p}) \subseteq Required(history)
    BY DEF Required
<1> QED
    BY <1>1 DEF BrokenPoints, Lost

\* Deleting a file that is on the list keeps the list complete.
LEMMA DeleteFileKeepsEnd ==
    ASSUME TypeOK, EndInv, NEW f \in File, DeleteFile(f)
    PROVE  EndInv'
<1>1. /\ pc \in {"delete", "deleteBroken"} /\ f \in todo
      /\ todo' = todo \ {f}
      /\ UNCHANGED <<cmd, pc, history, needs, verdict, broken>>
    BY DEF DeleteFile, scanVars
<1>2. Existing' = Existing \ {f}
    BY DEF DeleteFile, TypeOK, Existing
<1>3. \A points : Required(points)' = Required(points)
    BY <1>1 DEF Required
<1>4. PruneEndInv'
    BY <1>1, <1>2 DEF EndInv, PruneEndInv, Required
<1>5. CASE cmd = "fsck"
    <2>1. ASSUME NEW p \in verdict PROVE f \notin Required({p})
        <3>1. CASE pc = "delete"
            BY <1>5, <2>1, <3>1, <1>1 DEF EndInv, FsckEndInv, Required
        <3>2. CASE pc = "deleteBroken"
            <4>1. f \in broken /\ f \in Points /\ p \in Points /\ f # p
                BY <1>1, <1>5, <2>1, <3>2 DEF EndInv, FsckEndInv, TypeOK
            <4>2. needs[p] \subseteq Tars
                BY <4>1 DEF TypeOK
            <4> QED
                BY <4>1, <4>2, TarsAssumption DEF Required
        <3> QED
            BY <1>1, <3>1, <3>2
    <2>2. \A p \in verdict' : Required({p})' \subseteq Existing'
        BY <1>1, <1>2, <1>3, <1>5, <2>1 DEF EndInv, FsckEndInv
    <2>3. pc' = "delete" => todo' \cap Required(history)' = {}
        BY <1>1, <1>3, <1>5 DEF EndInv, FsckEndInv, Required
    <2> QED
        BY <1>1, <1>2, <1>4, <1>5, <2>2, <2>3 DEF EndInv, FsckFoundInv, FsckEndInv
<1>6. CASE cmd # "fsck"
    BY <1>1, <1>4, <1>6 DEF EndInv, FsckFoundInv, FsckEndInv
<1> QED
    BY <1>5, <1>6

\* Every step keeps it.
LEMMA EndStep == IInv /\ EndInv /\ [Next]_vars => EndInv'
<1> SUFFICES ASSUME IInv, EndInv, [Next]_vars PROVE EndInv'
    OBVIOUS
<1>1. TypeOK
    BY DEF IInv
<1>2. CASE StartStore \/ StoreStep
    <2>1. pc' \notin {"delete", "deleteBroken"}
        BY <1>2 DEF StartStore, StoreStep, SkipFile, ReplaceFile, CreateFile, FillFile,
               ReadStalls, WriteFails, StampFile, FinishStore, Exit
    <2>2. CASE StartStore
        BY <2>1, <2>2, NotDeletingKeepsEnd DEF StartStore, FsckFoundInv
    <2>3. CASE StoreStep
        <3>1. pc \in {"visit", "create", "fill", "stalled", "stamp"}
            BY <2>3 DEF StoreStep, SkipFile, ReplaceFile, CreateFile, FillFile, ReadStalls,
                   WriteFails, StampFile, FinishStore
        <3>2. cmd # "fsck"
            BY <3>1 DEF IInv, ScanInv
        <3>3. cmd' = cmd \/ cmd' = "idle"
            BY <2>3 DEF StoreStep, SkipFile, ReplaceFile, CreateFile, FillFile, ReadStalls,
                   WriteFails, StampFile, FinishStore, Exit
        <3> QED
            BY <2>1, <3>2, <3>3, NotDeletingKeepsEnd DEF FsckFoundInv
    <2> QED
        BY <1>2, <2>2, <2>3
<1>3. CASE \/ StartPrune \/ StartFsck \/ DeclinePrune \/ FinishPrune \/ FinishFsck
           \/ Crash
    <2>1. pc' \notin {"delete", "deleteBroken"}
        BY <1>3 DEF StartPrune, StartFsck, LoadIndexes, DeclinePrune, FinishPrune,
               FinishFsck, Crash, Exit
    <2>2. FsckFoundInv'
        BY <1>3 DEF StartPrune, StartFsck, LoadIndexes, DeclinePrune, FinishPrune,
               FinishFsck, Crash, Exit, FsckFoundInv, Existing
    <2> QED
        BY <2>1, <2>2, NotDeletingKeepsEnd
<1>4. CASE DecidePrune
    <2>1. /\ cmd' = "prune" /\ UNCHANGED <<disk, needs>>
          /\ todo' = Existing \ Required(verdict')
        BY <1>4 DEF DecidePrune
    <2> QED
        BY <2>1 DEF EndInv, PruneEndInv, FsckFoundInv, FsckEndInv, Existing, Required
<1>5. CASE DecideFsck
    <2>1. /\ cmd' = "fsck" /\ pc' = "delete" /\ UNCHANGED <<disk, needs, history>>
          /\ broken' = BrokenPoints /\ verdict' = history \ BrokenPoints
          /\ todo' \in {{}, Existing \ Required(history)}
        BY <1>5 DEF DecideFsck
    <2>2. FsckFoundInv'
        BY <1>5, <2>1 DEF DecideFsck, EndInv, FsckFoundInv, Existing
    <2>3. \A p \in verdict' : Required({p})' \subseteq Existing'
        BY <1>1, <2>1, BrokenMeansMissing DEF Required, Existing
    <2>4. todo' \cap Required(history)' = {}
        BY <2>1 DEF Required
    <2> QED
        BY <2>1, <2>2, <2>3, <2>4 DEF EndInv, PruneEndInv, FsckEndInv
<1>6. ASSUME NEW f \in File, DeleteFile(f) PROVE EndInv'
    BY <1>1, <1>6, DeleteFileKeepsEnd
<1>7. CASE DeleteBroken
    <2>1. /\ cmd = "fsck" /\ pc = "delete" /\ pc' = "deleteBroken" /\ todo' = broken
          /\ UNCHANGED <<disk, cmd, history, needs, verdict, broken>>
        BY <1>7 DEF DeleteBroken, scanVars
    <2> QED
        BY <2>1 DEF EndInv, PruneEndInv, FsckFoundInv, FsckEndInv, Existing, Required
<1>8. CASE OriginChanges \/ UNCHANGED vars
    <2>1. UNCHANGED <<disk, cmd, pc, todo, history, needs, verdict, broken>>
        BY <1>8 DEF OriginChanges, vars, scanVars
    <2> QED
        BY <2>1 DEF EndInv, PruneEndInv, FsckFoundInv, FsckEndInv, Existing, Required
<1> QED
    BY <1>2, <1>3, <1>4, <1>5, <1>6, <1>7, <1>8 DEF Next, CommandStep, ScanStep

\* An empty storage has nothing to be left behind.
LEMMA EndInit == Init => EndInv
BY DEF Init, EndInv, PruneEndInv, FsckFoundInv, FsckEndInv

\* A prune that comes to its end has deleted every file that no kept point
\* requires, whatever an earlier command left in the storage.
THEOREM PruneCleansUp == Spec => PruneLeavesOnlyKept
<1>1. EndInv /\ [Next]_vars
        => [cmd = "prune" /\ pc = "delete" /\ todo = {} /\ cmd' = "idle"
              => Existing \subseteq Required(verdict)]_vars
    BY DEF EndInv, PruneEndInv
<1> QED
    BY <1>1, InvInit, InvStep, EndInit, EndStep, PTL DEF Spec, PruneLeavesOnlyKept

\* After a fsck that was allowed to delete the broken points, every index file
\* that is left lists only files that are there.
THEOREM FsckCleansUp == Spec => FsckLeavesNoBrokenPoint
<1>1. ASSUME IInv, EndInv, cmd = "fsck", todo = {},
             pc = "deleteBroken" \/ (pc = "delete" /\ broken = {}),
             NEW p \in Points \cap Existing
      PROVE  needs[p] \subseteq Existing
    <2>1. p \in verdict
        BY <1>1 DEF EndInv, FsckFoundInv, FsckEndInv
    <2> QED
        BY <1>1, <2>1 DEF EndInv, FsckEndInv, Required
<1>2. IInv /\ EndInv /\ [Next]_vars
        => [cmd = "fsck" /\ todo = {} /\ cmd' = "idle"
              /\ (pc = "deleteBroken" \/ (pc = "delete" /\ broken = {}))
              => \A p \in Points \cap Existing : needs[p] \subseteq Existing]_vars
    BY <1>1
<1> QED
    BY <1>2, InvInit, InvStep, EndInit, EndStep, PTL DEF Spec, FsckLeavesNoBrokenPoint

-----------------------------------------------------------------------------
(* The storage implements the promise                                      *)

\* What the storage condemns: `condemned' of BackupPromise.
Condemned == IF cmd = "prune" /\ pc = "delete" THEN history \ verdict ELSE {}

\* The initial storage holds no backup, and nothing is condemned.
LEMMA PromiseInitMapped == Init => Promise!PromiseInit
BY PointsAssumption
DEF Init, Promise!PromiseInit, IntactPoints, Intact, FilesOf, File

\* Only a prune that deletes condemns anything.
LEMMA StoreCondemnsNothing ==
    ASSUME IInv, StoreStep
    PROVE  Condemned = {} /\ Condemned' = {}
<1>1. pc \in {"visit", "create", "fill", "stalled", "stamp"}
    BY DEF StoreStep, SkipFile, ReplaceFile, CreateFile, FillFile, ReadStalls,
           WriteFails, StampFile, FinishStore
<1>2. pc' # "delete"
    BY DEF StoreStep, SkipFile, ReplaceFile, CreateFile, FillFile, ReadStalls,
           WriteFails, StampFile, FinishStore, Exit
<1> QED
    BY <1>1, <1>2 DEF Condemned

\* A step of a store spoils no stored file, so it loses no backup.
LEMMA StoreLosesNothing ==
    ASSUME IInv, StoreStep
    PROVE  IntactPoints \subseteq IntactPoints'
<1> SUFFICES \A f \in File : disk[f] = "stored" /\ f \notin tainted
                                => disk'[f] = "stored" /\ f \notin tainted'
    BY IntactKept
<1>1. TypeOK
    BY DEF IInv
<1>2. cmd = "store"
    BY <1>1 DEF IInv, TypeOK, ScanInv, IdleInv, StoreStep, SkipFile, ReplaceFile,
           CreateFile, FillFile, ReadStalls, WriteFails, StampFile, FinishStore
<1>3. ASSUME NEW f \in File, ReplaceFile(f)
      PROVE  \A g \in File : disk[g] = "stored" /\ g \notin tainted
                               => disk'[g] = "stored" /\ g \notin tainted'
    BY <1>1, <1>3 DEF ReplaceFile, TypeOK
<1>4. CASE CreateFile \/ FillFile \/ StampFile
    <2>1. disk[cur] # "stored"
        BY <1>2, <1>4 DEF IInv, StoreInv, CreateFile, FillFile, StampFile
    <2> QED
        BY <1>1, <1>4, <2>1 DEF CreateFile, FillFile, StampFile, TypeOK
<1>5. CASE (\E f \in File : SkipFile(f)) \/ ReadStalls \/ WriteFails \/ FinishStore
    BY <1>5 DEF SkipFile, ReadStalls, WriteFails, FinishStore
<1> QED
    BY <1>3, <1>4, <1>5 DEF StoreStep

\* Every step of the storage is a step of the promise, or none.
LEMMA PromiseStep ==
    IInv /\ [Next]_vars => [Promise!PromiseNext]_(Promise!promiseVars)
<1> SUFFICES ASSUME IInv, [Next]_vars
             PROVE  \/ Promise!PromiseNext
                    \/ IntactPoints' = IntactPoints /\ Condemned' = Condemned
    BY DEF Promise!promiseVars, Condemned
<1>1. TypeOK /\ TypeOK'
    BY TypeStep DEF IInv
<1>2. IntactPoints \subseteq Points /\ IntactPoints' \subseteq Points
    BY DEF IntactPoints
<1>3. CASE StoreStep
    <2>1. Promise!Gain
        BY <1>2, <1>3, StoreCondemnsNothing, StoreLosesNothing
        DEF Promise!Gain, Condemned
    <2> QED
        BY <2>1 DEF Promise!PromiseNext
<1>4. CASE DecidePrune
    <2>1. IntactPoints' = IntactPoints
        BY <1>4, IntactUnchanged DEF DecidePrune
    <2>2. Condemned = {} /\ Condemned' \subseteq Points
        BY <1>1, <1>4 DEF DecidePrune, Condemned, TypeOK
    <2>3. Promise!Condemn
        BY <2>1, <2>2 DEF Promise!Condemn, Condemned
    <2> QED
        BY <2>3 DEF Promise!PromiseNext
<1>5. ASSUME NEW f \in File, DeleteFile(f)
      PROVE  Promise!Discard
    <2>1. /\ pc \in {"delete", "deleteBroken"} /\ f \in todo
          /\ disk' = [disk EXCEPT ![f] = "absent"] /\ tainted' = tainted \ {f}
          /\ UNCHANGED <<cmd, pc, scanVars>>
        BY <1>5 DEF DeleteFile
    <2>2. IntactPoints' \subseteq IntactPoints
        BY <1>1, <2>1, DeleteGainsNothing
    <2>3. \A p \in IntactPoints \cap verdict : p \in IntactPoints'
        BY <1>1, <2>1, DeleteKeeps DEF IInv, DeleteInv
    <2>4. IntactPoints \ Condemned \subseteq verdict
        <3>1. CASE cmd = "fsck"
            BY <2>1, <3>1 DEF IInv, DeleteInv
        <3>2. CASE cmd = "prune" /\ pc = "delete"
            BY <3>2 DEF IInv, ScanInv, Condemned
        <3>3. cmd = "prune" => pc = "delete"
            BY <2>1 DEF IInv, DeleteInv
        <3> QED
            BY <2>1, <3>1, <3>2, <3>3 DEF IInv, DeleteInv
    <2>5. Condemned' = Condemned
        BY <2>1 DEF Condemned, scanVars
    <2> QED
        BY <2>2, <2>3, <2>4, <2>5 DEF Promise!Discard, Condemned
<1>6. CASE DeclinePrune \/ FinishPrune \/ FinishFsck \/ Crash
    <2>1. IntactPoints' = IntactPoints /\ Condemned' = {}
        BY <1>6, IntactUnchanged
        DEF DeclinePrune, FinishPrune, FinishFsck, Crash, Exit, Condemned
    <2>2. Promise!Release
        BY <2>1 DEF Promise!Release, Condemned
    <2> QED
        BY <2>2 DEF Promise!PromiseNext
<1>7. CASE StartStore \/ StartPrune \/ StartFsck \/ DecideFsck \/ DeleteBroken
    <2>1. UNCHANGED <<disk, tainted>>
        BY <1>7 DEF StartStore, StartPrune, StartFsck, LoadIndexes, DecideFsck,
                    DeleteBroken
    <2>2. Condemned = {} /\ Condemned' = {}
        BY <1>1, <1>7
        DEF StartStore, StartPrune, StartFsck, LoadIndexes, DecideFsck,
            DeleteBroken, Condemned
    <2> QED
        BY <2>1, <2>2, IntactUnchanged
<1>8. CASE OriginChanges \/ UNCHANGED vars
    BY <1>8, IntactUnchanged DEF OriginChanges, vars, scanVars, Condemned
<1> QED
    BY <1>3, <1>4, <1>5, <1>6, <1>7, <1>8
    DEF Next, CommandStep, ScanStep, Promise!PromiseNext

\* Whatever happens to the files, a point in time that can be restored is only
\* ever lost to a prune that was allowed to discard it.
THEOREM StorageKeepsItsPromise == Spec => ImplementsPromise
<1> QED
    BY PromiseInitMapped, PromiseStep, InvInit, InvStep, PTL
    DEF Spec, ImplementsPromise, Promise!PromiseSpec

=============================================================================
