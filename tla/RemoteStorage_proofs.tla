------------------------ MODULE RemoteStorage_proofs ------------------------
(***************************************************************************)
(* For any number of points in time, any tars and any sharing of them, and *)
(* for both programs that reach the storage: the types are right, a        *)
(* promised backup stays on the remote, what a fsck lists as OK is there,  *)
(* and a push makes no file worse than the local one.                      *)
(***************************************************************************)
EXTENDS RemoteStorage, TLAPS

\* A store or push has a point in time.
TypeInv ==
    /\ TypeOK
    /\ pc \in {"local", "send"} => target \in Points

\* The phases of a store or push.  As long as nothing went wrong, the files of
\* its point in time that can be sent are there or are going to be.
StoreInv ==
    /\ cmd = "idle" => pc = "idle"
    /\ pc = "local" => cmd = "push"
    /\ pc = "send" => cmd \in {"store", "push"}
    /\ cmd = "push" /\ pc = "send" => \A f \in todo : local[f] # "absent"
    /\ pc = "local" /\ clean => \A f \in FilesOf(target) : f \in todo \/ local[f] = "stored"
    /\ cmd = "push" /\ pc = "send" /\ clean => \A f \in FilesOf(target) : local[f] = "stored"
    /\ pc = "send" /\ clean /\ ~mishap =>
         \A f \in FilesOf(target) : Sendable(f) => f \in todo \/ remote[f] = "stored"

\* What a prune or fsck knows of the storage before it decides.
ScanInv ==
    /\ pc \in {"load", "decide"} =>
         backend = "rclone" /\ listed \subseteq Listed /\ history = Points \cap listed
    /\ pc \in {"decide", "delete"} =>
         \A p \in history : /\ needs[p] \subseteq TarsOf[p]
                            /\ p \notin unread => needs[p] = TarsOf[p]
    /\ pc # "delete" => broken = {}

\* What it then deletes belongs to no promised point, nor to one reported as OK.
DeleteInv ==
    pc = "delete" =>
        /\ ~mishap => \A p \in promised :
                         Harmless(p) => FilesOf(p) \cap todo = {} /\ p \notin broken
        /\ cmd = "fsck" =>
             /\ verdict \cap broken = {}
             /\ \A p \in verdict \ unread : \A f \in FilesOf(p) :
                    Alone(f) => f \notin todo /\ remote[f] = "stored"

IInv ==
    /\ TypeInv
    /\ PromisedIsThere
    /\ StoreInv
    /\ ScanInv
    /\ DeleteInv

-----------------------------------------------------------------------------
(* Types                                                                   *)

\* The files of a point in time are files: its index file and tars.
LEMMA FilesTyped ==
    \A p \in Points : /\ TarsOf[p] \subseteq Tars
                      /\ FilesOf(p) \subseteq File
                      /\ p \in FilesOf(p)
                      /\ FilesOf(p) \cap Points = {p}
BY TarsAssumption DEF FilesOf, File

\* What matches what stays as it is.
LEMMA NamingStays ==
    [Next]_vars => /\ \A f : (Sendable(f)' <=> Sendable(f)) /\ (Alone(f)' <=> Alone(f))
                   /\ \A p : Harmless(p)' <=> Harmless(p)
BY DEF Next, vars, Sendable, Alone, Harmless, FilesOf

\* What is sent was to be sent, and all of it is if the patterns match their files.
LEMMA ToSendTyped ==
    \A files : /\ ToSend(files) \subseteq files
               /\ \A f \in files : Sendable(f) => f \in ToSend(files)
BY DEF ToSend, Matched, Sendable

\* What is deleted are files, none that stands alone and was not to be deleted.
LEMMA ToDeleteTyped ==
    ASSUME TypeOK, NEW files \in SUBSET File
    PROVE  /\ ToDelete(files) \subseteq File
           /\ \A f \in File : Alone(f) /\ f \in ToDelete(files) => f \in files
<1>1. matches \in [File -> SUBSET File]
    BY NamingsAssumption DEF TypeOK
<1> QED
    BY <1>1 DEF ToDelete, Matched, Alone

\* A listing gives files that are there.
LEMMA ListedTyped == Listed \subseteq File /\ \A f \in Listed : remote[f] = "stored"
BY PlainAssumption DEF Listed, Listable, File

\* Memory that was released is well typed.
LEMMA ExitTyped ==
    ASSUME Exit
    PROVE  /\ cmd' = "idle" /\ pc' = "idle"
           /\ target' \in Points \cup {None} /\ clean' \in BOOLEAN
           /\ listed' \subseteq File /\ todo' \subseteq File
           /\ history' \subseteq Points /\ unread' \subseteq Points
           /\ verdict' \subseteq Points /\ broken' = {}
           /\ needs' \in [Points -> SUBSET Tars]
BY DEF Exit, NothingLoaded

\* What is sent is a file, whole or not.
LEMMA ContentsTyped ==
    ASSUME TypeOK, NEW f \in File
    PROVE  /\ Contents(f).state \in FileState
           /\ Contents(f).wrong => f \in Tars
<1>1. CASE cmd = "store"
    <2>1. Contents(f).state = "stored" /\ (Contents(f).wrong <=> f \in FalseNow({f}))
        BY <1>1 DEF Contents
    <2>2. FalseNow({f}) \subseteq Tars
        BY DEF FalseNow
    <2> QED
        BY <2>1, <2>2 DEF FileState
<1>2. CASE cmd # "store"
    <2>1. Contents(f).state = local[f] /\ (Contents(f).wrong <=> f \in wrongHere)
        BY <1>2 DEF Contents
    <2>2. local[f] \in FileState /\ wrongHere \subseteq Tars
        BY DEF TypeOK
    <2> QED
        BY <2>1, <2>2
<1> QED
    BY <1>1, <1>2

\* Every step keeps every variable within its type.
LEMMA TypeStep == TypeInv /\ [Next]_vars => TypeInv'
<1> SUFFICES ASSUME TypeInv, [Next]_vars PROVE TypeInv'
    OBVIOUS
<1> USE DEF TypeInv, TypeOK, FileState, places, storeVars, scanVars
<1>b. backend' = backend /\ matches' = matches
    BY DEF Next, vars
<1>1. CASE StartStore
    BY <1>1, <1>b, FilesTyped, ToSendTyped DEF StartStore
<1>2. CASE StartPush
    BY <1>2, <1>b, FilesTyped DEF StartPush
<1>3. ASSUME NEW f \in File, StoreLocally(f) PROVE TypeInv'
    <2>1. local' \in [File -> FileState] /\ wrongHere' \subseteq Tars /\ clean' \in BOOLEAN
        BY <1>3 DEF StoreLocally, FalseNow
    <2> QED
        BY <1>3, <1>b, <2>1 DEF StoreLocally
<1>4. CASE StartCopy
    BY <1>4, <1>b, ToSendTyped DEF StartCopy, ToCopy
<1>5. ASSUME NEW f \in File, SendFile(f) PROVE TypeInv'
    <2>1. remote' \in [File -> FileState]
        BY <1>5, ContentsTyped DEF SendFile
    <2>2. wrong' \subseteq Tars /\ mishap' \in BOOLEAN
        BY <1>5, ContentsTyped DEF SendFile
    <2> QED
        BY <1>5, <1>b, <2>1, <2>2 DEF SendFile
<1>6. ASSUME NEW f \in File, SendBreaks(f) PROVE TypeInv'
    <2>1. remote' \in [File -> FileState] /\ wrong' \subseteq Tars
        BY <1>6 DEF SendBreaks
    <2> QED
        BY <1>6, <1>b, <2>1, ExitTyped DEF SendBreaks
<1>7. CASE FinishStore
    BY <1>7, <1>b, ExitTyped DEF FinishStore
<1>8. ASSUME NEW command \in {"prune", "fsck"}, StartScan(command) PROVE TypeInv'
    BY <1>8, <1>b, ListedTyped DEF StartScan, Fetched, Listings
<1>9. CASE LoadIndexes
    <2>1. cache' \subseteq Points /\ unread' \subseteq Points
        BY <1>9 DEF LoadIndexes, Fetched
    <2>2. needs' \in [Points -> SUBSET Tars]
        BY <1>9, FilesTyped DEF LoadIndexes
    <2> QED
        BY <1>9, <1>b, <2>1, <2>2 DEF LoadIndexes
<1>10. CASE DecidePrune
    <2>1. mishap' \in BOOLEAN /\ verdict' \subseteq Points
        BY <1>10 DEF DecidePrune, Mishaps
    <2>2. todo' \subseteq File
        BY <1>10, ToDeleteTyped DEF DecidePrune
    <2> QED
        BY <1>10, <1>b, <2>1, <2>2 DEF DecidePrune
<1>11. CASE Decline \/ FinishScan \/ Crash
    BY <1>11, <1>b, ExitTyped DEF Decline, FinishScan, Crash
<1>12. CASE DecideFsck
    <2>1. mishap' \in BOOLEAN /\ todo' \subseteq File
        BY <1>12, ToDeleteTyped DEF DecideFsck, Mishaps
    <2> QED
        BY <1>12, <1>b, <2>1 DEF DecideFsck, BrokenPoints
<1>13. ASSUME NEW f \in File, DeleteFile(f) PROVE TypeInv'
    BY <1>13, <1>b DEF DeleteFile
<1>14. CASE DeleteBroken
    <2>1. todo' \subseteq File
        BY <1>14, ToDeleteTyped DEF DeleteBroken, File
    <2> QED
        BY <1>14, <1>b, <2>1 DEF DeleteBroken
<1>15. CASE OriginChanges
    BY <1>15, <1>b DEF OriginChanges
<1>16. CASE SenderKilled
    <2>1. PICK cut \in {{}} \cup {{f} : f \in {g \in todo \ Listed : backend = "rclone"}} :
            /\ remote' = [f \in File |-> IF f \in cut THEN "short" ELSE remote[f]]
            /\ wrong' = wrong \ cut
        BY <1>16 DEF SenderKilled
    <2>2. remote' \in [File -> FileState] /\ wrong' \subseteq Tars
        BY <2>1
    <2> QED
        BY <1>16, <1>b, <2>2 DEF SenderKilled
<1>17. CASE DeleterKilled
    BY <1>17, <1>b DEF DeleterKilled
<1>18. CASE UNCHANGED vars
    BY <1>18 DEF vars
<1> QED
    BY <1>1, <1>2, <1>3, <1>4, <1>5, <1>6, <1>7, <1>8, <1>9, <1>10, <1>11,
       <1>12, <1>13, <1>14, <1>15, <1>16, <1>17, <1>18
    DEF Next, Step, StartPrune, StartFsck

\* Every variable keeps its type.
THEOREM TypeCorrect == Spec => []TypeOK
<1>1. Init => TypeInv
    BY DEF Init, TypeInv, TypeOK, FileState, Nothing, NothingLoaded
<1>2. TypeInv => TypeOK
    BY DEF TypeInv
<1> QED
    BY <1>1, <1>2, TypeStep, PTL DEF Spec

-----------------------------------------------------------------------------
(* The inductive invariant                                                 *)

\* A program that lists index files lists every file that is there.
LEMMA IndexListed ==
    ASSUME TypeOK, Points \cap Listed # {}
    PROVE  /\ backend = "rclone"
           /\ Listed = {f \in File : remote[f] = "stored"}
BY TarsAssumption, PlainAssumption DEF TypeOK, Listed, Listable

\* Commands that store keep what they know of their own files.
LEMMA StoreStep == IInv /\ [Next]_vars => StoreInv'
<1> SUFFICES ASSUME IInv, [Next]_vars PROVE StoreInv'
    OBVIOUS
<1> USE DEF IInv, TypeInv, StoreInv, places, storeVars, scanVars
<1>0. /\ remote \in [File -> FileState] /\ local \in [File -> FileState]
      /\ \A p \in Points : FilesOf(p) \subseteq File
    BY FilesTyped DEF TypeOK
<1>b. \A f : Sendable(f)' <=> Sendable(f)
    BY NamingStays
<1>1. CASE StartStore
    <2>0. PICK seen \in Listings : todo' = ToSend(FilesOf(origin) \ seen)
        BY <1>1 DEF StartStore
    <2>1. origin \in Points
        BY DEF TypeOK
    <2>2. /\ cmd' = "store" /\ pc' = "send" /\ target' = origin /\ remote' = remote
          /\ mishap' = mishap
        BY <1>1 DEF StartStore
    <2>3. ASSUME NEW f \in FilesOf(origin), Sendable(f)
          PROVE  f \in todo' \/ remote[f] = "stored"
        BY <2>0, <2>3, ToSendTyped, ListedTyped DEF Listings
    <2> QED
        BY <1>b, <2>1, <2>2, <2>3
<1>2. CASE StartPush
    <2>1. origin \in Points
        BY DEF TypeOK
    <2> QED
        BY <1>2, <2>1 DEF StartPush
<1>3. ASSUME NEW f \in File, StoreLocally(f) PROVE StoreInv'
    <2>1. cmd' = "push" /\ pc' = "local" /\ target' = target
        BY <1>3 DEF StoreLocally
    <2>2. clean' => clean /\ local' = [local EXCEPT ![f] = "stored"]
        BY <1>3 DEF StoreLocally
    <2>3. ASSUME clean', NEW g \in FilesOf(target) PROVE g \in todo' \/ local'[g] = "stored"
        <3>1. g \in File /\ (g \in todo \/ local[g] = "stored")
            BY <1>0, <1>3, <2>2, <2>3 DEF StoreLocally
        <3> QED
            BY <1>0, <1>3, <2>2, <2>3, <3>1 DEF StoreLocally
    <2> QED
        BY <2>1, <2>3
<1>4. CASE StartCopy
    <2>0. PICK seen \in Listings : todo' = ToSend(ToCopy(seen))
        BY <1>4 DEF StartCopy
    <2>1. /\ cmd' = "push" /\ pc' = "send" /\ target' = target /\ todo' \subseteq ToCopy(seen)
          /\ local' = local /\ remote' = remote
        BY <1>4, <2>0, ToSendTyped DEF StartCopy
    <2>2. ASSUME clean', NEW g \in FilesOf(target)
          PROVE  local[g] = "stored" /\ (Sendable(g) => g \in todo' \/ remote[g] = "stored")
        <3>1. g \in File /\ local[g] = "stored"
            BY <1>0, <1>4, <2>2 DEF StartCopy
        <3> QED
            BY <2>0, <3>1, ListedTyped, ToSendTyped DEF ToCopy, Listings
    <2>3. \A g \in todo' : local[g] # "absent"
        BY <2>1 DEF ToCopy
    <2> QED
        BY <1>b, <2>1, <2>2, <2>3
<1>5. ASSUME NEW f \in File, SendFile(f) PROVE StoreInv'
    <2>1. /\ cmd' = cmd /\ pc' = pc /\ pc = "send" /\ target' = target /\ clean' = clean
          /\ local' = local /\ todo' = todo \ {f}
        BY <1>5 DEF SendFile
    <2>2. ASSUME clean', ~mishap', NEW g \in FilesOf(target), Sendable(g)
          PROVE  g \in todo' \/ remote'[g] = "stored"
        <3>0. ~mishap
            BY <1>5, <2>2 DEF SendFile
        <3>1. g \in File /\ (g \in todo \/ remote[g] = "stored")
            BY <1>0, <2>1, <2>2, <3>0
        <3>2. CASE g = f
            <4>1. Contents(f).state = "stored"
                <5>1. CASE cmd = "store"
                    BY <5>1 DEF Contents
                <5>2. CASE cmd = "push"
                    <6>1. Contents(f).state = local[f]
                        BY <5>2 DEF Contents
                    <6> QED
                        BY <2>1, <2>2, <3>2, <5>2, <6>1
                <5> QED
                    BY <2>1, <5>1, <5>2
            <4> QED
                BY <1>0, <1>5, <3>2, <4>1 DEF SendFile
        <3>3. CASE g # f
            BY <1>0, <1>5, <3>1, <3>3 DEF SendFile
        <3> QED
            BY <3>2, <3>3
    <2> QED
        BY <1>b, <2>1, <2>2
<1>6. CASE \/ Decline \/ FinishScan \/ FinishStore \/ Crash
           \/ \E f \in File : SendBreaks(f)
    BY <1>6, ExitTyped DEF Decline, FinishScan, FinishStore, Crash, SendBreaks
<1>7. ASSUME NEW command \in {"prune", "fsck"}, StartScan(command) PROVE StoreInv'
    BY <1>7 DEF StartScan
<1>8. CASE LoadIndexes
    BY <1>8 DEF LoadIndexes, TypeOK
<1>9. CASE DecidePrune
    BY <1>9 DEF DecidePrune
<1>10. CASE DecideFsck
    BY <1>10 DEF DecideFsck
<1>11. ASSUME NEW f \in File, DeleteFile(f) PROVE StoreInv'
    BY <1>11 DEF DeleteFile
<1>12. CASE DeleteBroken
    BY <1>12 DEF DeleteBroken
<1>13. CASE OriginChanges
    BY <1>b, <1>13 DEF OriginChanges
<1>14. CASE SenderKilled
    BY <1>14 DEF SenderKilled
<1>15. CASE DeleterKilled \/ UNCHANGED vars
    BY <1>b, <1>15 DEF DeleterKilled, vars
<1> QED
    BY <1>1, <1>2, <1>3, <1>4, <1>5, <1>6, <1>7, <1>8, <1>9, <1>10, <1>11,
       <1>12, <1>13, <1>14, <1>15
    DEF Next, Step, StartPrune, StartFsck

\* A prune or fsck knows what is there, and what the index files it could read list.
LEMMA ScanStep == IInv /\ [Next]_vars => ScanInv'
<1> SUFFICES ASSUME IInv, [Next]_vars PROVE ScanInv'
    OBVIOUS
<1> USE DEF IInv, TypeInv, ScanInv, places, storeVars, scanVars
<1>b. backend' = backend /\ matches' = matches
    BY DEF Next, vars
<1>1. CASE StartStore
    BY <1>1 DEF StartStore, StoreInv
<1>2. CASE StartPush
    BY <1>2 DEF StartPush, StoreInv
<1>3. ASSUME NEW f \in File, StoreLocally(f) PROVE ScanInv'
    BY <1>3 DEF StoreLocally
<1>4. CASE StartCopy
    BY <1>4 DEF StartCopy
<1>5. ASSUME NEW f \in File, SendFile(f) PROVE ScanInv'
    BY <1>5 DEF SendFile
<1>6. CASE \/ Decline \/ FinishScan \/ FinishStore \/ Crash
           \/ \E f \in File : SendBreaks(f)
    BY <1>6, ExitTyped DEF Decline, FinishScan, FinishStore, Crash, SendBreaks
<1>7. ASSUME NEW command \in {"prune", "fsck"}, StartScan(command) PROVE ScanInv'
    <2>1. backend = "rclone"
        BY <1>7, IndexListed DEF StartScan, Listings
    <2>2. Listed' = Listed
        BY <1>7, <1>b DEF StartScan, Listed, Listable
    <2> QED
        BY <1>7, <1>b, <2>1, <2>2 DEF StartScan, StoreInv, Listings
<1>8. CASE LoadIndexes
    <2>1. Listed' = Listed
        BY <1>8, <1>b DEF LoadIndexes, Listed, Listable
    <2>2. \A p \in history : p \in Points
        BY DEF TypeOK
    <2>3. ASSUME NEW p \in history
          PROVE  /\ needs'[p] \subseteq TarsOf[p]
                 /\ p \notin unread' => needs'[p] = TarsOf[p]
        BY <1>8, <2>2 DEF LoadIndexes
    <2> QED
        BY <1>8, <1>b, <2>1, <2>3 DEF LoadIndexes
<1>9. CASE DecidePrune
    BY <1>9 DEF DecidePrune
<1>10. CASE DecideFsck
    BY <1>10 DEF DecideFsck
<1>11. ASSUME NEW f \in File, DeleteFile(f) PROVE ScanInv'
    BY <1>11 DEF DeleteFile
<1>12. CASE DeleteBroken
    BY <1>12 DEF DeleteBroken
<1>13. CASE OriginChanges
    BY <1>13, <1>b DEF OriginChanges, Listed, Listable
<1>14. CASE SenderKilled \/ DeleterKilled
    BY <1>14 DEF SenderKilled, DeleterKilled
<1>15. CASE UNCHANGED vars
    BY <1>15 DEF vars, Listed, Listable
<1> QED
    BY <1>1, <1>2, <1>3, <1>4, <1>5, <1>6, <1>7, <1>8, <1>9, <1>10, <1>11,
       <1>12, <1>13, <1>14, <1>15
    DEF Next, Step, StartPrune, StartFsck

\* What a prune deletes belongs to no promised point that it keeps.
LEMMA PruneSpares ==
    ASSUME IInv, DecidePrune, ~mishap', NEW p \in promised', Harmless(p)
    PROVE  FilesOf(p) \cap todo' = {}
<1> USE DEF IInv, TypeInv
<1>1. PICK keep \in SUBSET history :
        /\ todo' = ToDelete(listed \ Required(keep))
        /\ promised' = promised \ (history \ keep)
        /\ mishap' = (mishap \/ Mishaps(keep, listed \ Required(keep)))
    BY DEF DecidePrune
<1>2. ~mishap /\ p \in promised /\ p \in Points
    BY <1>1 DEF TypeOK
<1>3. \A f \in FilesOf(p) : f \in File /\ Alone(f) /\ remote[f] = "stored"
    BY <1>2, FilesTyped DEF PromisedIsThere, Harmless
<1>4. listed \ Required(keep) \subseteq File
    BY DEF TypeOK
<1>5. FilesOf(p) \cap (listed \ Required(keep)) = {}
    <2> SUFFICES ASSUME listed \ Required(keep) # {}
                 PROVE  FilesOf(p) \cap (listed \ Required(keep)) = {}
        OBVIOUS
    <2>0. listed = Listed
        BY <1>1 DEF Mishaps
    <2>1. p \in Listed
        BY <1>2, <1>3, FilesTyped DEF DecidePrune, ScanInv, Listed, Listable
    <2>2. p \in history
        BY <1>2, <2>0, <2>1 DEF DecidePrune, ScanInv
    <2>3. p \in keep /\ p \notin unread
        BY <1>1, <2>2 DEF Mishaps
    <2>4. needs[p] = TarsOf[p]
        BY <2>2, <2>3 DEF DecidePrune, ScanInv
    <2>5. FilesOf(p) \subseteq Required(keep)
        BY <2>3, <2>4 DEF FilesOf, Required
    <2> QED
        BY <2>5
<1> QED
    BY <1>1, <1>3, <1>4, <1>5, ToDeleteTyped

\* What a fsck deletes first belongs to no promised point, and no such point is
\* broken.
LEMMA FsckSpares ==
    ASSUME IInv, DecideFsck, ~mishap', NEW p \in promised, Harmless(p)
    PROVE  FilesOf(p) \cap todo' = {} /\ p \notin broken'
<1> USE DEF IInv, TypeInv
<1>1. PICK files \in {{}, listed \ Required(history)} :
        /\ todo' = ToDelete(files)
        /\ mishap' = (mishap \/ Mishaps(history, files) \/ Mishaps({}, BrokenPoints))
    BY DEF DecideFsck
<1>2. ~mishap /\ p \in Points
    BY <1>1 DEF TypeOK
<1>3. ASSUME listed = Listed
      PROVE  p \in history /\ FilesOf(p) \subseteq listed
    <2>1. \A f \in FilesOf(p) : f \in File /\ remote[f] = "stored"
        BY <1>2, FilesTyped DEF PromisedIsThere, Harmless
    <2>2. FilesOf(p) \subseteq listed
        BY <1>3, <2>1 DEF DecideFsck, ScanInv, Listed, Listable
    <2> QED
        BY <1>2, <2>2, FilesTyped DEF DecideFsck, ScanInv
<1>4. p \notin BrokenPoints
    <2> SUFFICES ASSUME p \in BrokenPoints PROVE FALSE
        OBVIOUS
    <2>1. listed = Listed
        BY <1>1 DEF Mishaps, DecideFsck
    <2> QED
        BY <1>3, <2>1 DEF BrokenPoints, Required, FilesOf, DecideFsck, ScanInv
<1>5. FilesOf(p) \cap files = {}
    <2> SUFFICES ASSUME files # {} PROVE FilesOf(p) \cap files = {}
        OBVIOUS
    <2>1. listed = Listed /\ history \cap unread = {}
        BY <1>1 DEF Mishaps
    <2>2. p \in history /\ p \notin unread
        BY <1>3, <2>1
    <2>3. FilesOf(p) \subseteq Required(history)
        BY <2>2 DEF FilesOf, Required, DecideFsck, ScanInv
    <2> QED
        BY <1>1, <2>3
<1>6. FilesOf(p) \cap todo' = {}
    <2>1. files \subseteq File
        BY DEF TypeOK
    <2> QED
        BY <1>1, <1>2, <1>5, <2>1, ToDeleteTyped, FilesTyped DEF Harmless
<1> QED
    BY <1>4, <1>6 DEF DecideFsck

\* The points a fsck reports as OK, if it could read them, have all their files,
\* and it deletes none of them that stands alone.
LEMMA FsckKnows ==
    ASSUME IInv, DecideFsck
    PROVE  /\ verdict' \cap broken' = {}
           /\ \A p \in verdict' \ unread : \A f \in FilesOf(p) :
                  Alone(f) => f \notin todo' /\ remote[f] = "stored"
<1> USE DEF IInv, TypeInv
<1>1. verdict' = history \ BrokenPoints /\ broken' = BrokenPoints
    BY DEF DecideFsck
<1>2. ASSUME NEW p \in verdict' \ unread, NEW f \in FilesOf(p), Alone(f)
      PROVE  f \notin todo' /\ remote[f] = "stored"
    <2>1. p \in history /\ p \in Points /\ needs[p] = TarsOf[p]
        BY <1>1, <1>2 DEF DecideFsck, ScanInv, TypeOK
    <2>2. Required({p}) \subseteq listed
        BY <1>1, <1>2 DEF BrokenPoints
    <2>3. f \in Required({p})
        BY <1>2, <2>1 DEF FilesOf, Required
    <2>4. f \in Required(history) /\ f \in File
        BY <1>2, <2>1, FilesTyped DEF FilesOf, Required
    <2>5. f \notin todo'
        <3>1. PICK files \in {{}, listed \ Required(history)} : todo' = ToDelete(files)
            BY DEF DecideFsck
        <3>2. files \subseteq File
            BY DEF TypeOK
        <3> QED
            BY <1>2, <2>4, <3>1, <3>2, ToDeleteTyped
    <2>6. remote[f] = "stored"
        BY <2>2, <2>3, ListedTyped DEF DecideFsck, ScanInv
    <2> QED
        BY <2>5, <2>6
<1> QED
    BY <1>1, <1>2

\* What is deleted stays clear of promised points, and of those reported as OK.
LEMMA DeleteStep == IInv /\ [Next]_vars => DeleteInv'
<1> SUFFICES ASSUME IInv, [Next]_vars, pc' = "delete" PROVE DeleteInv'
    BY DEF DeleteInv
<1> USE DEF IInv, TypeInv, DeleteInv, places, storeVars, scanVars
<1>n. /\ \A f : Alone(f)' <=> Alone(f)
      /\ \A p : Harmless(p)' <=> Harmless(p)
    BY NamingStays
<1>f. \A p : FilesOf(p)' = FilesOf(p)
    BY DEF FilesOf
<1>1. CASE DecidePrune
    <2>1. cmd' = "prune" /\ broken' = {}
        BY <1>1 DEF DecidePrune, ScanInv
    <2> QED
        BY <1>1, <1>n, <1>f, <2>1, PruneSpares
<1>2. CASE DecideFsck
    <2>1. unread' = unread /\ remote' = remote /\ promised' = promised
        BY <1>2 DEF DecideFsck
    <2> QED
        BY <1>2, <1>n, <1>f, <2>1, FsckSpares, FsckKnows
<1>3. ASSUME NEW f \in File, DeleteFile(f) PROVE DeleteInv'
    <2>1. /\ pc = "delete" /\ todo' = todo \ {f} /\ f \in todo
          /\ UNCHANGED <<cmd, scanVars, promised, mishap>>
        BY <1>3 DEF DeleteFile
    <2>2. ASSUME cmd = "fsck", NEW p \in verdict \ unread, NEW g \in FilesOf(p), Alone(g)
          PROVE  g \notin todo' /\ remote'[g] = "stored"
        <3>1. g # f /\ g \notin todo /\ remote[g] = "stored" /\ p \in Points
            BY <2>1, <2>2 DEF TypeOK
        <3> QED
            BY <1>3, <2>1, <3>1, FilesTyped DEF DeleteFile, TypeOK
    <2>3. ~mishap => \A p \in promised :
                       Harmless(p) => FilesOf(p) \cap todo' = {} /\ p \notin broken
        BY <2>1
    <2> QED
        BY <1>n, <1>f, <2>1, <2>2, <2>3
<1>4. CASE DeleteBroken
    <2>1. /\ pc = "delete" /\ todo' = ToDelete(broken) /\ broken' = {}
          /\ UNCHANGED <<cmd, remote, verdict, unread, promised, mishap>>
        BY <1>4 DEF DeleteBroken
    <2>2. broken \subseteq Points /\ promised \subseteq Points /\ verdict \subseteq Points
        BY DEF TypeOK
    <2>3. \A p \in Points : p \notin broken => FilesOf(p) \subseteq File /\ FilesOf(p) \cap broken = {}
        BY <2>2, FilesTyped
    <2>4. \A p \in Points : p \notin broken =>
              \A f \in FilesOf(p) : Alone(f) => f \notin ToDelete(broken)
        BY <2>2, <2>3, ToDeleteTyped DEF File
    <2> QED
        BY <1>n, <1>f, <2>1, <2>2, <2>4 DEF Harmless
<1>5. CASE OriginChanges
    BY <1>5, <1>n, <1>f DEF OriginChanges
<1>6. CASE UNCHANGED vars
    BY <1>6, <1>n, <1>f DEF vars
<1>7. CASE \/ StartStore \/ StartPush \/ StartCopy \/ LoadIndexes \/ SenderKilled
           \/ \E command \in {"prune", "fsck"} : StartScan(command)
           \/ \E f \in File : StoreLocally(f) \/ SendFile(f)
    BY <1>7 DEF SenderKilled, StartStore, StartPush, StartCopy, LoadIndexes, StartScan, StoreLocally, SendFile
<1>8. CASE \/ Decline \/ FinishScan \/ FinishStore \/ Crash
           \/ \E f \in File : SendBreaks(f)
    BY <1>8, ExitTyped DEF Decline, FinishScan, FinishStore, Crash, SendBreaks
<1>9. CASE DeleterKilled
    BY <1>9, <1>n, <1>f DEF DeleterKilled
<1> QED
    BY <1>1, <1>2, <1>3, <1>4, <1>5, <1>6, <1>7, <1>8, <1>9 DEF Next, Step, StartPrune, StartFsck

\* A promise is made for a point whose files are all there, and none is broken.
LEMMA PromiseStep == IInv /\ [Next]_vars => PromisedIsThere'
<1> SUFFICES ASSUME IInv, [Next]_vars, ~mishap',
                    NEW p \in promised', Harmless(p), NEW f \in FilesOf(p)
             PROVE  remote'[f] = "stored"
    BY NamingStays DEF PromisedIsThere, FilesOf
<1> USE DEF IInv, TypeInv, PromisedIsThere, places, storeVars, scanVars
<1>t. remote \in [File -> FileState]
    BY DEF TypeOK
<1>1. ASSUME NEW g \in File, SendFile(g) PROVE remote'[f] = "stored"
    <2>1. ~mishap /\ p \in promised /\ p \in Points /\ f \in File /\ remote[f] = "stored"
        BY <1>1, FilesTyped DEF SendFile, TypeOK
    <2>2. CASE g = f
        <3>1. Contents(f).state # "short"
            BY <1>1, <2>1, <2>2 DEF SendFile
        <3>2. Contents(f).state # "absent"
            <4>1. CASE cmd = "store"
                BY <4>1 DEF Contents
            <4>2. CASE cmd = "push"
                BY <1>1, <2>2, <4>2 DEF Contents, SendFile, StoreInv
            <4> QED
                BY <1>1, <4>1, <4>2 DEF SendFile, StoreInv
        <3>3. Contents(f).state \in FileState
            BY <2>1, ContentsTyped
        <3> QED
            BY <1>1, <1>t, <2>1, <2>2, <3>1, <3>2, <3>3 DEF SendFile, FileState
    <2>3. CASE g # f
        BY <1>1, <1>t, <2>1, <2>3 DEF SendFile
    <2> QED
        BY <2>2, <2>3
<1>2. ASSUME NEW g \in File, SendBreaks(g) PROVE remote'[f] = "stored"
    <2>1. ~mishap /\ p \in promised /\ p \in Points /\ f \in File /\ remote[f] = "stored"
        BY <1>2, FilesTyped DEF SendBreaks, TypeOK
    <2>2. g # f
        BY <1>2, <2>1 DEF SendBreaks, Listed, Listable
    <2> QED
        BY <1>2, <1>t, <2>1, <2>2 DEF SendBreaks
<1>3. CASE FinishStore
    <2>1. remote' = remote /\ ~mishap /\ pc = "send" /\ todo = {}
        BY <1>3 DEF FinishStore
    <2>2. CASE p \in promised
        BY <2>1, <2>2
    <2>3. CASE p \notin promised
        <3>1. clean /\ p = target
            BY <1>3, <2>3 DEF FinishStore
        <3> QED
            BY <2>1, <3>1 DEF StoreInv, Harmless
    <2> QED
        BY <2>2, <2>3
<1>4. ASSUME NEW g \in File, DeleteFile(g) PROVE remote'[f] = "stored"
    <2>1. ~mishap /\ p \in promised /\ p \in Points /\ f \in File /\ remote[f] = "stored"
        BY <1>4, FilesTyped DEF DeleteFile, TypeOK
    <2>2. g # f
        BY <1>4, <2>1 DEF DeleteFile, DeleteInv
    <2> QED
        BY <1>4, <1>t, <2>1, <2>2 DEF DeleteFile
<1>5. CASE DecidePrune
    BY <1>5 DEF DecidePrune
<1>6. CASE DecideFsck
    BY <1>6 DEF DecideFsck
<1>7. CASE \/ StartStore \/ StartPush \/ StartCopy \/ LoadIndexes
           \/ \E command \in {"prune", "fsck"} : StartScan(command)
           \/ \E g \in File : StoreLocally(g)
    BY <1>7 DEF StartStore, StartPush, StartCopy, LoadIndexes, StartScan, StoreLocally
<1>8. CASE \/ Decline \/ FinishScan \/ Crash \/ DeleteBroken \/ OriginChanges
           \/ SenderKilled \/ DeleterKilled \/ UNCHANGED vars
    BY <1>8 DEF SenderKilled, DeleterKilled, Decline, FinishScan, Crash, DeleteBroken, OriginChanges, vars
<1> QED
    BY <1>1, <1>2, <1>3, <1>4, <1>5, <1>6, <1>7, <1>8 DEF Next, Step, StartPrune, StartFsck

\* The invariant holds from the start, and every step keeps it.
LEMMA Invariance == Spec => []IInv
<1>1. Init => IInv
    <2> SUFFICES ASSUME Init PROVE IInv
        OBVIOUS
    <2>1. TypeInv
        BY DEF Init, TypeInv, TypeOK, FileState, Nothing, NothingLoaded
    <2> QED
        BY <2>1 DEF Init, IInv, PromisedIsThere, StoreInv, ScanInv, DeleteInv
<1>2. IInv /\ [Next]_vars => IInv'
    <2>1. IInv => TypeInv
        BY DEF IInv
    <2> QED
        BY <2>1, TypeStep, StoreStep, ScanStep, DeleteStep, PromiseStep DEF IInv
<1> QED
    BY <1>1, <1>2, PTL DEF Spec

-----------------------------------------------------------------------------
(* What follows                                                            *)

\* A backup that a store or push reported without a complaint is on the remote,
\* file by file, until a prune discards it, through crashes, lost connections and
\* an external program that sends and deletes in its own order and takes names for
\* patterns: if they match what the backup requires (Harmless).
THEOREM PromiseKept == Spec => []PromisedIsThere
<1>1. IInv => PromisedIsThere
    BY DEF IInv
<1> QED
    BY <1>1, Invariance, PTL

\* What a fsck could read and lists as OK has all its files, whole, at that moment,
\* and through all its deletions those that no other file's pattern matches (Alone).
THEOREM FsckTellsTheTruth == Spec => []FsckOkMeansStored
<1>1. IInv => FsckOkMeansStored
    BY DEF IInv, DeleteInv, FsckOkMeansStored
<1> QED
    BY <1>1, Invariance, PTL

\* A push makes no file of the remote wrong that is right in the local storage,
\* whatever happens to the origin meanwhile.
THEOREM PushCopiesLocal == Spec => CopyIsLocal
<1>1. [Next]_vars => [cmd = "push" /\ pc = "send" => wrong' \ wrong \subseteq wrongHere]_vars
    <2> SUFFICES ASSUME [Next]_vars, cmd = "push", pc = "send"
                 PROVE  wrong' \ wrong \subseteq wrongHere
        OBVIOUS
    <2> USE DEF places, scanVars, storeVars
    <2>1. ASSUME NEW f \in File, SendFile(f) PROVE wrong' \ wrong \subseteq wrongHere
        <3>1. Contents(f).wrong <=> f \in wrongHere
            BY DEF Contents
        <3> QED
            BY <2>1, <3>1 DEF SendFile
    <2>2. ASSUME NEW f \in File, SendBreaks(f) PROVE wrong' \ wrong \subseteq wrongHere
        BY <2>2 DEF SendBreaks
    <2>3. CASE FinishStore \/ OriginChanges \/ Crash \/ SenderKilled \/ UNCHANGED vars
        BY <2>3 DEF SenderKilled, FinishStore, OriginChanges, Crash, vars
    <2> QED
        BY <2>1, <2>2, <2>3
        DEF Next, Step, StartStore, StartPush, StartPrune, StartFsck, StartScan, StoreLocally,
            StartCopy, LoadIndexes, DecidePrune, DecideFsck, Decline, DeleteFile, DeleteBroken,
            DeleterKilled, FinishScan
<1> QED
    BY <1>1, PTL DEF Spec, CopyIsLocal

=============================================================================
