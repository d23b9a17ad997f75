--------------------------- MODULE RemoteStorage ---------------------------
(***************************************************************************)
(* A storage that beak reaches with rclone or rsync only: it lists the     *)
(* names and sizes of the files there, has that program send, fetch and    *)
(* delete files in an order of its own, and reads what it has fetched into *)
(* a cache directory.  A store sends the backup of the origin to it; a     *)
(* push first stores in a local storage directory and then sends that.     *)
(* One command runs at a time; it may die at any step.  So may the program *)
(* it has started; if a signal kills that, its work counts as done.        *)
(***************************************************************************)
EXTENDS Integers, FiniteSets

CONSTANTS
    Points,  \* the points in time of the origin, named by their root index files
    Tars,    \* the other files, each identified with its content
    TarsOf,  \* point -> the files its index file lists
    Plain,   \* the tars that are not padded, outside of any sub-directory
    Namings, \* the ways the files may be named, see matches
    None

ASSUME PointsAssumption == Points \subseteq Nat /\ Points # {}
File == Points \cup Tars

ASSUME TarsAssumption == Points \cap Tars = {} /\ TarsOf \in [Points -> SUBSET Tars]
ASSUME PlainAssumption == Plain \subseteq Tars
\* A path is not a pattern for itself if a directory in it is named with brackets
\* or braces.  As a pattern it has no anchor: it also matches what has the same
\* name further down.  Nothing but its own name matches an index file at the root.
ASSUME NamingsAssumption ==
    /\ Namings \subseteq [File -> SUBSET File]
    /\ \A m \in Namings, p \in Points, f \in File : p \in m[f] <=> f = p
ASSUME NoneAssumption == None \notin Points

FilesOf(p) == {p} \cup TarsOf[p]

VARIABLES
    backend, \* the program that reaches the storage
    matches, \* file -> the files that its path matches when rclone reads it as a pattern
    remote,   \* file -> how much of it is in the remote storage
    local,    \* file -> how much of it is in the local storage of the rule
    cache,   \* the points whose index files are in the cache directory, as listed
    wrong,    \* the files of the remote that are not what their names say
    wrongHere,\* the files of the local storage that are not
    origin,   \* the point in time the origin is at
    cmd, pc,
    target,   \* the point in time that is stored
    listed,   \* the files that were there when the command listed them
    todo,     \* the files to store, to send or to delete
    history,  \* the points in time found
    needs,    \* point -> what was read from its index file
    unread,   \* the points whose index file could not be read
    verdict,  \* the points kept, or reported as OK
    broken,   \* the index files a fsck wants to delete
    clean,    \* the files of the store are written, and the origin is as it was
    promised, \* history: stored without a complaint and not pruned since
    mishap    \* history: see Mishaps

places == <<remote, local, cache, wrong, wrongHere>>
storeVars == <<target, clean>>
scanVars == <<history, needs, unread, verdict, broken>>
vars == <<backend, matches, places, origin, cmd, pc, listed, todo, storeVars, scanVars, promised, mishap>>

FileState == {"absent", "short", "stored"}

Nothing == [f \in File |-> "absent"]
NothingLoaded == [p \in Points |-> {}]

Init ==
    /\ backend \in {"rclone", "rsync"}
    /\ matches \in Namings
    /\ remote = Nothing /\ local = Nothing
    /\ cache = {}
    /\ wrong = {} /\ wrongHere = {}
    /\ origin \in Points
    /\ cmd = "idle" /\ pc = "idle"
    /\ target = None /\ clean = TRUE
    /\ listed = {} /\ todo = {}
    /\ history = {} /\ needs = NothingLoaded /\ unread = {} /\ verdict = {} /\ broken = {}
    /\ promised = {} /\ mishap = FALSE

\* The command ends or dies.
Exit ==
    /\ cmd' = "idle" /\ pc' = "idle"
    /\ target' = None /\ clean' = TRUE
    /\ listed' = {} /\ todo' = {}
    /\ history' = {} /\ needs' = NothingLoaded /\ unread' = {} /\ verdict' = {} /\ broken' = {}

Crash ==
    /\ cmd # "idle"
    /\ Exit
    /\ UNCHANGED <<places, origin, promised, mishap>>

OriginChanges ==
    /\ \E p \in Points : p > origin /\ origin' = p
    /\ UNCHANGED <<places, cmd, pc, listed, todo, storeVars, scanVars, promised, mishap>>

\* With rsync a tar is listed at the root wherever it is, if it is as large as its
\* content.  An index file is if its name says that it is empty; none does.
Listable == IF backend = "rclone" THEN File ELSE Plain

\* The size of a file is in its name, and a file of another size is not listed.
\* Mutant: whatever has the name is.
ListedByName == {f \in Listable : remote[f] # "absent"}
Listed == {f \in Listable : remote[f] = "stored"}

\* The listing is cut short if a signal kills the program that prints it.
Listings == SUBSET Listed

\* rclone is given the paths of the files as patterns to include.  It sends and
\* deletes what matches one of them, and no match is no error.  What else matches
\* when it sends was listed with the size it has here, and is passed over.
Matched(files) == UNION {matches[f] : f \in files}

ToSend(files) == IF backend = "rclone" THEN files \cap Matched(files) ELSE files

\* There is no deletion with rsync.
ToDelete(files) ==
    IF backend = "rclone" THEN {f \in Matched(files) : remote[f] # "absent"} ELSE {}

-----------------------------------------------------------------------------
(* Storing                                                                 *)

\* The tars that the origin does not give any more.  The index file is held in
\* memory since the scan.
FalseNow(files) == {f \in files \cap Tars : f \notin FilesOf(origin)}

StartStore ==
    /\ cmd = "idle"
    /\ cmd' = "store" /\ pc' = "send"
    /\ target' = origin
    /\ \E seen \in Listings : todo' = ToSend(FilesOf(origin) \ seen)
    /\ UNCHANGED <<places, origin, listed, clean, scanVars, promised, mishap>>

StartPush ==
    /\ cmd = "idle"
    /\ cmd' = "push" /\ pc' = "local"
    /\ target' = origin
    /\ todo' = {f \in FilesOf(origin) : local[f] # "stored"}
    /\ UNCHANGED <<places, origin, listed, clean, scanVars, promised, mishap>>

\* A file of the local storage is written as a whole, or the disk is full or the
\* command is killed; then the store goes on, or it does not (Crash).
StoreLocally(f) ==
    /\ pc = "local" /\ f \in todo
    /\ todo' = todo \ {f}
    /\ \/ /\ local' = [local EXCEPT ![f] = "stored"]
          /\ wrongHere' = (wrongHere \ {f}) \cup FalseNow({f})
          /\ UNCHANGED clean
       \/ /\ local' = [local EXCEPT ![f] = "short"]
          /\ wrongHere' = wrongHere \ {f}
          /\ clean' = FALSE
    /\ UNCHANGED <<remote, cache, wrong, origin, cmd, pc, target, listed, scanVars, promised, mishap>>

\* Whatever became of it, everything in the local storage that is not listed
\* with the size it has here is sent.
ToCopy(seen) == {f \in File : local[f] # "absent" /\ ~(f \in seen /\ local[f] = "stored")}

StartCopy ==
    /\ pc = "local" /\ todo = {}
    /\ pc' = "send"
    /\ clean' = (clean /\ origin = target)
    /\ \E seen \in Listings : todo' = ToSend(ToCopy(seen))
    /\ UNCHANGED <<places, origin, cmd, target, listed, scanVars, promised, mishap>>

\* Mutant: the copy is made of the backup that was scanned.
ContentsFromOrigin(f) == [state |-> "stored", wrong |-> f \in FalseNow({f})]

\* A store has the external program read the backup itself, whose tars are made
\* from the origin at that moment; a push has it read the local storage.
Contents(f) ==
    IF cmd = "store" THEN [state |-> "stored", wrong |-> f \in FalseNow({f})]
    ELSE [state |-> local[f], wrong |-> f \in wrongHere]

\* rsync leaves a file alone that has the size and time of the one to send.
PassedOver(f) == backend = "rsync" /\ remote[f] = "stored" /\ Contents(f).state = "stored"

\* In any order.
SendFile(f) ==
    /\ pc = "send" /\ f \in todo
    /\ remote' = [remote EXCEPT ![f] = Contents(f).state]
    /\ wrong' = IF PassedOver(f) THEN wrong
                ELSE IF Contents(f).wrong THEN wrong \cup {f} ELSE wrong \ {f}
    /\ mishap' = (mishap \/ (remote[f] = "stored" /\ Contents(f).state = "short"))
    /\ todo' = todo \ {f}
    /\ UNCHANGED <<local, cache, wrongHere, origin, cmd, pc, listed, storeVars, scanVars, promised>>

\* The connection is lost in the middle of a file that was not there; rsync would
\* remove the part it has sent.  The error that the program reports ends the
\* command.
SendBreaks(f) ==
    /\ backend = "rclone"
    /\ pc = "send" /\ f \in todo \ Listed
    /\ remote' = [remote EXCEPT ![f] = "short"]
    /\ wrong' = wrong \ {f}
    /\ Exit
    /\ UNCHANGED <<local, cache, wrongHere, origin, promised, mishap>>

\* A signal kills the program, perhaps in the middle of a file.  Only an exit code
\* is an error for the command, which goes on as if all was sent.
SenderKilled ==
    /\ pc = "send" /\ todo # {}
    /\ \E cut \in {{}} \cup {{f} : f \in {g \in todo \ Listed : backend = "rclone"}} :
         /\ remote' = [f \in File |-> IF f \in cut THEN "short" ELSE remote[f]]
         /\ wrong' = wrong \ cut
    /\ todo' = {}
    /\ mishap' = TRUE
    /\ UNCHANGED <<local, cache, wrongHere, origin, cmd, pc, listed, storeVars, scanVars, promised>>

\* A store compares the origin at its end, a push did before it copied.
FinishStore ==
    /\ pc = "send" /\ todo = {}
    /\ promised' = IF clean /\ (cmd = "store" => origin = target)
                   THEN promised \cup {target} ELSE promised
    /\ Exit
    /\ UNCHANGED <<places, origin, mishap>>

-----------------------------------------------------------------------------
(* The cache, and the commands that read the storage through it            *)

\* A file in the cache that is not of the size and time listed is fetched, and the
\* external program may end before it is.
Fetched(files) == {cache \cup got : got \in SUBSET files}

\* The files are listed, and the index files that the cache does not have are
\* fetched; how that went is not looked at.  Without an index file in the
\* listing the command exits at once.
StartScan(command) ==
    /\ cmd = "idle"
    /\ listed' \in Listings
    /\ history' = Points \cap listed' /\ history' # {}
    /\ cmd' = command /\ pc' = "load"
    /\ cache' \in Fetched(history')
    /\ UNCHANGED <<remote, local, wrong, wrongHere, origin, todo, storeVars, needs, unread,
                   verdict, broken, promised, mishap>>

StartPrune == StartScan("prune")
StartFsck == StartScan("fsck")

\* Every index file is read; one that is not in the cache is fetched once more.
\* If that is in vain, this is logged, and the point lists no tars.
LoadIndexes ==
    /\ pc = "load"
    /\ cache' \in Fetched(history)
    /\ unread' = history \ cache'
    /\ needs' = [p \in Points |-> IF p \in history \cap cache' THEN TarsOf[p] ELSE {}]
    /\ pc' = "decide"
    /\ UNCHANGED <<remote, local, wrong, wrongHere, origin, cmd, listed, todo, storeVars, history,
                   verdict, broken, promised, mishap>>

Required(points) == points \cup UNION {needs[p] : p \in points}

Newest(points) == CHOOSE p \in points : \A q \in points : q <= p

\* Files are deleted although the listing was cut short, or a point is kept whose
\* index file could not be read and that may need them.
Mishaps(keep, files) == files # {} /\ (listed # Listed \/ keep \cap unread # {})

DecidePrune ==
    /\ cmd = "prune" /\ pc = "decide"
    /\ \E keep \in SUBSET history :
         /\ Newest(history) \in keep
         /\ verdict' = keep
         /\ todo' = ToDelete(listed \ Required(keep))
         /\ promised' = promised \ (history \ keep)
         /\ mishap' = (mishap \/ Mishaps(keep, listed \ Required(keep)))
    /\ pc' = "delete"
    /\ UNCHANGED <<places, origin, cmd, listed, storeVars, history, needs, unread, broken>>

\* The user says no, or there is nothing to delete.
Decline ==
    /\ pc = "decide"
    /\ Exit
    /\ UNCHANGED <<places, origin, promised, mishap>>

BrokenPoints == {p \in history : ~(Required({p}) \subseteq listed)}

\* The superfluous files are deleted if the user agrees, then the index files of
\* the broken points.
DecideFsck ==
    /\ cmd = "fsck" /\ pc = "decide"
    /\ broken' = BrokenPoints
    /\ verdict' = history \ BrokenPoints
    /\ \E files \in {{}, listed \ Required(history)} :
         /\ todo' = ToDelete(files)
         /\ mishap' = (mishap \/ Mishaps(history, files) \/ Mishaps({}, BrokenPoints))
    /\ pc' = "delete"
    /\ UNCHANGED <<places, origin, cmd, listed, storeVars, history, needs, unread, promised>>

\* In any order.
DeleteFile(f) ==
    /\ pc = "delete" /\ f \in todo
    /\ remote' = [remote EXCEPT ![f] = "absent"]
    /\ wrong' = wrong \ {f}
    /\ todo' = todo \ {f}
    /\ UNCHANGED <<local, cache, wrongHere, origin, cmd, pc, listed, storeVars, scanVars,
                   promised, mishap>>

\* As SenderKilled.
DeleterKilled ==
    /\ pc = "delete" /\ todo # {}
    /\ todo' = {}
    /\ UNCHANGED <<places, origin, cmd, pc, listed, storeVars, scanVars, promised, mishap>>

DeleteBroken ==
    /\ pc = "delete" /\ todo = {} /\ broken # {}
    /\ todo' = ToDelete(broken) /\ broken' = {}
    /\ UNCHANGED <<places, origin, cmd, pc, listed, storeVars, history, needs, unread, verdict,
                   promised, mishap>>

FinishScan ==
    /\ pc = "delete" /\ todo = {}
    /\ Exit
    /\ UNCHANGED <<places, origin, promised, mishap>>

-----------------------------------------------------------------------------

Step ==
    \/ StartStore \/ StartPush \/ StartCopy \/ FinishStore
    \/ \E f \in File : StoreLocally(f) \/ SendFile(f) \/ SendBreaks(f) \/ DeleteFile(f)
    \/ StartPrune \/ StartFsck \/ LoadIndexes
    \/ DecidePrune \/ DecideFsck \/ Decline \/ DeleteBroken \/ FinishScan
    \/ OriginChanges \/ Crash \/ SenderKilled \/ DeleterKilled

Next == Step /\ UNCHANGED <<backend, matches>>

Spec == Init /\ [][Next]_vars

-----------------------------------------------------------------------------
(* Properties                                                              *)

\* The variables have their types.
TypeOK ==
    /\ backend \in {"rclone", "rsync"}
    /\ matches \in Namings
    /\ remote \in [File -> FileState]
    /\ local \in [File -> FileState]
    /\ cache \subseteq Points
    /\ wrong \subseteq Tars /\ wrongHere \subseteq Tars
    /\ origin \in Points
    /\ cmd \in {"idle", "store", "push", "prune", "fsck"}
    /\ pc \in {"idle", "local", "send", "load", "decide", "delete"}
    /\ target \in Points \cup {None}
    /\ clean \in BOOLEAN /\ mishap \in BOOLEAN
    /\ listed \subseteq File /\ todo \subseteq File
    /\ history \subseteq Points /\ unread \subseteq Points
    /\ verdict \subseteq Points /\ broken \subseteq Points
    /\ needs \in [Points -> SUBSET Tars]
    /\ promised \subseteq Points

\* rclone sends the file when it is told to, and deletes it for no other file's sake.
Sendable(f) == backend = "rclone" => f \in matches[f]
Alone(f) == backend = "rclone" => \A g \in File \ {f} : f \notin matches[g]
Harmless(p) == \A f \in FilesOf(p) : Sendable(f) /\ Alone(f)

\* A backup that a store or push reported without a complaint is on the remote,
\* file by file, until a prune discards it: no later interrupted store, no prune
\* and no fsck takes a file of it away.  It is about the backups whose paths are
\* patterns of themselves, and of which no other path is a pattern; neither the
\* store nor the prune looks for others.  Three mishaps are out of this: a prune or
\* fsck that deletes files although it could not read the index file of a point
\* it keeps, or was given a listing that was cut short, a push that replaces a file by a local
\* one it failed to write, and a sender that was killed by a signal.
PromisedIsThere ==
    ~mishap => \A p \in promised :
        Harmless(p) => \A f \in FilesOf(p) : remote[f] = "stored"

\* "Local backup copy is now complete.  It is now safe to work in your origin
\* directory" (beak_push.cc): however the origin changes while a push copies, a
\* file is as right on the remote as it is in the local storage.
CopyIsLocal ==
    [][cmd = "push" /\ pc = "send" => wrong' \ wrong \subseteq wrongHere]_vars

\* A point whose index file a fsck could read, and that it lists as OK, has all
\* its files on the remote, none too short, except those that match the path of a
\* superfluous file, which the same fsck may delete with it: a listing gives the files of the
\* right size only, where a fsck of a local storage sees names.
FsckOkMeansStored ==
    cmd = "fsck" /\ pc = "delete" =>
        \A p \in verdict \ unread : \A f \in FilesOf(p) :
            Alone(f) => remote[f] = "stored"

\* "You can of course use store, beak will either store locally or invoke rclone
\* or rsync" (README.md): what a store reported without a complaint can be found
\* again.
StoredIsFound ==
    ~mishap => promised \subseteq Listed

\* What a prune prints, "only delete ... of superfluous data", or the points it
\* does not keep: of a point that it keeps it deletes no file, if it was whole.
PruneKeepsWhatItKeeps ==
    [][cmd = "prune" /\ pc = "delete" =>
         \A p \in verdict : (\A f \in FilesOf(p) : remote[f] = "stored")
                              => (\A f \in FilesOf(p) : remote'[f] = "stored")]_vars

=============================================================================
