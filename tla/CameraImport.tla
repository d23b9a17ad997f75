---------------------------- MODULE CameraImport ----------------------------
(***************************************************************************)
(* beak-media camera: new photos are listed on a phone, fetched into a     *)
(* cache directory one by one through the client program aft-mtp-cli, and  *)
(* the cache is imported into an archive, where a photo's name is made     *)
(* from its date, size and metadata.  The phone may be unplugged and       *)
(* plugged in, its user takes and deletes photos, the client may be killed *)
(* by a signal or fail for as long as it likes, the archive's disk may be  *)
(* full, and beak may crash, at any time; the next run starts from the     *)
(* cache and the archive as they are.                                      *)
(*                                                                         *)
(* A file is a photo, or a part of it that a broken transfer left; in the  *)
(* archive it is stamped with the photo's time once it is written.  The    *)
(* number by which the phone knows a photo is never used again.            *)
(***************************************************************************)
EXTENDS Integers, FiniteSets

CONSTANTS
    Photos,
    Name,        \* photo -> its file name on the phone
    Size, Suffix,
    Media,       \* the suffixes that are known
    Videos,      \* and those of videos
    Hour,        \* photo -> the hour of its modification time
    Tells,       \* photo -> the day its metadata tell, if they tell
    PathTells,   \* file name -> the day that the directories it is in tell, if they do
    Meta,        \* photo -> the hash of its metadata
    Masked,      \* the umask takes a permission from the files of the archive
    Directory,   \* the directory of the phone
    First,       \* the photos that are there to begin with
    MaxAttempts, \* bound: twenty in the code
    MaxFaults,   \* bound: unplugged, killed, refused, failed and crashed
    MaxRuns,     \* bound: the runs of beak
    None

ASSUME PhotoAssumption ==
    /\ First \subseteq Photos
    /\ Size \in [Photos -> Nat \ {0}] /\ Hour \in [Photos -> Nat] /\ Masked \in BOOLEAN
    /\ \A p, q \in First : Name[p] = Name[q] => p = q
    /\ \A p, q \in Photos : Name[p] = Name[q] => Suffix[p] = Suffix[q]

ASSUME AttemptsAssumption == MaxAttempts \in Nat

Names == {Name[p] : p \in Photos}

VARIABLES
    phone,     \* the photos on the phone
    taken,     \* all photos taken so far
    connected,
    refused,   \* the names, or the directory, that the client fails for
    stage,
    after,     \* where to go on once there is access again, and the name that is copied
    attempts,
    listed,    \* file name -> photo, as listed
    todo,      \* the names to fetch
    importing, \* the archive's names to write -> the file they come from
    cache,     \* file name -> file
    archive,   \* the archive's name -> file
    said,      \* beak has ended well, and imported what it listed
    cut,       \* a client was killed, or a copy failed, in this run
    ever,      \* a client was killed in any run
    faults, runs

user == <<phone, taken>>
link == <<connected, refused>>
known == <<listed, todo, importing>>
counts == <<faults, runs>>
vars == <<user, link, stage, after, attempts, known, cache, archive, said, cut, ever, counts>>

-----------------------------------------------------------------------------
(* Files and their names                                                   *)

Files == [photo : Photos, whole : BOOLEAN]
Kept  == [photo : Photos, whole : BOOLEAN, stamped : BOOLEAN]

Whole(p) == [photo |-> p, whole |-> TRUE]
Part(p)  == [photo |-> p, whole |-> FALSE]

\* A file as it is in the archive.
Keep(f, stamped) == [photo |-> f.photo, whole |-> f.whole, stamped |-> stamped]

SizeOf(f) == IF f.whole THEN Size[f.photo] ELSE 0

NoFiles == [n \in {} |-> None]

Day(hour) == hour \div 24

\* The metadata of an image are at its beginning, those of a video cannot be read
\* from a part of it.
ImageTells(f) == Tells[f.photo]
VideoTells(f) == IF f.whole THEN Tells[f.photo] ELSE None

\* The metadata's date before the path's, and that before the modification time's.
DateOf(f) ==
    LET tells == IF Suffix[f.photo] \in Videos THEN VideoTells(f) ELSE ImageTells(f)
        path == PathTells[Name[f.photo]]
    IN  IF tells # None THEN tells ELSE IF path # None THEN path ELSE Day(Hour[f.photo])

normalizedFile(f) ==
    [date |-> DateOf(f), size |-> SizeOf(f), meta |-> Meta[f.photo], suffix |-> Suffix[f.photo]]

\* A file of this size and suffix is among those of the day.
check_if_already_exists(p) ==
    \E n \in DOMAIN archive :
        n.date = Day(Hour[p]) /\ SizeOf(archive[n]) = Size[p] /\ n.suffix = Suffix[p]

\* Mutant: a file of that name is taken for the one listed.
CachedByName(p) == Name[p] \in DOMAIN cache

\* The size is right, and the time within two hours.
Cached(p) ==
    /\ Name[p] \in DOMAIN cache
    /\ LET f == cache[Name[p]]
           apart == Hour[f.photo] - Hour[p]
       IN  SizeOf(f) = Size[p] /\ -2 < apart /\ apart < 2

With(f, n, file) == [m \in DOMAIN f \cup {n} |-> IF m = n THEN file ELSE f[m]]
Without(f, n) == [m \in DOMAIN f \ {n} |-> f[m]]

-----------------------------------------------------------------------------
(* The phone and its user                                                  *)

Take(p) ==
    /\ p \in Photos \ taken
    /\ \A q \in phone : Name[q] # Name[p]
    /\ phone' = phone \cup {p} /\ taken' = taken \cup {p}
    /\ UNCHANGED <<link, stage, after, attempts, known, cache, archive, said, cut, ever, counts>>

Delete(p) ==
    /\ p \in phone
    /\ phone' = phone \ {p}
    /\ UNCHANGED <<taken, link, stage, after, attempts, known, cache, archive, said, cut, ever, counts>>

Fault == faults < MaxFaults /\ faults' = faults + 1

Unplug ==
    /\ connected /\ Fault
    /\ connected' = FALSE
    /\ UNCHANGED <<user, refused, stage, after, attempts, known, cache, archive, said, cut, ever, runs>>

\* The user gives the permission, too.
Plug ==
    /\ ~connected
    /\ connected' = TRUE
    /\ UNCHANGED <<user, refused, stage, after, attempts, known, cache, archive, said, cut, ever, counts>>

\* The client fails for a name, whether or not the phone is there: no space is
\* left for its file, or its path has a blank; or the directory is not there.
Refuse(n) ==
    /\ n \in (Names \cup {Directory}) \ refused /\ Fault
    /\ refused' = refused \cup {n}
    /\ UNCHANGED <<user, connected, stage, after, attempts, known, cache, archive, said, cut, ever, runs>>

Allow(n) ==
    /\ n \in refused
    /\ refused' = refused \ {n}
    /\ UNCHANGED <<user, connected, stage, after, attempts, known, cache, archive, said, cut, ever, counts>>

-----------------------------------------------------------------------------
(* The program                                                             *)

Ends(well) ==
    /\ stage' = "idle" /\ after' = None /\ attempts' = 0 /\ said' = well
    /\ listed' = IF well THEN listed ELSE NoFiles
    /\ todo' = {} /\ importing' = NoFiles

Start ==
    /\ stage = "idle" /\ runs < MaxRuns
    /\ stage' = "pwd" /\ after' = "list" /\ attempts' = 0
    /\ listed' = NoFiles /\ said' = FALSE /\ cut' = FALSE /\ runs' = runs + 1
    /\ UNCHANGED <<user, link, todo, importing, cache, archive, ever, faults>>

Crash ==
    /\ stage # "idle" /\ Fault
    /\ Ends(FALSE)
    /\ UNCHANGED <<user, link, cache, archive, cut, ever, runs>>

\* Mutant: asked without end.
NeverGivesUp == FALSE

GivesUp == attempts >= MaxAttempts

\* Is there access to the phone?  To give up ends the program.
Pwd ==
    /\ stage = "pwd"
    /\ IF connected
       THEN stage' = "device" /\ attempts' = 0 /\ UNCHANGED <<after, known, said>>
       ELSE IF GivesUp THEN Ends(FALSE)
            ELSE /\ attempts' = IF attempts < MaxAttempts THEN attempts + 1 ELSE attempts
                 /\ UNCHANGED <<stage, after, known, said>>
    /\ UNCHANGED <<user, link, cache, archive, cut, ever, counts>>

Device ==
    /\ stage = "device"
    /\ IF connected THEN stage' = after /\ after' = None /\ UNCHANGED <<attempts, known, said>>
       ELSE Ends(FALSE)
    /\ UNCHANGED <<user, link, cache, archive, cut, ever, counts>>

\* The client failed, for whatever reason: ask for the phone, and go on there.
ReEstablishAccess(there) == stage' = "pwd" /\ after' = there /\ UNCHANGED attempts

\* invoke takes a client that was killed by a signal for one that ended well.
Killed == Fault /\ cut' = TRUE /\ ever' = TRUE
NotKilled == UNCHANGED <<faults, cut, ever>>

ListFiles ==
    /\ stage = "list"
    /\ \/ /\ connected /\ Directory \notin refused /\ NotKilled
          /\ listed' = [n \in {Name[p] : p \in phone} |-> CHOOSE p \in phone : Name[p] = n]
          /\ stage' = "compare" /\ UNCHANGED <<after, attempts>>
       \/ /\ Killed
          /\ \E S \in SUBSET phone :
               listed' = [n \in {Name[p] : p \in S} |-> CHOOSE p \in S : Name[p] = n]
          /\ stage' = "compare" /\ UNCHANGED <<after, attempts>>
       \/ /\ ~connected \/ Directory \in refused
          /\ NotKilled
          /\ ReEstablishAccess("list") /\ UNCHANGED listed
    /\ UNCHANGED <<user, link, todo, importing, cache, archive, said, runs>>

\* What is not in the archive is fetched, unless the cache has it.
Compare ==
    /\ stage = "compare"
    /\ LET new == {n \in DOMAIN listed : ~check_if_already_exists(listed[n])}
       IN  IF new = {} THEN Ends(TRUE)
           ELSE /\ todo' = {n \in new : ~Cached(listed[n])}
                /\ stage' = "fetch" /\ UNCHANGED <<after, attempts, listed, importing, said>>
    /\ UNCHANGED <<user, link, cache, archive, cut, ever, counts>>

\* Mutant: whatever came of it, the next file.
FetchOnce(n) == todo' = todo \ {n} /\ UNCHANGED <<stage, after, attempts>>

FetchAgain(n) == ReEstablishAccess("prime") /\ UNCHANGED todo

\* A file is fetched by the number its photo had when it was listed.  One that
\* is gone, or that the client cannot fetch or write, fails again and again.
Fetch(n) ==
    /\ stage = "fetch" /\ n \in todo
    /\ LET p == listed[n]
       IN  \/ /\ connected /\ p \in phone /\ n \notin refused /\ NotKilled
              /\ cache' = With(cache, n, Whole(p))
              /\ todo' = todo \ {n} /\ UNCHANGED <<stage, after, attempts>>
           \/ /\ Killed
              /\ cache' \in {cache, With(cache, n, Part(p))}
              /\ todo' = todo \ {n} /\ UNCHANGED <<stage, after, attempts>>
           \/ /\ ~connected \/ p \notin phone \/ n \in refused
              /\ NotKilled
              /\ cache' \in {cache, With(cache, n, Part(p))}
              /\ FetchAgain(n)
    /\ UNCHANGED <<user, link, listed, importing, archive, said, runs>>

\* The phone is listed again, for the client's sake; the numbers are not read.
PrimeFiles ==
    /\ stage = "prime"
    /\ stage' = "fetch"
    /\ UNCHANGED <<user, link, after, attempts, known, cache, archive, said, cut, ever, counts>>

\* A file whose type is not known is passed over, and beak ends well.
Known(f) == Suffix[f.photo] \in Media

\* All media in the cache are mapped to the archive's names; of two that have
\* the same the last one is.
ScanCache ==
    /\ stage = "fetch" /\ todo = {}
    /\ stage' = "import"
    /\ LET media == {n \in DOMAIN cache : Known(cache[n])}
       IN  \E from \in [{normalizedFile(cache[n]) : n \in media} -> media] :
         /\ \A name \in DOMAIN from : normalizedFile(cache[from[name]]) = name
         /\ importing' = [name \in DOMAIN from |-> cache[from[name]]]
    /\ UNCHANGED <<user, link, after, attempts, listed, todo, cache, archive, said, cut, ever, counts>>

\* Mutant: whatever is there is written anew.
NeverUpToDate(name) == FALSE

\* A file of the same permissions, size and time is there; the time that a copy is
\* stamped with is in its name.
UpToDate(name) ==
    /\ name \in DOMAIN archive
    /\ ~Masked
    /\ SizeOf(archive[name]) = SizeOf(importing[name])
    /\ archive[name].stamped

\* What is there, but not up to date, is deleted first.
Copy(name) ==
    /\ stage = "import" /\ name \in DOMAIN importing
    /\ IF UpToDate(name)
       THEN importing' = Without(importing, name) /\ UNCHANGED <<archive, stage, after>>
       ELSE /\ archive' = Without(archive, name)
            /\ stage' = "create" /\ after' = name /\ UNCHANGED importing
    /\ UNCHANGED <<user, link, attempts, listed, todo, cache, said, cut, ever, counts>>

CopyStep == UNCHANGED <<user, link, attempts, listed, todo, cache, said, ever, runs>>

\* The file is there from the first byte, under its name.
Create ==
    /\ stage = "create" /\ stage' = "copy"
    /\ archive' = With(archive, after, Keep(Part(importing[after].photo), FALSE))
    /\ CopyStep /\ UNCHANGED <<after, importing, cut, faults>>

CopyEnds ==
    /\ stage = "copy" /\ stage' = "stamp"
    /\ archive' = With(archive, after, Keep(importing[after], FALSE))
    /\ CopyStep /\ UNCHANGED <<after, importing, cut, faults>>

\* A file that cannot be created, read or written: nobody asks what came of it.
CopyFails ==
    /\ stage \in {"create", "copy"} /\ stage' = "stamp" /\ Fault /\ cut' = TRUE
    /\ CopyStep /\ UNCHANGED <<after, importing, archive>>

\* What is there is stamped, a part as well as a whole, unless that fails, too.
Utime ==
    /\ stage = "stamp" /\ stage' = "import" /\ after' = None
    /\ importing' = Without(importing, after)
    /\ \/ /\ after \in DOMAIN archive
          /\ archive' = With(archive, after, Keep(archive[after], TRUE))
          /\ UNCHANGED faults
       \/ after \notin DOMAIN archive /\ UNCHANGED <<archive, faults>>
       \/ after \in DOMAIN archive /\ Fault /\ UNCHANGED archive
    /\ CopyStep /\ UNCHANGED cut

Finish ==
    /\ stage = "import" /\ importing = NoFiles
    /\ Ends(TRUE)
    /\ UNCHANGED <<user, link, cache, archive, cut, ever, counts>>

-----------------------------------------------------------------------------

Init ==
    /\ phone = First /\ taken = First /\ connected = FALSE /\ refused = {}
    /\ stage = "idle" /\ after = None /\ attempts = 0
    /\ listed = NoFiles /\ todo = {} /\ importing = NoFiles
    /\ cache = NoFiles /\ archive = NoFiles
    /\ said = FALSE /\ cut = FALSE /\ ever = FALSE /\ faults = 0 /\ runs = 0

Program ==
    \/ Pwd \/ Device \/ ListFiles \/ Compare \/ (\E n \in Names : Fetch(n)) \/ PrimeFiles \/ ScanCache
    \/ (\E name \in DOMAIN importing : Copy(name)) \/ Create \/ CopyEnds \/ CopyFails \/ Utime \/ Finish

Next ==
    \/ Start \/ Crash \/ Program \/ Unplug \/ Plug
    \/ \E p \in Photos : Take(p) \/ Delete(p)
    \/ \E n \in Names \cup {Directory} : Refuse(n) \/ Allow(n)

\* beak goes on as long as it runs; the user need not ever plug the phone in, nor
\* make room on the disk.
Spec == Init /\ [][Next]_vars /\ WF_vars(Program)

-----------------------------------------------------------------------------
(* Properties                                                              *)

Stages == {"idle", "pwd", "device", "list", "compare", "fetch", "prime", "import", "create", "copy", "stamp"}

FlagsOK ==
    connected \in BOOLEAN /\ said \in BOOLEAN /\ cut \in BOOLEAN /\ ever \in BOOLEAN

ControlOK ==
    /\ stage \in Stages
    /\ stage \in {"pwd", "device"} => after \in {"list", "prime"}
    /\ attempts \in 0 .. MaxAttempts

RefusedOK == refused \subseteq Names \cup {Directory}

FilesOK ==
    /\ phone \subseteq taken /\ taken \subseteq Photos
    /\ DOMAIN listed \subseteq Names /\ \A n \in DOMAIN listed : listed[n] \in Photos
    /\ todo \subseteq Names
    /\ DOMAIN cache \subseteq Names /\ \A n \in DOMAIN cache : cache[n] \in Files
    /\ \A name \in DOMAIN importing : importing[name] \in Files
    /\ \A name \in DOMAIN archive : archive[name] \in Kept

\* What the stages of the program, the files and the lists are.
TypeOK == FlagsOK /\ ControlOK /\ RefusedOK /\ FilesOK

\* Two photos of one size and suffix are one to check_if_already_exists.
Alike(p, q) == Size[p] = Size[q] /\ Suffix[p] = Suffix[q]

\* When beak has ended well, with or without something to import, a photo that
\* it listed is in the archive as a whole, whatever broke before or in this run,
\* if its type is known, no other photo looks the same, and in this run no client
\* was killed and no copy failed (import_aft_mtp_cli, scanFile,
\* copy_local_backup_file): the user may delete it.
DoneMeansArchived ==
    said /\ ~cut =>
        \A n \in DOMAIN listed :
            LET p == listed[n]
            IN  Known(Whole(p)) /\ (\A q \in Photos \ {p} : ~Alike(p, q)) =>
                  \E name \in DOMAIN archive : archive[name].photo = p /\ archive[name].whole

\* And a part of such a photo is not left in the archive, be it from a broken
\* transfer, from a copy that failed in an earlier run, or from a crash while it
\* was copied, as long as the whole is on the phone: what is in the cache or the
\* archive is not taken for the photo.
PartsAreOfGonePhotos ==
    said /\ ~ever /\ ~cut =>
        \A name \in DOMAIN archive :
            LET p == archive[name].photo
            IN  ~archive[name].whole /\ p \in phone => \E q \in Photos \ {p} : Alike(p, q)

\* No step takes a whole photo out of the archive, though the whole cache is
\* imported each time and the name is made from the photo, or it is one that was
\* never stamped, as after a crash before utime, or that the umask makes look
\* old: then the whole file it is copied from is in the cache
\* (copy_local_backup_file).
ArchiveIsKept ==
    [][\A name \in DOMAIN archive :
          archive[name].whole =>
             \/ /\ name \in DOMAIN archive'
                /\ archive'[name] \in {archive[name], Keep(archive[name], TRUE)}
             \/ /\ ~archive[name].stamped \/ Masked
                /\ \E n \in DOMAIN cache' : cache'[n].whole /\ normalizedFile(cache'[n]) = name]_vars

\* The only thing beak can wait for without end is a list or a file that the
\* client fails for each time, as for a photo that was deleted from the phone
\* after it was listed; a phone that is not plugged in again it gives up
\* (aftmtpListFiles, aftmtpFetchFiles, aftmtpReEstablishAccess).
Listing == stage = "list" \/ (stage \in {"pwd", "device"} /\ after = "list")

OnlyRefusalsHang ==
    <>[](stage # "idle") =>
        <>[](\/ Listing /\ Directory \in refused
             \/ \E n \in todo : listed[n] \notin phone \/ n \in refused)
=============================================================================
