------------------------ MODULE CameraImport_proofs ------------------------
(***************************************************************************)
(* For any photos, names, types, dates and metadata, and any number of     *)
(* runs, faults and attempts: the types are right, a whole photo in the    *)
(* archive is written over only if it was not stamped, and then from the   *)
(* whole in the cache, a photo that is said to be imported is, and no part *)
(* of a photo stays while the photo can still be fetched.                  *)
(***************************************************************************)
EXTENDS CameraImport, TLAPS

\* No other photo looks the same.
Unique(p) == \A q \in Photos \ {p} : ~Alike(p, q)

Archived(p) == \E name \in DOMAIN archive : archive[name].photo = p /\ archive[name].whole
WholeInCache(p) == Name[p] \in DOMAIN cache /\ cache[Name[p]] = Whole(p)
Importing(p) == \E name \in DOMAIN importing : importing[name] = Whole(p)
Listed(p) == \E n \in DOMAIN listed : listed[n] = p

\* A photo that beak has no file of.
Unknown(p) ==
    /\ \A n \in DOMAIN cache : cache[n].photo # p
    /\ \A name \in DOMAIN importing : importing[name].photo # p
    /\ \A name \in DOMAIN archive : archive[name].photo # p

\* The photos are being fetched, or the phone is asked for in between.
Fetching ==
    \/ stage \in {"fetch", "prime"}
    \/ stage \in {"pwd", "device"} /\ after = "prime"

\* And are being imported.
Imports == stage \in {"import", "create", "copy", "stamp"}

\* Two photos on the phone have two names, and beak has files of photos that
\* were taken.
PhotosInv ==
    /\ \A p, q \in phone : Name[p] = Name[q] => p = q
    /\ \A n \in DOMAIN listed : Name[listed[n]] = n /\ listed[n] \in taken
    /\ \A n \in DOMAIN cache : Name[cache[n].photo] = n /\ cache[n].photo \in taken
    /\ \A name \in DOMAIN importing : importing[name].photo \in taken
    /\ \A name \in DOMAIN archive : archive[name].photo \in taken

\* The archive's names are those of the files, or of the wholes while a file is
\* copied or after a crash, and all are of known types; what is imported is still
\* in the cache.
NamesInv ==
    /\ \A name \in DOMAIN importing :
         /\ normalizedFile(importing[name]) = name /\ Known(importing[name])
         /\ \E n \in DOMAIN cache : cache[n] = importing[name]
    /\ \A name \in DOMAIN archive :
         /\ archive[name].whole => normalizedFile(Whole(archive[name].photo)) = name
         /\ Suffix[archive[name].photo] \in Media

\* What was imported last is there, but for the stamp.
Copied ==
    /\ after \in DOMAIN archive
    /\ archive[after].photo = importing[after].photo
    /\ archive[after].whole <=> importing[after].whole

\* What the program holds at its stages.
StageInv ==
    /\ said => stage = "idle"
    /\ cut => ever \/ Imports \/ stage = "idle"
    /\ todo \subseteq DOMAIN listed
    /\ ~Fetching => todo = {}
    /\ ~Imports => DOMAIN importing = {}
    /\ stage \in {"create", "copy", "stamp"} => after \in DOMAIN importing
    /\ stage = "create" => after \notin DOMAIN archive
    /\ stage = "copy" => after \in DOMAIN archive /\ ~archive[after].whole
    /\ stage = "stamp" /\ ~cut => Copied
    /\ \A n \in todo : ~WholeInCache(listed[n])

\* A photo that was listed is on its way into the archive.
ArriveInv ==
    ~cut => \A n \in DOMAIN listed :
        LET p == listed[n]
        IN  Unique(p) =>
              /\ Fetching => Archived(p) \/ n \in todo \/ WholeInCache(p)
              /\ Known(Whole(p)) =>
                   /\ Imports => Archived(p) \/ Importing(p)
                   /\ said => Archived(p)

\* No part of a photo goes into the archive while the photo is on the phone, but
\* under the name of the whole.
PartsInv ==
    ~ever => \A p \in phone :
        /\ Fetching \/ Imports \/ stage = "compare" \/ said => Listed(p) \/ Unknown(p)
        /\ Unique(p) =>
            /\ Archived(p) \/ Importing(p) => WholeInCache(p)
            /\ \A name \in DOMAIN importing : importing[name] # Part(p)
            /\ \A name \in DOMAIN archive :
                 archive[name].photo = p => name = normalizedFile(Whole(p))

IInv ==
    /\ TypeOK
    /\ PhotosInv
    /\ NamesInv
    /\ StageInv
    /\ ArriveInv
    /\ PartsInv

-----------------------------------------------------------------------------
(* Files and names                                                         *)

\* A file is a photo or a part of it, and the name tells which.
LEMMA FileFacts ==
    ASSUME NEW f \in Files
    PROVE  /\ f.photo \in Photos
           /\ f.whole => f = Whole(f.photo) /\ SizeOf(f) = Size[f.photo]
           /\ ~f.whole => f = Part(f.photo) /\ SizeOf(f) = 0
           /\ Size[f.photo] \in Nat /\ Size[f.photo] # 0
           /\ normalizedFile(f).size = SizeOf(f)
           /\ normalizedFile(f).suffix = Suffix[f.photo]
BY PhotoAssumption DEF Files, Whole, Part, SizeOf, normalizedFile

\* In the archive, too; a stamp makes no difference.
LEMMA KeepFacts ==
    /\ \A f \in Kept : /\ f.photo \in Photos /\ f.whole \in BOOLEAN
                       /\ f.whole => SizeOf(f) = Size[f.photo] /\ SizeOf(f) # 0
                       /\ ~f.whole => SizeOf(f) = 0
    /\ \A f \in Files \cup Kept, s \in BOOLEAN :
         /\ Keep(f, s) \in Kept
         /\ Keep(f, s).photo = f.photo /\ (Keep(f, s).whole <=> f.whole)
BY PhotoAssumption DEF Files, Kept, Keep, SizeOf

\* The whole and the part of a photo are two files of it.
LEMMA WholeAndPart ==
    ASSUME NEW p \in Photos, NEW q \in Photos
    PROVE  /\ Whole(p) \in Files /\ Part(p) \in Files
           /\ Whole(p).whole /\ ~Part(p).whole
           /\ Whole(p).photo = p /\ Part(p).photo = p
           /\ Whole(p) # Part(q)
           /\ SizeOf(Whole(p)) = Size[p]
BY DEF Files, Whole, Part, SizeOf

\* A file of the size and the suffix of a photo that no other is alike is it.
LEMMA OnlyTheWhole ==
    ASSUME NEW p \in Photos, Unique(p), NEW f \in Files,
           SizeOf(f) = Size[p], Suffix[f.photo] = Suffix[p]
    PROVE  f = Whole(p)
<1>1. f.whole
    BY FileFacts, PhotoAssumption
<1>2. Alike(p, f.photo)
    BY <1>1, FileFacts DEF Alike
<1>3. f.photo = p
    BY <1>2, FileFacts DEF Unique
<1> QED
    BY <1>1, <1>3, FileFacts

\* So is a file that has its name.
LEMMA NameOfTheWhole ==
    ASSUME NEW p \in Photos, Unique(p), NEW f \in Files,
           normalizedFile(f) = normalizedFile(Whole(p))
    PROVE  f = Whole(p)
<1>1. SizeOf(f) = Size[p] /\ Suffix[f.photo] = Suffix[p]
    BY FileFacts, WholeAndPart
<1> QED
    BY <1>1, OnlyTheWhole

EndsWell == Ends(TRUE)
EndsBadly == Ends(FALSE)

SameFaults == (cut' <=> cut) /\ (ever' <=> ever)
SameFlags == SameFaults /\ (said' <=> said)

\* Flags that are not changed have the truth they had.
LEMMA SameIsSame ==
    /\ UNCHANGED said => (said' <=> said)
    /\ UNCHANGED ever => (ever' <=> ever)
    /\ UNCHANGED <<cut, ever>> => SameFaults
    /\ UNCHANGED <<cut, ever>> /\ UNCHANGED said => SameFlags
BY SMT DEF SameFaults, SameFlags

\* Memory that is given up.
LEMMA EndsFacts ==
    EndsWell \/ EndsBadly =>
        /\ stage' = "idle" /\ attempts' = 0
        /\ todo' = {} /\ DOMAIN importing' = {}
BY DEF EndsWell, EndsBadly, Ends, NoFiles

\* The list of a run that ended well is kept for the promise it makes.
LEMMA EndsList ==
    /\ EndsWell => listed' = listed
    /\ EndsBadly => DOMAIN listed' = {}
BY DEF EndsWell, EndsBadly, Ends, NoFiles

\* A run that ends without success says so.
LEMMA EndsSaid == EndsBadly => ~said'
BY Zenon DEF EndsBadly, Ends

-----------------------------------------------------------------------------
(* What the actions change                                                 *)

\* A run begins with a request for the phone, and an empty list.
LEMMA StartFacts ==
    Start => /\ stage = "idle" /\ stage' = "pwd" /\ after' = "list" /\ attempts' = 0
             /\ DOMAIN listed' = {}
             /\ UNCHANGED <<phone, taken, todo, importing, cache, archive>>
             /\ ~said' /\ ~cut' /\ (ever' <=> ever)
<1>1. Start => ~said' /\ ~cut' /\ UNCHANGED ever
    BY Zenon DEF Start
<1> QED
    BY <1>1, SameIsSame DEF Start, NoFiles, user, link

\* A crash ends the run badly.
LEMMA CrashFacts ==
    Crash => EndsBadly /\ UNCHANGED <<phone, taken, cache, archive>> /\ SameFaults
<1>1. Crash => EndsBadly /\ UNCHANGED <<user, cache, archive>>
    BY Zenon DEF Crash, EndsBadly
<1>2. Crash => UNCHANGED <<cut, ever>>
    BY Zenon DEF Crash
<1> QED
    BY <1>1, <1>2, SameIsSame DEF user

\* A run is finished when nothing is left to import.
LEMMA FinishFacts ==
    Finish => /\ stage = "import" /\ DOMAIN importing = {}
              /\ EndsWell /\ UNCHANGED <<phone, taken, cache, archive>> /\ SameFaults
<1>1. Finish => stage = "import" /\ importing = NoFiles /\ EndsWell /\ UNCHANGED <<user, cache, archive>>
    BY Zenon DEF Finish, EndsWell
<1>2. Finish => UNCHANGED <<cut, ever>>
    BY Zenon DEF Finish
<1> QED
    BY <1>1, <1>2, SameIsSame DEF user, NoFiles

\* The phone is asked for until it answers or the attempts are over.
LEMMA PwdFacts ==
    Pwd => /\ stage = "pwd" /\ UNCHANGED <<phone, taken, cache, archive>> /\ SameFaults
           /\ \/ EndsBadly
              \/ /\ stage' = "device" /\ attempts' = 0
                 /\ UNCHANGED <<after, listed, todo, importing>> /\ SameFlags
              \/ /\ attempts' = IF attempts < MaxAttempts THEN attempts + 1 ELSE attempts
                 /\ UNCHANGED <<stage, after, listed, todo, importing>> /\ SameFlags
<1>1. Pwd => /\ stage = "pwd" /\ UNCHANGED <<user, cache, archive>> /\ UNCHANGED <<cut, ever>>
             /\ \/ EndsBadly
                \/ stage' = "device" /\ attempts' = 0 /\ UNCHANGED <<after, known>> /\ UNCHANGED said
                \/ /\ attempts' = IF attempts < MaxAttempts THEN attempts + 1 ELSE attempts
                   /\ UNCHANGED <<stage, after, known>> /\ UNCHANGED said
    BY Zenon DEF Pwd, EndsBadly
<1> QED
    BY <1>1, SameIsSame DEF user, known

\* Then for the device, where the run goes on or ends.
LEMMA DeviceFacts ==
    Device => /\ stage = "device" /\ UNCHANGED <<phone, taken, cache, archive>> /\ SameFaults
              /\ \/ EndsBadly
                 \/ /\ stage' = after
                    /\ UNCHANGED <<attempts, listed, todo, importing>> /\ SameFlags
<1>1. Device => /\ stage = "device" /\ UNCHANGED <<user, cache, archive>> /\ UNCHANGED <<cut, ever>>
                /\ \/ EndsBadly
                   \/ stage' = after /\ UNCHANGED <<attempts, known>> /\ UNCHANGED said
    BY Zenon DEF Device, EndsBadly
<1> QED
    BY <1>1, SameIsSame DEF user, known

New == {n \in DOMAIN listed : ~check_if_already_exists(listed[n])}

\* The comparison ends the run if there is nothing new.
LEMMA CompareFacts ==
    Compare => /\ stage = "compare" /\ UNCHANGED <<phone, taken, cache, archive>> /\ SameFaults
               /\ \/ New = {} /\ EndsWell
                  \/ /\ todo' = {n \in New : ~Cached(listed[n])}
                     /\ stage' = "fetch"
                     /\ UNCHANGED <<after, attempts, listed, importing>> /\ SameFlags
<1>1. Compare => /\ stage = "compare" /\ UNCHANGED <<user, cache, archive>> /\ UNCHANGED <<cut, ever>>
                 /\ \/ New = {} /\ EndsWell
                    \/ /\ todo' = {n \in New : ~Cached(listed[n])}
                       /\ stage' = "fetch"
                       /\ UNCHANGED <<after, attempts, listed, importing>> /\ UNCHANGED said
    BY Zenon DEF Compare, New, EndsWell
<1> QED
    BY <1>1, SameIsSame DEF user

\* The phone's list, or what of it there was when the client was killed.
Lists(S) == listed' = [n \in {Name[p] : p \in S} |-> CHOOSE p \in S : Name[p] = n]

\* The list is that of the phone, a part of it, or put off.
LEMMA ListFacts ==
    ListFiles =>
        /\ stage = "list"
        /\ UNCHANGED <<phone, taken, todo, importing, cache, archive>> /\ (said' <=> said)
        /\ UNCHANGED attempts
        /\ \/ Lists(phone) /\ stage' = "compare" /\ SameFaults
           \/ /\ \E S \in SUBSET phone : Lists(S)
              /\ stage' = "compare" /\ cut' /\ ever'
           \/ /\ listed' = listed
              /\ stage' = "pwd" /\ after' = "list" /\ SameFaults
<1>1. ListFiles => UNCHANGED <<user, todo, importing, cache, archive>> /\ UNCHANGED said
    BY Zenon DEF ListFiles
<1>2. ListFiles =>
        /\ stage = "list" /\ UNCHANGED attempts
        /\ \/ Lists(phone) /\ stage' = "compare" /\ NotKilled
           \/ /\ \E S \in SUBSET phone : Lists(S)
              /\ stage' = "compare" /\ Killed
           \/ /\ listed' = listed
              /\ stage' = "pwd" /\ after' = "list" /\ NotKilled
    BY DEF ListFiles, Lists, ReEstablishAccess
<1>3. NotKilled => UNCHANGED <<cut, ever>>
    BY Zenon DEF NotKilled
<1>4. Killed => cut' /\ ever'
    BY Zenon DEF Killed
<1> QED
    BY <1>1, <1>2, <1>3, <1>4, SameIsSame DEF user

\* A fetch changes the cache at the place of the photo it is for, if at all.
LEMMA FetchFacts ==
    ASSUME NEW n, Fetch(n)
    PROVE  /\ stage = "fetch" /\ n \in todo
           /\ UNCHANGED <<phone, taken, listed, importing, archive>> /\ (said' <=> said)
           /\ \A m \in DOMAIN cache : m \in DOMAIN cache' /\ (m # n => cache'[m] = cache[m])
           /\ \A m \in DOMAIN cache' : m # n => m \in DOMAIN cache
           /\ \/ /\ SameFaults /\ todo' = todo \ {n} /\ UNCHANGED <<stage, after, attempts>>
                 /\ n \in DOMAIN cache' /\ cache'[n] = Whole(listed[n])
              \/ /\ cut' /\ ever' /\ todo' = todo \ {n} /\ UNCHANGED <<stage, after, attempts>>
                 /\ \/ cache' = cache
                    \/ n \in DOMAIN cache' /\ cache'[n] = Part(listed[n])
              \/ /\ SameFaults /\ todo' = todo
                 /\ stage' = "pwd" /\ after' = "prime" /\ UNCHANGED attempts
                 /\ \/ cache' = cache
                    \/ n \in DOMAIN cache' /\ cache'[n] = Part(listed[n])
<1>1. /\ stage = "fetch" /\ n \in todo
      /\ UNCHANGED <<phone, taken, listed, importing, archive>>
      /\ \/ /\ NotKilled /\ todo' = todo \ {n} /\ UNCHANGED <<stage, after, attempts>>
            /\ cache' = With(cache, n, Whole(listed[n]))
         \/ /\ Killed /\ todo' = todo \ {n} /\ UNCHANGED <<stage, after, attempts>>
            /\ cache' \in {cache, With(cache, n, Part(listed[n]))}
         \/ /\ NotKilled /\ todo' = todo
            /\ stage' = "pwd" /\ after' = "prime" /\ UNCHANGED attempts
            /\ cache' \in {cache, With(cache, n, Part(listed[n]))}
    BY DEF Fetch, FetchAgain, ReEstablishAccess, user
<1>2. UNCHANGED said
    BY Zenon DEF Fetch
<1>3. NotKilled => UNCHANGED <<cut, ever>>
    BY Zenon DEF NotKilled
<1>4. Killed => cut' /\ ever'
    BY Zenon DEF Killed
<1>5. ASSUME NEW file, cache' = With(cache, n, file)
      PROVE  /\ DOMAIN cache' = DOMAIN cache \cup {n} /\ cache'[n] = file
             /\ \A m \in DOMAIN cache : m # n => cache'[m] = cache[m]
    BY <1>5 DEF With
<1>6. CASE cache' = cache
    BY <1>1, <1>2, <1>3, <1>4, <1>5, <1>6, SameIsSame
<1>7. CASE cache' = With(cache, n, Whole(listed[n]))
    BY <1>1, <1>2, <1>3, <1>4, <1>5, <1>7, SameIsSame
<1>8. CASE cache' = With(cache, n, Part(listed[n]))
    BY <1>1, <1>2, <1>3, <1>4, <1>5, <1>8, SameIsSame
<1> QED
    BY <1>1, <1>6, <1>7, <1>8

\* The scan of the cache makes the names of the media in it.
LEMMA ScanCacheFacts ==
    ASSUME ScanCache
    PROVE  /\ stage = "fetch" /\ todo = {} /\ stage' = "import"
           /\ \A name \in DOMAIN importing' :
                \E n \in DOMAIN cache : /\ importing'[name] = cache[n] /\ Known(cache[n])
                                        /\ normalizedFile(cache[n]) = name
           /\ \A n \in DOMAIN cache : Known(cache[n]) => normalizedFile(cache[n]) \in DOMAIN importing'
           /\ UNCHANGED <<phone, taken, after, attempts, listed, todo, cache, archive>> /\ SameFlags
<1> DEFINE media == {n \in DOMAIN cache : Known(cache[n])}
<1>1. PICK from \in [{normalizedFile(cache[n]) : n \in media} -> media] :
         /\ \A name \in DOMAIN from : normalizedFile(cache[from[name]]) = name
         /\ importing' = [name \in DOMAIN from |-> cache[from[name]]]
    BY DEF ScanCache
<1>2. /\ DOMAIN importing' = {normalizedFile(cache[n]) : n \in media}
      /\ \A name \in DOMAIN importing' :
            /\ from[name] \in media
            /\ importing'[name] = cache[from[name]]
            /\ normalizedFile(cache[from[name]]) = name
    BY <1>1
<1>3. SameFlags
    BY SMT DEF ScanCache, SameFlags, SameFaults
<1>4. /\ stage = "fetch" /\ todo = {} /\ stage' = "import"
      /\ UNCHANGED <<phone, taken, after, attempts, listed, todo, cache, archive>>
    BY DEF ScanCache, user
<1>5. \A n \in media : n \in DOMAIN cache /\ Known(cache[n])
    OBVIOUS
<1> HIDE DEF media
<1>6. \A n \in DOMAIN cache : Known(cache[n]) => n \in media
    BY DEF media
<1> QED
    BY <1>2, <1>3, <1>4, <1>5, <1>6

SamePlaces == UNCHANGED <<phone, taken, attempts, listed, todo, cache>>

\* A copy that begins deletes what is there and not up to date.
LEMMA CopyFacts ==
    ASSUME NEW name \in DOMAIN importing, Copy(name)
    PROVE  /\ SamePlaces /\ SameFlags
           /\ stage = "import"
           /\ \/ /\ UpToDate(name) /\ UNCHANGED <<archive, stage>>
                 /\ DOMAIN importing' = DOMAIN importing \ {name}
                 /\ \A m \in DOMAIN importing' : importing'[m] = importing[m]
              \/ /\ ~UpToDate(name) /\ importing' = importing
                 /\ stage' = "create" /\ after' = name
                 /\ DOMAIN archive' = DOMAIN archive \ {name}
                 /\ \A m \in DOMAIN archive' : archive'[m] = archive[m]
<1>1. SameFlags
    BY SMT DEF Copy, SameFlags, SameFaults
<1>2. SamePlaces /\ stage = "import"
    BY DEF Copy, user, SamePlaces
<1>3. CASE UpToDate(name)
    BY <1>1, <1>2, <1>3 DEF Copy, Without
<1>4. CASE ~UpToDate(name)
    <2>1. /\ archive' = Without(archive, name)
          /\ importing' = importing /\ stage' = "create" /\ after' = name
        BY <1>4 DEF Copy
    <2> QED
        BY <1>1, <1>2, <1>4, <2>1 DEF Without
<1> QED
    BY <1>3, <1>4

\* A step of a copy changes the archive in its place, if at all.
Writes(file) ==
    /\ DOMAIN archive' = DOMAIN archive \cup {after}
    /\ archive'[after] = file
    /\ \A m \in DOMAIN archive \ {after} : archive'[m] = archive[m]

\* With puts a file in its place.
LEMMA WithWrites ==
    \A file : archive' = With(archive, after, file) => Writes(file)
BY DEF With, Writes

\* First there is a part.
LEMMA CreateFacts ==
    ASSUME Create
    PROVE  /\ SamePlaces /\ SameFlags /\ UNCHANGED <<importing, after>>
           /\ stage = "create" /\ stage' = "copy"
           /\ Writes(Keep(Part(importing[after].photo), FALSE))
<1>1. SameFlags
    BY SMT DEF Create, CopyStep, SameFlags, SameFaults
<1>2. /\ SamePlaces /\ UNCHANGED <<importing, after>>
      /\ stage = "create" /\ stage' = "copy"
    BY DEF Create, CopyStep, user, SamePlaces
<1>3. archive' = With(archive, after, Keep(Part(importing[after].photo), FALSE))
    BY Zenon DEF Create
<1>4. Writes(Keep(Part(importing[after].photo), FALSE))
    BY <1>3, WithWrites, Zenon
<1> QED
    BY <1>1, <1>2, <1>4, Zenon

\* Then the file.
LEMMA CopyEndsFacts ==
    ASSUME CopyEnds
    PROVE  /\ SamePlaces /\ SameFlags /\ UNCHANGED <<importing, after>>
           /\ stage = "copy" /\ stage' = "stamp"
           /\ Writes(Keep(importing[after], FALSE))
<1>1. SameFlags
    BY SMT DEF CopyEnds, CopyStep, SameFlags, SameFaults
<1>2. /\ SamePlaces /\ UNCHANGED <<importing, after>>
      /\ stage = "copy" /\ stage' = "stamp"
    BY DEF CopyEnds, CopyStep, user, SamePlaces
<1>3. archive' = With(archive, after, Keep(importing[after], FALSE))
    BY Zenon DEF CopyEnds
<1>4. Writes(Keep(importing[after], FALSE))
    BY <1>3, WithWrites, Zenon
<1> QED
    BY <1>1, <1>2, <1>4, Zenon

\* Or not.
LEMMA CopyFailsFacts ==
    ASSUME CopyFails
    PROVE  /\ SamePlaces /\ cut' /\ (ever' <=> ever) /\ (said' <=> said)
           /\ UNCHANGED <<importing, archive, after>>
           /\ stage \in {"create", "copy"} /\ stage' = "stamp"
<1>1. cut' /\ UNCHANGED ever /\ UNCHANGED said
    BY Zenon DEF CopyFails, CopyStep
<1> QED
    BY <1>1, SameIsSame DEF CopyFails, CopyStep, user, SamePlaces

\* And what is there, if anything, is stamped.
LEMMA UtimeFacts ==
    ASSUME Utime
    PROVE  /\ SamePlaces /\ SameFlags
           /\ stage = "stamp" /\ stage' = "import"
           /\ DOMAIN importing' = DOMAIN importing \ {after}
           /\ \A m \in DOMAIN importing' : importing'[m] = importing[m]
           /\ archive' = archive \/ (after \in DOMAIN archive /\ Writes(Keep(archive[after], TRUE)))
<1>1. SameFlags
    BY SMT DEF Utime, CopyStep, SameFlags, SameFaults
<1>2. /\ SamePlaces /\ stage = "stamp" /\ stage' = "import"
      /\ DOMAIN importing' = DOMAIN importing \ {after}
      /\ \A m \in DOMAIN importing' : importing'[m] = importing[m]
    BY DEF Utime, CopyStep, user, SamePlaces, Without
<1>3. \/ archive' = archive
      \/ after \in DOMAIN archive /\ archive' = With(archive, after, Keep(archive[after], TRUE))
    BY Zenon DEF Utime
<1>4. archive' = archive \/ (after \in DOMAIN archive /\ Writes(Keep(archive[after], TRUE)))
    BY <1>3, WithWrites, Zenon
<1> QED
    BY <1>1, <1>2, <1>4, Zenon

\* The cable, the permission and the primer change none of it.
LEMMA QuietFacts ==
    /\ Unplug \/ Plug \/ (\E n \in Names \cup {Directory} : Refuse(n) \/ Allow(n)) \/ UNCHANGED vars =>
        /\ UNCHANGED <<phone, taken, stage, after, attempts, listed, todo, importing, cache, archive>>
        /\ SameFlags
    /\ PrimeFiles =>
        /\ UNCHANGED <<phone, taken, after, attempts, listed, todo, importing, cache, archive>>
        /\ stage = "prime" /\ stage' = "fetch" /\ SameFlags
<1>1. Unplug \/ Plug \/ PrimeFiles \/ UNCHANGED vars => SameFlags
    BY SMT DEF Unplug, Plug, PrimeFiles, vars, SameFlags, SameFaults
<1>2. ASSUME NEW n \in Names \cup {Directory}, Refuse(n) \/ Allow(n)
      PROVE  /\ UNCHANGED <<phone, taken, stage, after, attempts, listed, todo, importing, cache, archive>>
             /\ SameFlags
    <2>1. SameFlags
        BY <1>2, SMT DEF Refuse, Allow, SameFlags, SameFaults
    <2> QED
        BY <1>2, <2>1 DEF Refuse, Allow, user, known
<1> QED
    BY <1>1, <1>2 DEF Unplug, Plug, PrimeFiles, vars, user, known

\* A photo is taken, which is a new one, or deleted.
LEMMA UserFacts ==
    ASSUME NEW p \in Photos, Take(p) \/ Delete(p)
    PROVE  /\ UNCHANGED <<stage, after, attempts, listed, todo, importing, cache, archive>>
           /\ SameFlags
           /\ \/ /\ p \notin taken /\ \A q \in phone : Name[q] # Name[p]
                 /\ phone' = phone \cup {p} /\ taken' = taken \cup {p}
              \/ phone' = phone \ {p} /\ taken' = taken
<1>1. SameFlags
    BY SMT DEF Take, Delete, SameFlags, SameFaults
<1> QED
    BY <1>1 DEF Take, Delete, known

-----------------------------------------------------------------------------
(* Types                                                                   *)

\* The flags are flags.
LEMMA FlagsStep == FlagsOK /\ [Next]_vars => FlagsOK'
<1> SUFFICES ASSUME FlagsOK, [Next]_vars PROVE FlagsOK'
    OBVIOUS
<1> USE DEF FlagsOK, user, link, known, counts
<1>1. CASE Start
    BY <1>1, Zenon DEF Start
<1>2. CASE Crash
    BY <1>2, Zenon DEF Crash, Ends
<1>3. CASE Pwd
    BY <1>3, Zenon DEF Pwd, Ends
<1>4. CASE Device
    BY <1>4, Zenon DEF Device, Ends
<1>5. CASE ListFiles
    BY <1>5, Zenon DEF ListFiles, Killed, NotKilled
<1>6. CASE Compare
    BY <1>6, Zenon DEF Compare, Ends
<1>7. ASSUME NEW n \in Names, Fetch(n) PROVE FlagsOK'
    BY <1>7, Zenon DEF Fetch, Killed, NotKilled
<1>8. CASE PrimeFiles \/ ScanCache \/ (\E name \in DOMAIN importing : Copy(name))
    BY <1>8, Zenon DEF PrimeFiles, ScanCache, Copy
<1>9. CASE Finish
    BY <1>9, Zenon DEF Finish, Ends
<1>10. CASE Unplug \/ Plug \/ \E p \in Photos : Take(p) \/ Delete(p)
    BY <1>10, Zenon DEF Unplug, Plug, Take, Delete
<1>11. CASE UNCHANGED vars
    BY <1>11, Zenon DEF vars
<1>12. CASE Create \/ CopyEnds \/ CopyFails \/ Utime
    BY <1>12, Zenon DEF Create, CopyEnds, CopyFails, Utime, CopyStep
<1>13. ASSUME NEW n \in Names \cup {Directory}, Refuse(n) \/ Allow(n) PROVE FlagsOK'
    BY <1>13, Zenon DEF Refuse, Allow
<1> QED
    BY <1>1, <1>2, <1>3, <1>4, <1>5, <1>6, <1>7, <1>8, <1>9, <1>10, <1>11, <1>12, <1>13
    DEF Next, Program

\* The program is at one of its stages.
LEMMA ControlStep == ControlOK /\ [Next]_vars => ControlOK'
<1> SUFFICES ASSUME ControlOK, [Next]_vars PROVE ControlOK'
    OBVIOUS
<1> USE AttemptsAssumption DEF ControlOK, Stages
<1>1. CASE Start
    BY <1>1, StartFacts
<1>2. CASE Crash
    BY <1>2, CrashFacts, EndsFacts
<1>3. CASE Pwd
    BY <1>3, PwdFacts, EndsFacts
<1>4. CASE Device
    BY <1>4, DeviceFacts, EndsFacts
<1>5. CASE ListFiles
    BY <1>5, ListFacts
<1>6. CASE Compare
    BY <1>6, CompareFacts, EndsFacts
<1>7. ASSUME NEW n \in Names, Fetch(n) PROVE ControlOK'
    BY <1>7, FetchFacts
<1>8. CASE PrimeFiles \/ ScanCache \/ (\E name \in DOMAIN importing : Copy(name))
    BY <1>8 DEF PrimeFiles, ScanCache, Copy
<1>9. CASE Finish
    BY <1>9, FinishFacts, EndsFacts
<1>10. CASE Unplug \/ Plug \/ \E p \in Photos : Take(p) \/ Delete(p)
    BY <1>10 DEF Unplug, Plug, Take, Delete
<1>11. CASE (\E n \in Names \cup {Directory} : Refuse(n) \/ Allow(n)) \/ UNCHANGED vars
    BY <1>11, QuietFacts
<1>12. CASE Create \/ CopyEnds \/ CopyFails \/ Utime
    BY <1>12, CreateFacts, CopyEndsFacts, CopyFailsFacts, UtimeFacts DEF SamePlaces
<1> QED
    BY <1>1, <1>2, <1>3, <1>4, <1>5, <1>6, <1>7, <1>8, <1>9, <1>10, <1>11, <1>12
    DEF Next, Program

\* What the client fails for are names, or the directory.
LEMMA RefusedStep == RefusedOK /\ [Next]_vars => RefusedOK'
<1> SUFFICES ASSUME RefusedOK, [Next]_vars PROVE RefusedOK'
    OBVIOUS
<1> USE DEF RefusedOK
<1>1. ASSUME NEW n \in Names \cup {Directory}, Refuse(n) \/ Allow(n) PROVE RefusedOK'
    BY <1>1 DEF Refuse, Allow
<1>2. ASSUME UNCHANGED refused PROVE RefusedOK'
    BY <1>2
<1> HIDE DEF RefusedOK
<1>3. CASE Start \/ Crash \/ Pwd \/ Device \/ ListFiles \/ Compare \/ PrimeFiles \/ ScanCache \/ Finish
    BY <1>2, <1>3, Zenon
    DEF Start, Crash, Pwd, Device, ListFiles, Compare, PrimeFiles, ScanCache, Finish, link
<1>4. CASE \/ \E n \in Names : Fetch(n)
           \/ \E name \in DOMAIN importing : Copy(name)
           \/ Create \/ CopyEnds \/ CopyFails \/ Utime
    BY <1>2, <1>4, Zenon DEF Fetch, Copy, Create, CopyEnds, CopyFails, Utime, CopyStep, link
<1>5. CASE Unplug \/ Plug \/ UNCHANGED vars \/ \E p \in Photos : Take(p) \/ Delete(p)
    BY <1>2, <1>5, Zenon DEF Unplug, Plug, Take, Delete, vars, link
<1> QED
    BY <1>1, <1>3, <1>4, <1>5 DEF Next, Program

\* Photos, lists and files stay what they are.
LEMMA FilesStep == TypeOK /\ StageInv /\ [Next]_vars => FilesOK'
<1> SUFFICES ASSUME FilesOK, StageInv, [Next]_vars PROVE FilesOK'
    BY DEF TypeOK
<1> USE DEF FilesOK
<1>1. CASE Start
    BY <1>1, StartFacts
<1>2. ASSUME EndsWell \/ EndsBadly, UNCHANGED <<phone, taken, cache, archive>>
      PROVE  FilesOK'
    BY <1>2, EndsFacts, EndsList
<1>3. CASE Crash \/ Finish
    BY <1>2, <1>3, CrashFacts, FinishFacts
<1>4. CASE Pwd \/ Device
    BY <1>2, <1>4, PwdFacts, DeviceFacts
<1>5. CASE ListFiles
    <2>1. ASSUME NEW S \in SUBSET phone, Lists(S)
          PROVE  DOMAIN listed' \subseteq Names /\ \A n \in DOMAIN listed' : listed'[n] \in Photos
        BY <2>1 DEF Lists, Names
    <2> QED
        BY <1>5, <2>1, ListFacts
<1>6. CASE Compare
    BY <1>2, <1>6, CompareFacts DEF New
<1>7. ASSUME NEW n \in Names, Fetch(n) PROVE FilesOK'
    <2>1. n \in todo /\ n \in DOMAIN listed
        BY <1>7, FetchFacts DEF StageInv
    <2>2. Whole(listed[n]) \in Files /\ Part(listed[n]) \in Files
        BY <2>1, WholeAndPart
    <2>3. DOMAIN cache' \subseteq Names
        BY <1>7, FetchFacts
    <2>4. ASSUME NEW m \in DOMAIN cache', m # n PROVE cache'[m] \in Files
        <3>1. m \in DOMAIN cache /\ cache'[m] = cache[m]
            BY <1>7, <2>4, FetchFacts
        <3> QED
            BY <3>1
    <2>5. ASSUME n \in DOMAIN cache' PROVE cache'[n] \in Files
        <3>1. cache' = cache \/ cache'[n] = Whole(listed[n]) \/ cache'[n] = Part(listed[n])
            BY <1>7, FetchFacts
        <3> QED
            BY <2>2, <2>5, <3>1
    <2>6. todo' \subseteq Names /\ UNCHANGED <<phone, taken, listed, importing, archive>>
        BY <1>7, FetchFacts
    <2> QED
        BY <2>3, <2>4, <2>5, <2>6
<1>8. CASE \/ PrimeFiles \/ Unplug \/ Plug \/ UNCHANGED vars
           \/ \E n \in Names \cup {Directory} : Refuse(n) \/ Allow(n)
    BY <1>8, QuietFacts
<1>9. CASE ScanCache
    BY <1>9, ScanCacheFacts
<1>10. ASSUME NEW name \in DOMAIN importing, Copy(name) PROVE FilesOK'
    BY <1>10, CopyFacts DEF SamePlaces
<1>11. CASE Create \/ CopyEnds \/ CopyFails \/ Utime
    <2>1. /\ SamePlaces
          /\ DOMAIN importing' \subseteq DOMAIN importing
          /\ \A m \in DOMAIN importing' : importing'[m] = importing[m]
          /\ stage \in {"create", "copy", "stamp"} /\ after \in DOMAIN importing
          /\ \/ archive' = archive
             \/ Writes(Keep(Part(importing[after].photo), FALSE))
             \/ Writes(Keep(importing[after], FALSE))
             \/ after \in DOMAIN archive /\ Writes(Keep(archive[after], TRUE))
        BY <1>11, CreateFacts, CopyEndsFacts, CopyFailsFacts, UtimeFacts DEF StageInv
    <2>2. importing[after] \in Files /\ Part(importing[after].photo) \in Files
        BY <2>1, FileFacts, WholeAndPart
    <2>3. \A file, s : s \in BOOLEAN /\ file \in Files \cup Kept => Keep(file, s) \in Kept
        BY KeepFacts
    <2>4. TRUE \in BOOLEAN /\ FALSE \in BOOLEAN
        OBVIOUS
    <2>5. /\ Keep(Part(importing[after].photo), FALSE) \in Kept
          /\ Keep(importing[after], FALSE) \in Kept
          /\ after \in DOMAIN archive => Keep(archive[after], TRUE) \in Kept
        <3>1. after \in DOMAIN archive => archive[after] \in Kept
            OBVIOUS
        <3> QED
            BY <2>2, <2>3, <2>4, <3>1, Zenon
    <2>6. ASSUME NEW file \in Kept, Writes(file)
          PROVE  \A name \in DOMAIN archive' : archive'[name] \in Kept
        BY <2>6 DEF Writes
    <2>7. \A name \in DOMAIN archive' : archive'[name] \in Kept
        <3>1. CASE archive' = archive
            BY <3>1
        <3> QED
            BY <2>1, <2>5, <2>6, <3>1, Zenon
    <2> QED
        BY <2>1, <2>7 DEF SamePlaces
<1>12. ASSUME NEW p \in Photos, Take(p) \/ Delete(p) PROVE FilesOK'
    BY <1>12, UserFacts
<1> QED
    BY <1>1, <1>3, <1>4, <1>5, <1>6, <1>7, <1>8, <1>9, <1>10, <1>11, <1>12
    DEF Next, Program

\* Every step keeps the types.
LEMMA TypeStep == TypeOK /\ StageInv /\ [Next]_vars => TypeOK'
BY FlagsStep, ControlStep, RefusedStep, FilesStep DEF TypeOK

-----------------------------------------------------------------------------
(* The inductive invariant                                                 *)

\* What hangs on files, lists and stages alone holds on while they stay, if the
\* photos are as much being fetched as before.
LEMMA QuietKeepsInv ==
    ASSUME IInv, TypeOK', SameFlags, Fetching' <=> Fetching,
           UNCHANGED <<phone, taken, listed, todo, importing, cache, archive>>,
           \/ UNCHANGED <<stage, after>>
           \/ stage \notin {"idle", "import", "create", "copy", "stamp"}
              /\ stage' \notin {"idle", "compare", "import", "create", "copy", "stamp"}
    PROVE  IInv'
<1>1. PhotosInv' /\ NamesInv'
    BY DEF IInv, PhotosInv, NamesInv
<1>2. StageInv'
    BY DEF IInv, StageInv, Imports, Copied, WholeInCache, SameFlags, SameFaults
<1>3. ArriveInv'
    BY DEF IInv, StageInv, ArriveInv, Imports, Archived, Importing, WholeInCache, SameFlags, SameFaults
<1>4. PartsInv'
    BY DEF IInv, StageInv, PartsInv, Imports, Archived, Importing, WholeInCache, Listed, Unknown,
           SameFlags, SameFaults
<1> QED
    BY <1>1, <1>2, <1>3, <1>4 DEF IInv

\* A run that ends without success says nothing.
LEMMA EndsBadlyKeepsInv ==
    ASSUME IInv, TypeOK', EndsBadly, SameFaults, UNCHANGED <<phone, taken, cache, archive>>
    PROVE  IInv'
<1>1. /\ stage' = "idle" /\ todo' = {} /\ DOMAIN importing' = {} /\ DOMAIN listed' = {}
      /\ ~said'
    BY EndsFacts, EndsList, EndsSaid
<1>2. PhotosInv' /\ NamesInv'
    BY <1>1 DEF IInv, PhotosInv, NamesInv
<1>3. StageInv'
    BY <1>1 DEF IInv, StageInv, Imports, SameFaults
<1>4. ArriveInv'
    BY <1>1 DEF ArriveInv
<1>5. PartsInv'
    BY <1>1 DEF IInv, PartsInv, Imports, Archived, Importing, WholeInCache, Fetching, SameFaults
<1> QED
    BY <1>2, <1>3, <1>4, <1>5 DEF IInv

\* One that ends well has archived what it has listed.
LEMMA EndsWellKeepsInv ==
    ASSUME IInv, TypeOK', EndsWell, SameFaults, UNCHANGED <<phone, taken, cache, archive>>,
           stage \in {"compare", "import"},
           ~cut => \A n \in DOMAIN listed :
                     Unique(listed[n]) /\ Known(Whole(listed[n])) => Archived(listed[n])
    PROVE  IInv'
<1>1. stage' = "idle" /\ todo' = {} /\ DOMAIN importing' = {} /\ listed' = listed
    BY EndsFacts, EndsList
<1>2. PhotosInv' /\ NamesInv'
    BY <1>1 DEF IInv, PhotosInv, NamesInv
<1>3. StageInv'
    BY <1>1 DEF IInv, StageInv, Imports, SameFaults
<1>4. ArriveInv'
    BY <1>1 DEF ArriveInv, Fetching, Imports, Archived, SameFaults
<1>5. PartsInv'
    BY <1>1
    DEF IInv, PartsInv, Imports, Archived, Importing, WholeInCache, Listed, Unknown, Fetching, SameFaults
<1> QED
    BY <1>2, <1>3, <1>4, <1>5 DEF IInv

\* A run that begins has listed nothing.
LEMMA StartKeepsInv ==
    ASSUME IInv, TypeOK', Start
    PROVE  IInv'
<1>1. /\ stage = "idle" /\ stage' = "pwd" /\ after' = "list" /\ DOMAIN listed' = {}
      /\ UNCHANGED <<phone, taken, todo, importing, cache, archive>>
      /\ ~said' /\ ~cut' /\ (ever' <=> ever)
    BY StartFacts
<1>2. ~Fetching' /\ ~Fetching /\ ~Imports' /\ ~Imports
    BY <1>1 DEF Fetching, Imports
<1>3. PhotosInv' /\ NamesInv'
    BY <1>1 DEF IInv, PhotosInv, NamesInv
<1>4. StageInv'
    BY <1>1, <1>2 DEF IInv, StageInv
<1>5. ArriveInv'
    BY <1>1 DEF ArriveInv
<1>6. PartsInv'
    BY <1>1, <1>2 DEF IInv, PartsInv, Archived, Importing, WholeInCache
<1> QED
    BY <1>3, <1>4, <1>5, <1>6 DEF IInv

\* A list of the phone is complete, unless the client was killed.
LEMMA ListKeepsInv ==
    ASSUME IInv, TypeOK', ListFiles
    PROVE  IInv'
<1>1. /\ stage = "list"
      /\ UNCHANGED <<phone, taken, todo, importing, cache, archive>> /\ (said' <=> said)
    BY ListFacts
<1>2. CASE listed' = listed /\ stage' = "pwd" /\ after' = "list" /\ SameFaults
    BY <1>1, <1>2, QuietKeepsInv DEF Fetching, SameFlags
<1>3. ASSUME NEW S \in SUBSET phone, Lists(S), stage' = "compare",
             (S = phone /\ SameFaults) \/ (cut' /\ ever')
      PROVE  IInv'
    <2>1. ~Fetching' /\ ~Fetching /\ ~Imports' /\ ~Imports /\ todo' = {} /\ ~said'
        BY <1>1, <1>3 DEF Fetching, Imports, IInv, StageInv
    <2>2. /\ DOMAIN listed' = {Name[p] : p \in S}
          /\ \A n \in DOMAIN listed' : listed'[n] \in S /\ Name[listed'[n]] = n
        BY <1>3 DEF Lists
    <2>3. PhotosInv'
        BY <1>1, <1>3, <2>2 DEF IInv, TypeOK, FilesOK, PhotosInv
    <2>4. NamesInv'
        BY <1>1 DEF IInv, NamesInv
    <2>5. StageInv'
        BY <1>1, <1>3, <2>1 DEF IInv, StageInv, SameFaults
    <2>6. ArriveInv'
        BY <1>3, <2>1 DEF ArriveInv
    <2>7. CASE S = phone /\ SameFaults
        <3>1. ASSUME NEW p \in phone PROVE Listed(p)'
            <4>1. Name[p] \in DOMAIN listed'
                BY <2>2, <2>7
            <4>2. listed'[Name[p]] \in phone /\ Name[listed'[Name[p]]] = Name[p]
                BY <2>2, <2>7, <4>1
            <4>3. listed'[Name[p]] = p
                BY <4>2 DEF IInv, PhotosInv
            <4> QED
                BY <4>1, <4>3 DEF Listed
        <3>2. PartsInv'
            BY <1>1, <2>7, <3>1
            DEF IInv, PartsInv, Archived, Importing, WholeInCache, SameFaults
        <3> QED
            BY <2>3, <2>4, <2>5, <2>6, <3>2 DEF IInv
    <2>8. CASE cut' /\ ever'
        BY <2>3, <2>4, <2>5, <2>6, <2>8 DEF IInv, PartsInv
    <2> QED
        BY <1>3, <2>7, <2>8
<1> QED
    BY <1>2, <1>3, ListFacts

\* What check_if_already_exists finds for a photo that no other is alike is it.
LEMMA ExistsMeansArchived ==
    ASSUME IInv, NEW p \in Photos, Unique(p), check_if_already_exists(p)
    PROVE  Archived(p)
<1>1. PICK name \in DOMAIN archive : SizeOf(archive[name]) = Size[p] /\ name.suffix = Suffix[p]
    BY DEF check_if_already_exists
<1> DEFINE q == archive[name].photo
<1>2. archive[name] \in Kept /\ q \in Photos
    BY KeepFacts DEF IInv, TypeOK, FilesOK
<1>3. archive[name].whole /\ Size[q] = Size[p]
    <2>1. SizeOf(archive[name]) # 0
        BY <1>1, PhotoAssumption
    <2>2. archive[name].whole
        BY <1>2, <2>1, KeepFacts, Zenon
    <2> QED
        BY <1>1, <1>2, <2>2, KeepFacts, Zenon
<1>4. normalizedFile(Whole(q)) = name
    BY <1>3 DEF IInv, NamesInv
<1>5. Suffix[q] = Suffix[p]
    BY <1>1, <1>2, <1>4, FileFacts, WholeAndPart
<1>6. q = p
    BY <1>2, <1>3, <1>5 DEF Unique, Alike
<1> QED
    BY <1>3, <1>6 DEF Archived

\* And what the cache has for it: names that are the same have one suffix.
LEMMA CachedMeansWhole ==
    ASSUME IInv, NEW p \in Photos, Unique(p), Cached(p)
    PROVE  WholeInCache(p)
<1>1. Name[p] \in DOMAIN cache /\ SizeOf(cache[Name[p]]) = Size[p]
    BY DEF Cached
<1>2. cache[Name[p]] \in Files /\ Name[cache[Name[p]].photo] = Name[p]
    BY <1>1 DEF IInv, TypeOK, FilesOK, PhotosInv
<1>3. Suffix[cache[Name[p]].photo] = Suffix[p]
    BY <1>2, FileFacts, PhotoAssumption
<1>4. cache[Name[p]] = Whole(p)
    BY <1>1, <1>2, <1>3, OnlyTheWhole
<1> QED
    BY <1>1, <1>4 DEF WholeInCache

\* A photo that is in the cache is not fetched again.
LEMMA WholeMeansCached ==
    ASSUME NEW p \in Photos, WholeInCache(p)
    PROVE  Cached(p)
<1>1. Name[p] \in DOMAIN cache /\ cache[Name[p]] = Whole(p)
    BY DEF WholeInCache
<1>2. SizeOf(Whole(p)) = Size[p] /\ Whole(p).photo = p /\ Hour[p] \in Nat
    BY WholeAndPart, PhotoAssumption
<1>3. -2 < Hour[p] - Hour[p] /\ Hour[p] - Hour[p] < 2
    BY <1>2
<1> QED
    BY <1>1, <1>2, <1>3 DEF Cached

\* What is neither archived nor cached is to be fetched.
LEMMA CompareKeepsInv ==
    ASSUME IInv, TypeOK', Compare
    PROVE  IInv'
<1>1. stage = "compare" /\ UNCHANGED <<phone, taken, cache, archive>> /\ SameFaults
    BY CompareFacts
<1>2. \A n \in DOMAIN listed : listed[n] \in Photos /\ Name[listed[n]] = n
    BY DEF IInv, TypeOK, FilesOK, PhotosInv
<1>3. \A n \in DOMAIN listed : n \in New \/ (Unique(listed[n]) => Archived(listed[n]))
    BY <1>2, ExistsMeansArchived DEF New
<1>4. CASE New = {} /\ EndsWell
    BY <1>1, <1>3, <1>4, EndsWellKeepsInv
<1>5. CASE /\ todo' = {n \in New : ~Cached(listed[n])}
           /\ stage' = "fetch"
           /\ UNCHANGED <<after, attempts, listed, importing>> /\ SameFlags
    <2>1. /\ todo' = {n \in New : ~Cached(listed[n])} /\ stage' = "fetch"
          /\ UNCHANGED <<after, listed, importing>>
          /\ SameFlags /\ Fetching' /\ ~said /\ ~Imports' /\ ~Imports
        BY <1>1, <1>5 DEF Fetching, Imports, IInv, StageInv
    <2>2. PhotosInv' /\ NamesInv'
        BY <1>1, <2>1 DEF IInv, PhotosInv, NamesInv
    <2>3. \A n \in todo' : n \in DOMAIN listed /\ ~WholeInCache(listed[n])
        BY <1>2, <2>1, WholeMeansCached DEF New
    <2>4. StageInv'
        BY <1>1, <2>1, <2>3 DEF IInv, StageInv, WholeInCache, SameFlags, SameFaults
    <2>5. ASSUME NEW n \in DOMAIN listed, Unique(listed[n])
          PROVE  Archived(listed[n]) \/ n \in todo' \/ WholeInCache(listed[n])
        BY <1>2, <1>3, <2>1, <2>5, CachedMeansWhole
    <2>6. ArriveInv'
        BY <1>1, <2>1, <2>5
        DEF ArriveInv, Archived, WholeInCache, SameFlags, SameFaults
    <2>7. PartsInv'
        BY <1>1, <2>1
        DEF IInv, PartsInv, Archived, Importing, WholeInCache, Listed, Unknown, SameFaults
    <2> QED
        BY <2>2, <2>4, <2>6, <2>7 DEF IInv
<1> QED
    BY <1>4, <1>5, CompareFacts

\* A photo on the phone that beak has not listed, but whose name it has, is
\* unknown to it; one that it still has to fetch is not in the archive.
LEMMA ToFetchIsNotArchived ==
    ASSUME IInv, stage = "fetch", ~ever, NEW n \in todo, NEW p \in phone, Unique(p), Name[p] = n
    PROVE  ~Archived(p) /\ ~Importing(p)
<1>1. n \in DOMAIN listed /\ ~WholeInCache(listed[n]) /\ p \in Photos
    BY DEF IInv, StageInv, TypeOK, FilesOK
<1>2. CASE listed[n] = p
    BY <1>1, <1>2 DEF IInv, PartsInv
<1>3. CASE listed[n] # p
    <2>1. ~Listed(p)
        BY <1>1, <1>3 DEF Listed, IInv, PhotosInv
    <2>2. Unknown(p)
        BY <2>1 DEF IInv, PartsInv, Fetching
    <2> QED
        BY <1>1, <2>2, WholeAndPart DEF Unknown, Archived, Importing
<1> QED
    BY <1>2, <1>3

\* A fetch brings the photo that was listed, or leaves it to be fetched again.
LEMMA FetchKeepsInv ==
    ASSUME IInv, TypeOK', NEW n \in Names, Fetch(n)
    PROVE  IInv'
<1> DEFINE p0 == listed[n]
<1>1. /\ stage = "fetch" /\ n \in todo
      /\ UNCHANGED <<phone, taken, listed, importing, archive>> /\ (said' <=> said)
      /\ \A m \in DOMAIN cache : m \in DOMAIN cache' /\ (m # n => cache'[m] = cache[m])
      /\ \A m \in DOMAIN cache' : m # n => m \in DOMAIN cache
    BY FetchFacts
<1>2. \/ /\ SameFaults /\ todo' = todo \ {n} /\ UNCHANGED <<stage, after>>
         /\ n \in DOMAIN cache' /\ cache'[n] = Whole(p0)
      \/ /\ cut' /\ ever' /\ todo' = todo \ {n} /\ UNCHANGED <<stage, after>>
         /\ cache' = cache \/ (n \in DOMAIN cache' /\ cache'[n] = Part(p0))
      \/ /\ SameFaults /\ todo' = todo /\ stage' = "pwd" /\ after' = "prime"
         /\ cache' = cache \/ (n \in DOMAIN cache' /\ cache'[n] = Part(p0))
    BY FetchFacts
<1>3. /\ n \in DOMAIN listed /\ p0 \in Photos /\ Name[p0] = n /\ p0 \in taken
      /\ \A m \in DOMAIN listed : listed[m] \in Photos /\ Name[listed[m]] = m
      /\ phone \subseteq Photos
    BY <1>1 DEF IInv, StageInv, TypeOK, FilesOK, PhotosInv
<1>4. /\ Whole(p0).photo = p0 /\ Part(p0).photo = p0
      /\ \A p \in Photos : Part(p0) # Whole(p)
    BY <1>3, WholeAndPart
<1>5. ASSUME NEW m \in DOMAIN cache'
      PROVE  (m \in DOMAIN cache /\ cache'[m] = cache[m]) \/ (m = n /\ cache'[m].photo = p0)
    <2>1. CASE m # n
        BY <1>1, <1>5, <2>1
    <2>2. CASE m = n
        BY <1>2, <1>4, <1>5, <2>2
    <2> QED
        BY <2>1, <2>2
<1>6. ASSUME NEW p \in Photos, Name[p] # n
      PROVE  WholeInCache(p)' <=> WholeInCache(p)
    BY <1>1, <1>6 DEF WholeInCache
<1>7. Fetching /\ Fetching'
    BY <1>1, <1>2 DEF Fetching
<1>8. PhotosInv'
    BY <1>1, <1>3, <1>5 DEF IInv, PhotosInv
<1>9. NamesInv'
    BY <1>1 DEF IInv, NamesInv, StageInv, Imports
<1>10. StageInv'
    <2>1. ASSUME NEW m \in todo' PROVE ~WholeInCache(listed[m])'
        <3>1. m \in todo /\ m \in DOMAIN listed /\ ~WholeInCache(listed[m])
            BY <1>2 DEF IInv, StageInv
        <3>2. CASE m # n
            BY <1>1, <1>3, <3>1, <3>2 DEF WholeInCache
        <3>3. CASE m = n /\ cache' # cache
            <4>1. cache'[n] = Part(p0)
                BY <1>2, <3>3
            <4> QED
                BY <1>1, <1>3, <1>4, <3>3, <4>1 DEF WholeInCache
        <3>4. CASE cache' = cache
            BY <1>1, <3>1, <3>4 DEF WholeInCache
        <3> QED
            BY <3>2, <3>3, <3>4
    <2>2. todo' \subseteq DOMAIN listed' /\ stage' \in {"fetch", "pwd"}
        BY <1>1, <1>2 DEF IInv, StageInv
    <2>3. ~said' /\ (cut' => ever') /\ DOMAIN importing' = {}
        BY <1>1, <1>2 DEF IInv, StageInv, Imports, SameFaults
    <2> QED
        BY <1>1, <1>7, <2>1, <2>2, <2>3 DEF StageInv, Imports
<1>11. ArriveInv'
    <2> SUFFICES ASSUME ~cut', NEW m \in DOMAIN listed, Unique(listed[m])
                 PROVE  Archived(listed[m]) \/ m \in todo' \/ WholeInCache(listed[m])'
        <3>1. ~Imports' /\ ~said'
            BY <1>1, <1>2 DEF IInv, StageInv, Imports
        <3> QED
            BY <1>1, <3>1 DEF ArriveInv, Archived
    <2>1. Archived(listed[m]) \/ m \in todo \/ WholeInCache(listed[m])
        BY <1>2, <1>7 DEF IInv, ArriveInv, SameFaults
    <2>2. CASE m # n
        BY <1>1, <1>2, <1>3, <2>1, <2>2 DEF WholeInCache
    <2>3. CASE m = n
        <3>1. n \in todo' \/ (n \in DOMAIN cache' /\ cache'[n] = Whole(p0))
            BY <1>1, <1>2
        <3> QED
            BY <1>1, <1>3, <2>3, <3>1 DEF WholeInCache
    <2> QED
        BY <2>2, <2>3
<1>12. PartsInv'
    <2> SUFFICES ASSUME ~ever', NEW p \in phone
                 PROVE  /\ Listed(p) \/ Unknown(p)'
                        /\ Unique(p) /\ (Archived(p) \/ Importing(p)) => WholeInCache(p)'
                        /\ Unique(p) =>
                            /\ \A name \in DOMAIN importing : importing[name] # Part(p)
                            /\ \A name \in DOMAIN archive :
                                 archive[name].photo = p => name = normalizedFile(Whole(p))
        BY <1>1 DEF PartsInv, Archived, Importing, Listed
    <2>1. ~ever /\ p \in Photos
        BY <1>2, <1>3 DEF SameFaults
    <2>2. Listed(p) \/ Unknown(p)'
        <3>1. Listed(p) \/ Unknown(p)
            BY <1>7, <2>1 DEF IInv, PartsInv
        <3>2. CASE p = p0
            BY <1>3, <3>2 DEF Listed
        <3>3. CASE p # p0 /\ Unknown(p)
            BY <1>1, <1>5, <3>3 DEF Unknown
        <3> QED
            BY <3>1, <3>2, <3>3
    <2>3. ASSUME Unique(p), Archived(p) \/ Importing(p) PROVE WholeInCache(p)'
        <3>1. Name[p] # n
            BY <1>1, <2>1, <2>3, ToFetchIsNotArchived
        <3>2. WholeInCache(p)
            BY <2>1, <2>3 DEF IInv, PartsInv
        <3> QED
            BY <1>6, <2>1, <3>1, <3>2
    <2> QED
        BY <2>1, <2>2, <2>3 DEF IInv, PartsInv
<1> QED
    BY <1>8, <1>9, <1>10, <1>11, <1>12 DEF IInv

\* Importing begins when nothing is left to fetch: every photo that was listed
\* is in the archive or in the cache, and of those that are on the phone no part.
LEMMA ScanCacheKeepsInv ==
    ASSUME IInv, TypeOK', ScanCache
    PROVE  IInv'
<1>1. /\ stage = "fetch" /\ todo = {} /\ stage' = "import"
      /\ UNCHANGED <<phone, taken, listed, todo, cache, archive>>
      /\ SameFlags
    BY ScanCacheFacts
<1>2. \A name \in DOMAIN importing' :
        \E n \in DOMAIN cache : /\ importing'[name] = cache[n] /\ Known(cache[n])
                                /\ normalizedFile(cache[n]) = name
    BY ScanCacheFacts
<1>3. \A n \in DOMAIN cache : Known(cache[n]) => normalizedFile(cache[n]) \in DOMAIN importing'
    BY ScanCacheFacts
<1>4. \A n \in DOMAIN cache :
        cache[n] \in Files /\ Name[cache[n].photo] = n /\ cache[n].photo \in taken
    BY DEF IInv, TypeOK, FilesOK, PhotosInv
<1>5. Fetching /\ ~Fetching' /\ ~said /\ ~Imports /\ Imports'
    BY <1>1 DEF Fetching, Imports, IInv, StageInv
<1>6. PhotosInv'
    BY <1>1, <1>2, <1>4 DEF IInv, PhotosInv
<1>7. NamesInv'
    BY <1>1, <1>2 DEF IInv, NamesInv
<1>8. StageInv'
    BY <1>1, <1>5 DEF IInv, StageInv, SameFlags, SameFaults
<1>9. ASSUME NEW p \in Photos, Unique(p), Known(Whole(p)), WholeInCache(p) PROVE Importing(p)'
    <2>1. PICK name \in DOMAIN importing' : name = normalizedFile(Whole(p))
        BY <1>3, <1>9 DEF WholeInCache
    <2>2. importing'[name] \in Files /\ normalizedFile(importing'[name]) = name
        BY <1>2, <1>4
    <2>3. importing'[name] = Whole(p)
        BY <1>9, <2>1, <2>2, NameOfTheWhole
    <2> QED
        BY <2>3 DEF Importing
<1>10. ArriveInv'
    <2> SUFFICES ASSUME ~cut', NEW n \in DOMAIN listed, Unique(listed[n]), Known(Whole(listed[n]))
                 PROVE  Archived(listed[n]) \/ Importing(listed[n])'
        BY <1>1, <1>5 DEF ArriveInv, Archived, Importing, SameFlags
    <2>1. Archived(listed[n]) \/ WholeInCache(listed[n])
        BY <1>1, <1>5 DEF IInv, ArriveInv, SameFlags, SameFaults
    <2>2. listed[n] \in Photos
        BY DEF IInv, TypeOK, FilesOK
    <2>3. WholeInCache(listed[n]) => \E name \in DOMAIN importing' : importing'[name] = Whole(listed[n])
        BY <1>9, <2>2 DEF Importing
    <2> QED
        BY <1>1, <2>1, <2>3 DEF Importing
<1>11. PartsInv'
    <2> SUFFICES ASSUME ~ever, NEW p \in phone
                 PROVE  /\ Listed(p) \/ Unknown(p)'
                        /\ Unique(p) =>
                            /\ Archived(p) \/ Importing(p)' => WholeInCache(p)
                            /\ \A name \in DOMAIN importing' : importing'[name] # Part(p)
                            /\ \A name \in DOMAIN archive :
                                 archive[name].photo = p => name = normalizedFile(Whole(p))
        BY <1>1 DEF PartsInv, Archived, Importing, Listed, WholeInCache, SameFlags, SameFaults
    <2>1. p \in Photos /\ ~cut
        BY <1>1, <1>5 DEF IInv, TypeOK, FilesOK, StageInv
    <2>2. Listed(p) \/ Unknown(p)
        BY <1>5 DEF IInv, PartsInv
    <2>3. Unknown(p) => Unknown(p)'
        BY <1>1, <1>2 DEF Unknown
    <2>4. ASSUME Unique(p), Importing(p)' PROVE WholeInCache(p)
        <3>1. PICK n \in DOMAIN cache : cache[n] = Whole(p)
            BY <1>2, <2>4 DEF Importing
        <3>2. Name[p] = n
            BY <1>4, <2>1, <3>1, WholeAndPart
        <3> QED
            BY <3>1, <3>2 DEF WholeInCache
    <2>5. ASSUME Unique(p), NEW name \in DOMAIN importing', importing'[name] = Part(p)
          PROVE  FALSE
        <3>1. PICK n \in DOMAIN cache : cache[n] = Part(p)
            BY <1>2, <2>5
        <3>2. Name[p] = n /\ cache[n].photo = p /\ ~WholeInCache(p)
            BY <1>4, <2>1, <3>1, WholeAndPart DEF WholeInCache
        <3>3. Listed(p)
            BY <2>2, <3>1, <3>2 DEF Unknown
        <3>4. n \in DOMAIN listed /\ listed[n] = p
            BY <3>2, <3>3 DEF Listed, IInv, PhotosInv
        <3>5. Archived(p)
            BY <1>1, <1>5, <2>1, <2>5, <3>2, <3>4 DEF IInv, ArriveInv
        <3> QED
            BY <2>5, <3>2, <3>5 DEF IInv, PartsInv
    <2> QED
        BY <2>2, <2>3, <2>4, <2>5 DEF IInv, PartsInv
<1> QED
    BY <1>6, <1>7, <1>8, <1>10, <1>11 DEF IInv

-----------------------------------------------------------------------------
(* Importing                                                               *)

\* The archive is written by copies alone.
LEMMA OthersLeaveArchive ==
    ASSUME IInv, [Next]_vars,
           ~\E name \in DOMAIN importing : Copy(name), ~Create, ~CopyEnds, ~Utime
    PROVE  UNCHANGED archive
<1>1. CASE Start \/ Crash \/ Finish \/ Pwd \/ Device \/ ListFiles \/ Compare \/ PrimeFiles
           \/ ScanCache \/ CopyFails \/ Unplug \/ Plug \/ UNCHANGED vars
           \/ \E n \in Names \cup {Directory} : Refuse(n) \/ Allow(n)
    BY <1>1, StartFacts, CrashFacts, FinishFacts, PwdFacts, DeviceFacts, ListFacts, CompareFacts,
       QuietFacts, ScanCacheFacts, CopyFailsFacts
<1>2. ASSUME NEW n \in Names, Fetch(n) PROVE UNCHANGED archive
    BY <1>2, FetchFacts
<1>3. ASSUME NEW p \in Photos, Take(p) \/ Delete(p) PROVE UNCHANGED archive
    BY <1>3, UserFacts
<1> QED
    BY <1>1, <1>2, <1>3 DEF Next, Program

\* A file in the archive, and that it has been stamped.
StaysAs(name) ==
    /\ name \in DOMAIN archive'
    /\ archive'[name] \in {archive[name], Keep(archive[name], TRUE)}

FromCache(name) ==
    /\ ~archive[name].stamped \/ Masked
    /\ \E n \in DOMAIN cache' : cache'[n].whole /\ normalizedFile(cache'[n]) = name

\* No step writes over a whole photo that was stamped, or without the whole in
\* the cache.
LEMMA WholesStay ==
    ASSUME IInv, [Next]_vars, NEW name \in DOMAIN archive, archive[name].whole
    PROVE  StaysAs(name) \/ FromCache(name)
<1> DEFINE q == archive[name].photo
<1>1. /\ archive[name] \in Kept /\ q \in Photos /\ normalizedFile(Whole(q)) = name
      /\ SizeOf(archive[name]) = Size[q] /\ Size[q] # 0
    BY KeepFacts DEF IInv, TypeOK, FilesOK, NamesInv
<1>2. ASSUME NEW other \in DOMAIN importing, Copy(other)
      PROVE  StaysAs(name) \/ FromCache(name)
    <2>1. CASE UNCHANGED archive
        BY <2>1 DEF StaysAs
    <2>2. CASE /\ ~UpToDate(other)
               /\ DOMAIN archive' = DOMAIN archive \ {other}
               /\ \A m \in DOMAIN archive' : archive'[m] = archive[m]
        <3>1. CASE name # other
            BY <2>2, <3>1 DEF StaysAs
        <3>2. CASE name = other
            <4>1. PICK n \in DOMAIN cache : cache[n] = importing[name]
                BY <3>2 DEF IInv, NamesInv
            <4>2. importing[name] \in Files /\ normalizedFile(importing[name]) = name
                BY <3>2 DEF IInv, TypeOK, FilesOK, NamesInv
            <4>3. SizeOf(importing[name]) = Size[q]
                <5>1. normalizedFile(Whole(q)).size = Size[q]
                    BY <1>1, FileFacts, WholeAndPart
                <5>2. normalizedFile(importing[name]).size = SizeOf(importing[name])
                    BY <4>2, FileFacts
                <5> QED
                    BY <1>1, <4>2, <5>1, <5>2
            <4>4. importing[name].whole
                <5>1. ~importing[name].whole => SizeOf(importing[name]) = 0
                    BY <4>2, FileFacts
                <5> QED
                    BY <1>1, <4>3, <5>1
            <4>5. ~archive[name].stamped \/ Masked
                BY <1>1, <2>2, <3>2, <4>3, Zenon DEF UpToDate
            <4>6. UNCHANGED cache
                BY <1>2, CopyFacts DEF SamePlaces
            <4>7. cache'[n].whole /\ normalizedFile(cache'[n]) = name /\ n \in DOMAIN cache'
                BY <4>1, <4>2, <4>4, <4>6
            <4> QED
                BY <4>5, <4>7, Zenon DEF FromCache
        <3> QED
            BY <3>1, <3>2
    <2> QED
        BY <1>2, <2>1, <2>2, CopyFacts
<1>3. ASSUME NEW file, Writes(file), after # name \/ file = Keep(archive[name], TRUE)
      PROVE  StaysAs(name)
    BY <1>3 DEF Writes, StaysAs
<1>4. CASE Create
    <2>1. after # name
        BY <1>4, CreateFacts DEF IInv, StageInv
    <2> QED
        BY <1>3, <1>4, <2>1, CreateFacts, Zenon
<1>5. CASE CopyEnds
    <2>1. after # name
        BY <1>5, CopyEndsFacts DEF IInv, StageInv
    <2> QED
        BY <1>3, <1>5, <2>1, CopyEndsFacts, Zenon
<1>6. CASE Utime
    <2>1. CASE archive' = archive
        BY <2>1 DEF StaysAs
    <2>2. CASE Writes(Keep(archive[after], TRUE))
        <3>1. after # name \/ Keep(archive[after], TRUE) = Keep(archive[name], TRUE)
            OBVIOUS
        <3> QED
            BY <1>3, <2>2, <3>1, Zenon
    <2> QED
        BY <1>6, <2>1, <2>2, UtimeFacts
<1>7. CASE UNCHANGED archive
    BY <1>7 DEF StaysAs
<1> QED
    BY <1>2, <1>4, <1>5, <1>6, <1>7, OthersLeaveArchive

\* A photo that is archived stays so, or is imported again: it is the only one
\* that has its name.
LEMMA ArchivedGoesOn ==
    ASSUME IInv, NEW name \in DOMAIN importing, NEW p \in Photos, Unique(p),
           name \in DOMAIN archive, archive[name].photo = p, archive[name].whole
    PROVE  importing[name] = Whole(p)
<1>1. normalizedFile(Whole(p)) = name
    BY DEF IInv, NamesInv
<1>2. importing[name] \in Files /\ normalizedFile(importing[name]) = name
    BY DEF IInv, TypeOK, FilesOK, NamesInv
<1> QED
    BY <1>1, <1>2, NameOfTheWhole

\* A file that a copy leaves in the archive was there before, at most stamped, or
\* is of the photo that is imported under its name, and a whole only if that is.
Derived(m) ==
    \/ /\ m \in DOMAIN archive /\ archive'[m].photo = archive[m].photo
       /\ archive'[m].whole => archive[m].whole
    \/ /\ m \in DOMAIN importing /\ archive'[m].photo = importing[m].photo
       /\ archive'[m].whole => importing[m].whole

\* What a step of the import leaves to be imported, and in the archive.
ImportStep ==
    /\ Imports /\ Imports' /\ SamePlaces /\ (said' <=> said) /\ (ever' <=> ever)
    /\ DOMAIN importing' \subseteq DOMAIN importing
    /\ \A m \in DOMAIN importing' : importing'[m] = importing[m]
    /\ \A m \in DOMAIN archive' : Derived(m)

\* A file that is imported is a whole photo or a part of it, of a known type, and
\* was taken.
LEMMA ImportingFacts ==
    ASSUME IInv, NEW m \in DOMAIN importing
    PROVE  /\ importing[m] \in Files /\ importing[m].photo \in Photos
           /\ importing[m].photo \in taken
           /\ Suffix[importing[m].photo] \in Media
           /\ normalizedFile(importing[m]) = m
           /\ importing[m].whole => importing[m] = Whole(importing[m].photo)
           /\ ~importing[m].whole => importing[m] = Part(importing[m].photo)
BY FileFacts DEF IInv, TypeOK, FilesOK, NamesInv, PhotosInv, Known

\* Such a step keeps the names, and what is known of the parts.
LEMMA ImportStepKeeps ==
    ASSUME IInv, ImportStep
    PROVE  PhotosInv' /\ NamesInv' /\ PartsInv'
<1>1. /\ UNCHANGED <<phone, taken, listed, todo, cache>>
      /\ DOMAIN importing' \subseteq DOMAIN importing
      /\ \A m \in DOMAIN importing' : importing'[m] = importing[m]
      /\ Imports /\ (said' <=> said) /\ (ever' <=> ever)
    BY DEF ImportStep, SamePlaces
<1>2. \A m \in DOMAIN archive' : Derived(m)
    BY DEF ImportStep
<1>3. ASSUME NEW m \in DOMAIN archive'
      PROVE  /\ archive'[m].photo \in taken /\ Suffix[archive'[m].photo] \in Media
             /\ archive'[m].whole => normalizedFile(Whole(archive'[m].photo)) = m
    <2>1. CASE /\ m \in DOMAIN archive /\ archive'[m].photo = archive[m].photo
               /\ archive'[m].whole => archive[m].whole
        BY <2>1 DEF IInv, NamesInv, PhotosInv
    <2>2. CASE /\ m \in DOMAIN importing /\ archive'[m].photo = importing[m].photo
               /\ archive'[m].whole => importing[m].whole
        BY <2>2, ImportingFacts
    <2> QED
        BY <1>2, <2>1, <2>2 DEF Derived
<1>4. PhotosInv'
    BY <1>1, <1>3 DEF IInv, PhotosInv
<1>5. NamesInv'
    BY <1>1, <1>3 DEF IInv, NamesInv
<1>6. PartsInv'
    <2> SUFFICES ASSUME ~ever, NEW p \in phone
                 PROVE  /\ Listed(p) \/ Unknown(p)'
                        /\ Unique(p) =>
                            /\ Archived(p)' \/ Importing(p)' => WholeInCache(p)
                            /\ \A m \in DOMAIN importing' : importing'[m] # Part(p)
                            /\ \A m \in DOMAIN archive' :
                                 archive'[m].photo = p => m = normalizedFile(Whole(p))
        BY <1>1 DEF PartsInv, Archived, Importing, Listed, WholeInCache
    <2>1. p \in Photos /\ (Listed(p) \/ Unknown(p))
        BY <1>1 DEF IInv, TypeOK, FilesOK, PartsInv
    <2>2. Unknown(p) => Unknown(p)'
        BY <1>1, <1>2 DEF Unknown, Derived
    <2>3. Importing(p)' => Importing(p)
        BY <1>1 DEF Importing
    <2>4. Archived(p)' => Archived(p) \/ Importing(p)
        <3> SUFFICES ASSUME NEW m \in DOMAIN archive', archive'[m].photo = p, archive'[m].whole
                     PROVE  Archived(p) \/ Importing(p)
            BY DEF Archived
        <3>1. Derived(m)
            BY <1>2
        <3> QED
            BY <3>1, ImportingFacts DEF Derived, Archived, Importing
    <2>5. ASSUME Unique(p), NEW m \in DOMAIN archive', archive'[m].photo = p
          PROVE  m = normalizedFile(Whole(p))
        <3>1. CASE m \in DOMAIN archive /\ archive[m].photo = p
            BY <2>5, <3>1 DEF IInv, PartsInv
        <3>2. CASE m \in DOMAIN importing /\ importing[m].photo = p
            <4>1. importing[m] # Part(p)
                BY <2>5, <3>2 DEF IInv, PartsInv
            <4>2. importing[m] = Whole(p)
                BY <3>2, <4>1, ImportingFacts
            <4> QED
                BY <3>2, <4>2, ImportingFacts
        <3> QED
            BY <1>2, <2>5, <3>1, <3>2 DEF Derived
    <2> QED
        BY <1>1, <2>1, <2>2, <2>3, <2>4, <2>5 DEF IInv, PartsInv
<1> QED
    BY <1>4, <1>5, <1>6

\* And the rest of the invariant if it arrives where it should.
LEMMA ImportStepKeepsInv ==
    ASSUME IInv, TypeOK', ImportStep, StageInv',
           ~cut' => ~cut /\ \A p \in Photos : Unique(p) /\ (Archived(p) \/ Importing(p))
                                         => Archived(p)' \/ Importing(p)'
    PROVE  IInv'
<1>1. /\ UNCHANGED <<phone, taken, listed, todo, cache>>
      /\ Imports /\ Imports' /\ (said' <=> said) /\ (ever' <=> ever)
    BY DEF ImportStep, SamePlaces
<1>2. ~Fetching' /\ ~said'
    BY <1>1 DEF Fetching, Imports, IInv, StageInv
<1>3. ArriveInv'
    <2> SUFFICES ASSUME ~cut', NEW n \in DOMAIN listed, Unique(listed[n]), Known(Whole(listed[n]))
                 PROVE  Archived(listed[n])' \/ Importing(listed[n])'
        BY <1>1, <1>2 DEF ArriveInv, Archived, Importing
    <2>1. Archived(listed[n]) \/ Importing(listed[n])
        BY <1>1 DEF IInv, ArriveInv
    <2>2. listed[n] \in Photos /\ UNCHANGED listed
        BY <1>1 DEF IInv, TypeOK, FilesOK
    <2>3. \A p \in Photos : Unique(p) /\ (Archived(p) \/ Importing(p))
                          => Archived(p)' \/ Importing(p)'
        OBVIOUS
    <2> QED
        BY <2>1, <2>2, <2>3 DEF Archived, Importing
<1> QED
    BY <1>3, ImportStepKeeps DEF IInv

\* A file that is up to date is a whole photo if the one to import is.
LEMMA UpToDateMeansArchived ==
    ASSUME IInv, NEW name \in DOMAIN importing, UpToDate(name),
           NEW p \in Photos, Unique(p), importing[name] = Whole(p)
    PROVE  Archived(p)
<1>1. name \in DOMAIN archive /\ SizeOf(archive[name]) = SizeOf(importing[name])
    BY Zenon DEF UpToDate
<1>2. SizeOf(archive[name]) = Size[p] /\ Size[p] # 0
    BY <1>1, WholeAndPart, PhotoAssumption
<1>3. archive[name] \in Kept
    BY <1>1 DEF IInv, TypeOK, FilesOK
<1>4. archive[name].whole
    BY <1>2, <1>3, KeepFacts
<1> DEFINE q == archive[name].photo
<1>5. q \in Photos /\ normalizedFile(Whole(q)) = name /\ normalizedFile(Whole(p)) = name
    BY <1>1, <1>3, <1>4, KeepFacts, ImportingFacts DEF IInv, NamesInv
<1>6. Whole(q) \in Files /\ Whole(q).photo = q /\ Whole(p).photo = p
    BY <1>5, WholeAndPart
<1>7. q = p
    BY <1>5, <1>6, NameOfTheWhole
<1> QED
    BY <1>1, <1>4, <1>7 DEF Archived

\* A copy that begins takes the place of a photo that is imported, and one that is
\* up to date is left out.
LEMMA CopyKeepsInv ==
    ASSUME IInv, TypeOK', NEW name \in DOMAIN importing, Copy(name)
    PROVE  IInv'
<1>1. SamePlaces /\ SameFlags /\ stage = "import"
    BY CopyFacts
<1>2. Imports /\ ~Fetching /\ ~Fetching' /\ ~said /\ todo = {} /\ ~said' /\ todo' = {}
    BY <1>1, CopyFacts DEF Imports, Fetching, IInv, StageInv, SamePlaces, SameFlags
<1>3. CASE /\ UpToDate(name) /\ UNCHANGED <<archive, stage>>
           /\ DOMAIN importing' = DOMAIN importing \ {name}
           /\ \A m \in DOMAIN importing' : importing'[m] = importing[m]
    <2>1. ImportStep
        BY <1>1, <1>2, <1>3 DEF ImportStep, Derived, Imports, SameFlags, SameFaults
    <2>2. StageInv'
        BY <1>1, <1>2, <1>3 DEF StageInv, Imports
    <2>3. ASSUME NEW p \in Photos, Unique(p), Archived(p) \/ Importing(p)
          PROVE  Archived(p)' \/ Importing(p)'
        <3>1. CASE Archived(p)
            BY <1>3, <3>1 DEF Archived
        <3>2. CASE importing[name] = Whole(p)
            <4>1. Archived(p)
                BY <1>3, <2>3, <3>2, UpToDateMeansArchived
            <4> QED
                BY <3>1, <4>1
        <3>3. ASSUME NEW m \in DOMAIN importing, m # name, importing[m] = Whole(p)
              PROVE  Importing(p)'
            BY <1>3, <3>3 DEF Importing
        <3> QED
            BY <2>3, <3>1, <3>2, <3>3 DEF Importing
    <2> QED
        BY <1>1, <2>1, <2>2, <2>3, ImportStepKeepsInv DEF SameFlags, SameFaults
<1>4. CASE /\ importing' = importing
           /\ stage' = "create" /\ after' = name
           /\ DOMAIN archive' = DOMAIN archive \ {name}
           /\ \A m \in DOMAIN archive' : archive'[m] = archive[m]
    <2>1. ImportStep
        BY <1>1, <1>2, <1>4 DEF ImportStep, Derived, Imports, SameFlags, SameFaults
    <2>2. StageInv'
        BY <1>1, <1>2, <1>4 DEF StageInv, Imports
    <2>3. ASSUME NEW p \in Photos, Unique(p), Archived(p) \/ Importing(p)
          PROVE  Archived(p)' \/ Importing(p)'
        <3>1. CASE Importing(p)
            BY <1>4, <3>1 DEF Importing
        <3>2. ASSUME NEW m \in DOMAIN archive, archive[m].photo = p, archive[m].whole
              PROVE  Archived(p)' \/ Importing(p)'
            <4>1. CASE m = name
                BY <1>4, <2>3, <3>2, <4>1, ArchivedGoesOn DEF Importing
            <4>2. CASE m # name
                BY <1>4, <3>2, <4>2 DEF Archived
            <4> QED
                BY <4>1, <4>2
        <3> QED
            BY <2>3, <3>1, <3>2 DEF Archived
    <2> QED
        BY <1>1, <2>1, <2>2, <2>3, ImportStepKeepsInv DEF SameFlags, SameFaults
<1> QED
    BY <1>3, <1>4, CopyFacts

\* A file that is written is that of the photo, and whole only if it is.
LEMMA WritesDerived ==
    ASSUME NEW file, Writes(file),
           \/ /\ after \in DOMAIN importing /\ file.photo = importing[after].photo
              /\ file.whole => importing[after].whole
           \/ /\ after \in DOMAIN archive /\ file.photo = archive[after].photo
              /\ file.whole => archive[after].whole
    PROVE  \A m \in DOMAIN archive' : Derived(m)
<1>1. ASSUME NEW m \in DOMAIN archive', m # after PROVE Derived(m)
    BY <1>1 DEF Writes, Derived
<1>2. after \in DOMAIN archive' => Derived(after)
    BY DEF Writes, Derived
<1> QED
    BY <1>1, <1>2

\* A photo that is archived elsewhere stays so.
LEMMA WritesElsewhere ==
    ASSUME NEW file, Writes(file), NEW p, NEW m \in DOMAIN archive, m # after,
           archive[m].photo = p, archive[m].whole
    PROVE  Archived(p)'
BY DEF Writes, Archived

\* A part takes no place of a whole.
LEMMA CreateKeepsInv ==
    ASSUME IInv, TypeOK', Create
    PROVE  IInv'
<1> DEFINE file == Keep(Part(importing[after].photo), FALSE)
<1>1. /\ SamePlaces /\ SameFlags /\ UNCHANGED <<importing, after>>
      /\ stage = "create" /\ stage' = "copy" /\ Writes(file)
    BY CreateFacts
<1>2. /\ Imports /\ Imports' /\ ~Fetching' /\ ~said' /\ todo' = {}
      /\ after \in DOMAIN importing /\ after \notin DOMAIN archive
    BY <1>1 DEF Imports, Fetching, IInv, StageInv, SamePlaces, SameFlags
<1>3. file.photo = importing[after].photo /\ ~file.whole
    <2>1. Part(importing[after].photo) \in Files /\ ~Part(importing[after].photo).whole
          /\ Part(importing[after].photo).photo = importing[after].photo
        BY <1>2, ImportingFacts, WholeAndPart
    <2> QED
        BY <2>1, KeepFacts
<1> HIDE DEF file
<1>4. \A m \in DOMAIN archive' : Derived(m)
    BY <1>1, <1>2, <1>3, WritesDerived
<1>5. ImportStep
    BY <1>1, <1>2, <1>4 DEF ImportStep, SameFlags, SameFaults
<1>6. StageInv'
    BY <1>1, <1>2, <1>3 DEF StageInv, Writes
<1>7. ASSUME NEW p \in Photos, Archived(p) \/ Importing(p)
      PROVE  Archived(p)' \/ Importing(p)'
    BY <1>1, <1>2, <1>7, WritesElsewhere DEF Archived, Importing
<1> QED
    BY <1>1, <1>5, <1>6, <1>7, ImportStepKeepsInv DEF SameFlags, SameFaults

\* A copy that ends has archived what was imported.
LEMMA CopyEndsKeepsInv ==
    ASSUME IInv, TypeOK', CopyEnds
    PROVE  IInv'
<1> DEFINE file == Keep(importing[after], FALSE)
<1>1. /\ SamePlaces /\ SameFlags /\ UNCHANGED <<importing, after>>
      /\ stage = "copy" /\ stage' = "stamp" /\ Writes(file)
    BY CopyEndsFacts
<1>2. /\ Imports /\ Imports' /\ ~Fetching' /\ ~said' /\ todo' = {}
      /\ after \in DOMAIN importing
      /\ after \in DOMAIN archive => ~archive[after].whole
    BY <1>1 DEF Imports, Fetching, IInv, StageInv, SamePlaces, SameFlags
<1>3. file.photo = importing[after].photo /\ (file.whole <=> importing[after].whole)
    BY <1>2, ImportingFacts, KeepFacts
<1> HIDE DEF file
<1>4. \A m \in DOMAIN archive' : Derived(m)
    BY <1>1, <1>2, <1>3, WritesDerived
<1>5. ImportStep
    BY <1>1, <1>2, <1>4 DEF ImportStep, SameFlags, SameFaults
<1>6. StageInv'
    BY <1>1, <1>2, <1>3 DEF StageInv, Writes, Copied
<1>7. ASSUME NEW p \in Photos, Archived(p) \/ Importing(p)
      PROVE  Archived(p)' \/ Importing(p)'
    BY <1>1, <1>2, <1>7, WritesElsewhere DEF Archived, Importing
<1> QED
    BY <1>1, <1>5, <1>6, <1>7, ImportStepKeepsInv DEF SameFlags, SameFaults

\* One that fails is a reason for the photo not to arrive.
LEMMA CopyFailsKeepsInv ==
    ASSUME IInv, TypeOK', CopyFails
    PROVE  IInv'
<1>1. /\ SamePlaces /\ cut' /\ (ever' <=> ever) /\ (said' <=> said)
      /\ UNCHANGED <<importing, archive, after>>
      /\ stage \in {"create", "copy"} /\ stage' = "stamp"
    BY CopyFailsFacts
<1>2. /\ Imports /\ Imports' /\ ~Fetching' /\ ~said' /\ todo' = {}
      /\ after \in DOMAIN importing
    BY <1>1 DEF Imports, Fetching, IInv, StageInv, SamePlaces
<1>3. ImportStep
    BY <1>1, <1>2 DEF ImportStep, Derived
<1>4. StageInv'
    BY <1>1, <1>2 DEF StageInv
<1> QED
    BY <1>1, <1>3, <1>4, ImportStepKeepsInv

\* What was copied is left alone from then on.
LEMMA UtimeKeepsInv ==
    ASSUME IInv, TypeOK', Utime
    PROVE  IInv'
<1> DEFINE file == Keep(archive[after], TRUE)
<1>1. /\ SamePlaces /\ SameFlags
      /\ stage = "stamp" /\ stage' = "import"
      /\ DOMAIN importing' = DOMAIN importing \ {after}
      /\ \A m \in DOMAIN importing' : importing'[m] = importing[m]
      /\ archive' = archive \/ (after \in DOMAIN archive /\ Writes(file))
    BY UtimeFacts
<1>2. /\ Imports /\ Imports' /\ ~Fetching' /\ ~said' /\ todo' = {}
      /\ after \in DOMAIN importing /\ (~cut => Copied)
    BY <1>1 DEF Imports, Fetching, IInv, StageInv, SamePlaces, SameFlags
<1>3. after \in DOMAIN archive => file.photo = archive[after].photo /\ (file.whole <=> archive[after].whole)
    BY KeepFacts DEF IInv, TypeOK, FilesOK
<1> HIDE DEF file
<1>4. \A m \in DOMAIN archive' : Derived(m)
    <2>1. CASE archive' = archive
        BY <2>1 DEF Derived
    <2> QED
        BY <1>1, <1>3, <2>1, WritesDerived
<1>5. ImportStep
    BY <1>1, <1>2, <1>4 DEF ImportStep, SameFlags, SameFaults
<1>6. StageInv'
    BY <1>1, <1>2 DEF StageInv
<1>7. ASSUME NEW p \in Photos, Archived(p)
      PROVE  Archived(p)'
    <2>1. CASE archive' = archive
        BY <1>7, <2>1 DEF Archived
    <2>2. CASE after \in DOMAIN archive /\ Writes(file)
        <3>1. PICK m \in DOMAIN archive : archive[m].photo = p /\ archive[m].whole
            BY <1>7 DEF Archived
        <3>2. CASE m = after
            BY <1>3, <2>2, <3>1, <3>2 DEF Archived, Writes
        <3>3. CASE m # after
            BY <2>2, <3>1, <3>3, WritesElsewhere
        <3> QED
            BY <3>2, <3>3
    <2> QED
        BY <1>1, <2>1, <2>2
<1>8. ASSUME ~cut, NEW p \in Photos, Archived(p) \/ Importing(p)
      PROVE  Archived(p)' \/ Importing(p)'
    <2>1. ASSUME NEW m \in DOMAIN importing, importing[m] = Whole(p), m # after
          PROVE  Importing(p)'
        BY <1>1, <2>1 DEF Importing
    <2>2. importing[after] = Whole(p) => Archived(p)
        <3>1. Whole(p).photo = p /\ Whole(p).whole
            BY WholeAndPart
        <3> QED
            BY <1>2, <1>8, <3>1 DEF Copied, Archived
    <2> QED
        BY <1>7, <1>8, <2>1, <2>2 DEF Importing
<1> QED
    BY <1>1, <1>5, <1>6, <1>8, ImportStepKeepsInv DEF SameFlags, SameFaults

-----------------------------------------------------------------------------
(* The theorems                                                            *)

\* A photo that is taken now is new to beak.
LEMMA UserKeepsInv ==
    ASSUME IInv, TypeOK', NEW p \in Photos, Take(p) \/ Delete(p)
    PROVE  IInv'
<1>1. /\ UNCHANGED <<stage, after, listed, todo, importing, cache, archive>>
      /\ SameFlags
      /\ \/ /\ p \notin taken /\ \A q \in phone : Name[q] # Name[p]
            /\ phone' = phone \cup {p} /\ taken' = taken \cup {p}
         \/ phone' = phone \ {p} /\ taken' = taken
    BY UserFacts
<1>2. PhotosInv'
    BY <1>1 DEF IInv, PhotosInv
<1>3. NamesInv'
    BY <1>1 DEF IInv, NamesInv
<1>4. StageInv'
    BY <1>1 DEF IInv, StageInv, Imports, Copied, WholeInCache, Fetching, SameFlags, SameFaults
<1>5. ArriveInv'
    BY <1>1
    DEF IInv, ArriveInv, Imports, Archived, Importing, WholeInCache, Fetching, SameFlags, SameFaults
<1>6. PartsInv'
    <2> SUFFICES ASSUME ~ever, NEW q \in phone'
                 PROVE  /\ Fetching \/ Imports \/ stage = "compare" \/ said
                             => Listed(q) \/ Unknown(q)
                        /\ Unique(q) =>
                            /\ Archived(q) \/ Importing(q) => WholeInCache(q)
                            /\ \A m \in DOMAIN importing : importing[m] # Part(q)
                            /\ \A m \in DOMAIN archive :
                                 archive[m].photo = q => m = normalizedFile(Whole(q))
        BY <1>1
        DEF PartsInv, Imports, Archived, Importing, Listed, Unknown, WholeInCache, Fetching,
            SameFlags, SameFaults
    <2>1. CASE q \in phone
        BY <2>1 DEF IInv, PartsInv
    <2>2. CASE q \notin phone
        <3>1. q = p /\ p \notin taken
            BY <1>1, <2>2
        <3>2. Unknown(q)
            BY <3>1 DEF Unknown, IInv, PhotosInv
        <3>3. Whole(q).photo = q /\ Part(q).photo = q
            BY <3>1, WholeAndPart
        <3> QED
            BY <3>2, <3>3 DEF Unknown, Archived, Importing
    <2> QED
        BY <2>1, <2>2
<1> QED
    BY <1>2, <1>3, <1>4, <1>5, <1>6 DEF IInv

\* The invariant is inductive.
LEMMA InvStep == IInv /\ [Next]_vars => IInv'
<1> SUFFICES ASSUME IInv, [Next]_vars PROVE IInv'
    OBVIOUS
<1>1. TypeOK'
    BY TypeStep DEF IInv
<1>2. CASE Start
    BY <1>1, <1>2, StartKeepsInv
<1>3. CASE Crash
    BY <1>1, <1>3, CrashFacts, EndsBadlyKeepsInv
<1>4. CASE Pwd
    <2>1. stage = "pwd" /\ UNCHANGED <<phone, taken, cache, archive>> /\ SameFaults
        BY <1>4, PwdFacts
    <2>2. CASE EndsBadly
        BY <1>1, <2>1, <2>2, EndsBadlyKeepsInv
    <2>3. CASE stage' \in {"pwd", "device"} /\ UNCHANGED <<after, listed, todo, importing>> /\ SameFlags
        BY <1>1, <2>1, <2>3, QuietKeepsInv DEF Fetching
    <2> QED
        BY <1>4, <2>1, <2>2, <2>3, PwdFacts
<1>5. CASE Device
    <2>1. stage = "device" /\ UNCHANGED <<phone, taken, cache, archive>> /\ SameFaults
        BY <1>5, DeviceFacts
    <2>2. CASE EndsBadly
        BY <1>1, <2>1, <2>2, EndsBadlyKeepsInv
    <2>3. CASE stage' = after /\ UNCHANGED <<listed, todo, importing>> /\ SameFlags
        <3>1. after \in {"list", "prime"}
            BY <2>1 DEF IInv, TypeOK, ControlOK
        <3> QED
            BY <1>1, <2>1, <2>3, <3>1, QuietKeepsInv DEF Fetching
    <2> QED
        BY <1>5, <2>2, <2>3, DeviceFacts
<1>6. CASE ListFiles
    BY <1>1, <1>6, ListKeepsInv
<1>7. CASE Compare
    BY <1>1, <1>7, CompareKeepsInv
<1>8. ASSUME NEW n \in Names, Fetch(n) PROVE IInv'
    BY <1>1, <1>8, FetchKeepsInv
<1>9. CASE PrimeFiles
    BY <1>1, <1>9, QuietFacts, QuietKeepsInv DEF Fetching
<1>10. CASE ScanCache
    BY <1>1, <1>10, ScanCacheKeepsInv
<1>11. ASSUME NEW name \in DOMAIN importing, Copy(name) PROVE IInv'
    BY <1>1, <1>11, CopyKeepsInv
<1>12. CASE Create \/ CopyEnds \/ CopyFails \/ Utime
    BY <1>1, <1>12, CreateKeepsInv, CopyEndsKeepsInv, CopyFailsKeepsInv, UtimeKeepsInv
<1>13. CASE Finish
    <2>1. /\ stage = "import" /\ DOMAIN importing = {} /\ EndsWell
          /\ UNCHANGED <<phone, taken, cache, archive>> /\ SameFaults
        BY <1>13, FinishFacts
    <2>2. ~cut => \A n \in DOMAIN listed :
                    Unique(listed[n]) /\ Known(Whole(listed[n])) => Archived(listed[n])
        BY <2>1 DEF IInv, ArriveInv, Imports, Importing
    <2> QED
        BY <1>1, <2>1, <2>2, EndsWellKeepsInv
<1>14. CASE \/ Unplug \/ Plug \/ UNCHANGED vars
            \/ \E n \in Names \cup {Directory} : Refuse(n) \/ Allow(n)
    BY <1>1, <1>14, QuietFacts, QuietKeepsInv DEF Fetching
<1>15. ASSUME NEW p \in Photos, Take(p) \/ Delete(p) PROVE IInv'
    BY <1>1, <1>15, UserKeepsInv
<1> QED
    BY <1>2, <1>3, <1>4, <1>5, <1>6, <1>7, <1>8, <1>9, <1>10, <1>11, <1>12, <1>13, <1>14, <1>15
    DEF Next, Program

\* It holds with no files at all.
LEMMA InvInit == Init => IInv
<1> SUFFICES ASSUME Init PROVE IInv
    OBVIOUS
<1>1. FlagsOK
    BY Zenon DEF Init, FlagsOK
<1>2. ~said /\ ~cut /\ ~ever
    BY Zenon DEF Init
<1>3. /\ DOMAIN listed = {} /\ DOMAIN cache = {} /\ DOMAIN importing = {} /\ DOMAIN archive = {}
      /\ todo = {} /\ stage = "idle" /\ attempts = 0
      /\ phone = First /\ taken = First /\ refused = {}
    BY DEF Init, NoFiles
<1>4. ControlOK /\ RefusedOK /\ FilesOK
    BY <1>3, PhotoAssumption, AttemptsAssumption DEF ControlOK, RefusedOK, FilesOK, Stages
<1>5. PhotosInv /\ NamesInv /\ StageInv
    BY <1>2, <1>3, PhotoAssumption DEF PhotosInv, NamesInv, StageInv, Imports
<1>6. ArriveInv
    BY <1>3 DEF ArriveInv
<1>7. PartsInv
    BY <1>2, <1>3 DEF PartsInv, Fetching, Imports, Archived, Importing
<1> QED
    BY <1>1, <1>4, <1>5, <1>6, <1>7 DEF IInv, TypeOK

\* Every variable keeps its type.
THEOREM TypeCorrect == Spec => []TypeOK
<1>1. IInv => TypeOK
    BY DEF IInv
<1> QED
    BY <1>1, InvInit, InvStep, PTL DEF Spec

\* What beak says it has imported is in the archive, whatever broke before or in
\* that run, but for a file of a type it does not know, a client that was killed
\* or a copy that failed in that run, and a photo that looks the same
\* (import_aft_mtp_cli, scanFile, copy_local_backup_file).
THEOREM ImportedIsArchived == Spec => []DoneMeansArchived
<1>1. IInv => DoneMeansArchived
    BY DEF IInv, StageInv, ArriveInv, DoneMeansArchived, Unique, Archived
<1> QED
    BY <1>1, InvInit, InvStep, PTL DEF Spec

\* A part of a photo is not what is kept of it, as long as the phone has the
\* photo, whatever copies failed in earlier runs.
THEOREM PartsAreReplaced == Spec => []PartsAreOfGonePhotos
<1>1. ASSUME IInv, said, ~ever, ~cut, NEW name \in DOMAIN archive,
             ~archive[name].whole, archive[name].photo \in phone, Unique(archive[name].photo)
      PROVE  FALSE
    <2> DEFINE p == archive[name].photo
    <2>1. p \in Photos /\ Suffix[p] \in Media /\ Whole(p).photo = p
        BY <1>1, KeepFacts, WholeAndPart DEF IInv, TypeOK, FilesOK, NamesInv
    <2>2. Listed(p)
        BY <1>1 DEF IInv, PartsInv, Unknown
    <2>3. Archived(p)
        BY <1>1, <2>1, <2>2 DEF IInv, ArriveInv, Listed, Known
    <2>4. PICK other \in DOMAIN archive : archive[other].photo = p /\ archive[other].whole
        BY <2>3 DEF Archived
    <2>5. other = normalizedFile(Whole(p)) /\ name = normalizedFile(Whole(p))
        BY <1>1, <2>4 DEF IInv, PartsInv
    <2> QED
        BY <1>1, <2>4, <2>5
<1>2. IInv => PartsAreOfGonePhotos
    BY <1>1 DEF PartsAreOfGonePhotos, Unique
<1> QED
    BY <1>2, InvInit, InvStep, PTL DEF Spec

\* A whole photo in the archive is never written over, not by another one that
\* gets its name and not by the same one imported again, unless it was not
\* stamped or the umask makes it look old, and then from the whole in the cache.
THEOREM WholesAreKept == Spec => ArchiveIsKept
<1>1. IInv /\ [Next]_vars
        => [\A name \in DOMAIN archive :
              archive[name].whole =>
                 \/ /\ name \in DOMAIN archive'
                    /\ archive'[name] \in {archive[name], Keep(archive[name], TRUE)}
                 \/ /\ ~archive[name].stamped \/ Masked
                    /\ \E n \in DOMAIN cache' : cache'[n].whole /\ normalizedFile(cache'[n]) = name]_vars
    <2>1. IInv /\ [Next]_vars
            => \A name \in DOMAIN archive : archive[name].whole => StaysAs(name) \/ FromCache(name)
        BY WholesStay
    <2> QED
        BY <2>1, Zenon DEF StaysAs, FromCache
<1> QED
    BY <1>1, InvInit, InvStep, PTL DEF Spec, ArchiveIsKept

=============================================================================
