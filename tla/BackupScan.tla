----------------------------- MODULE BackupScan -----------------------------
(***************************************************************************)
(* How a scan of an origin decides what a backup consists of: which        *)
(* directories become storage directories, which tar every file is put     *)
(* into, and what the index file of each storage directory says.  It is    *)
(* done in passes over the entries that the walk of the origin found, most *)
(* of them deepest entry first.                                            *)
(*                                                                         *)
(* A path is the sequence of the names below the origin, the root is <<>>. *)
(* Sizes are counted in tar blocks; a header is one block.                 *)
(***************************************************************************)
EXTENDS Integers, Sequences, FiniteSets
LOCAL INSTANCE SequencesExt
LOCAL INSTANCE TLC

CONSTANTS
    Inputs,     \* the origins and settings a scan may be given
    Universe,   \* all paths
    Rank,       \* name -> its place in the order of names
    SafeName,   \* relative path of a storage directory -> its safe path
    HashOf,     \* relative path -> its hash
    FoldCase,   \* name -> the name in lower case
    DotBeak,    \* the name of the directory that marks an origin of its own
    Target,     \* the size a tar should have
    SmallPart,  \* the part of the target size that a small file is below
    Trigger,    \* the size that makes a directory a storage directory
    Depth,      \* the depth at which every directory is a storage directory
    None

ASSUME SizesAssumption == Target \in Nat \ {0} /\ SmallPart \in Nat \ {0} /\ Trigger \in Nat
ASSUME DepthAssumption == Depth \in Nat

Root == <<>>
ASSUME UniverseAssumption == Root \in Universe /\ IsFiniteSet(Universe)

Parent(p) == SubSeq(p, 1, Len(p) - 1)
depth(p) == Len(p) + 1
Above(p) == {SubSeq(p, 1, n) : n \in 0..(Len(p) - 1)}
isBelowOrEqual(p, d) == d \in Above(p) \cup {p}
subpath(p, d) == SubSeq(p, Len(d) + 1, Len(p))

\* The first name that differs decides between paths of the same depth.
NamesBefore(p, q) ==
    \E i \in 1..Len(p) :
        /\ \A j \in 1..(i - 1) : p[j] = q[j]
        /\ Rank[p[i]] < Rank[q[i]]

depthFirstSortPath(p, q) == Len(p) > Len(q) \/ (Len(p) = Len(q) /\ NamesBefore(p, q))

InOrder(S) ==
    [i \in 1..Cardinality(S) |->
        CHOOSE p \in S : Cardinality({q \in S : depthFirstSortPath(q, p)}) = i - 1]

Longest(S) == CHOOSE p \in S : \A q \in S : Len(q) <= Len(p)

Newest(S) == CHOOSE t \in S : \A u \in S : u <= t

-----------------------------------------------------------------------------

VARIABLES
    origin,    \* path -> what the file system says of it
    drops,     \* the paths that the filters do not let through
    triggers,  \* the directories that a trigger glob matches
    todo,      \* the paths the walk has still to visit, in its order
    future,    \* a file with a time in the future was found
    files,     \* path -> its entry
    storage,   \* the storage directories
    sizes,     \* path -> the size of what is below it and in no other storage directory
    directories, \* path -> the directory entry found under it
    safepath,  \* storage directory -> its path in the storage
    dirs,      \* storage directory -> the safe paths listed in it
    entries,   \* storage directory -> the entries its index file will list
    tars,      \* storage directory -> its tars
    index,     \* storage directory -> its index file
    earlier,   \* what the scan before this one found
    touched,   \* the paths of the file changed since then
    pc

originVars == <<origin, drops, triggers>>
scanVars == <<todo, future, files, storage, sizes, directories, safepath, dirs, entries, tars, index>>
vars == <<originVars, scanVars, earlier, touched, pc>>

Empty == [p \in {} |-> None]
Kept == DOMAIN files

IsDir(p) == files[p].kind = "dir"
IsHardLink(p) == files[p].hard # None

\* The size of an entry in a tar.
blockedSize(p) ==
    IF files[p].kind = "file" /\ ~IsHardLink(p) THEN 1 + files[p].size ELSE 1

Init ==
    /\ \E i \in Inputs : origin = i.origin /\ drops = i.drops /\ triggers = i.triggers
    /\ todo = <<Root>> /\ future = FALSE
    /\ files = Empty /\ storage = {} /\ sizes = Empty /\ directories = Empty
    /\ safepath = Empty /\ dirs = Empty /\ entries = Empty /\ tars = Empty /\ index = Empty
    /\ earlier = None /\ touched = {}
    /\ pc = "walk"

-----------------------------------------------------------------------------
(* The walk                                                                *)

Children(p) == {q \in DOMAIN origin : q # Root /\ Parent(q) = p}

\* The next path of the walk is an entry, or not.
addTarEntry ==
    /\ pc = "walk" /\ todo # <<>>
    /\ LET p    == Head(todo)
           stat == origin[p]
           skip == \/ stat.kind = "dir" /\ p # Root /\ Append(p, DotBeak) \in DOMAIN origin
                   \/ p # Root /\ p[Len(p)] = DotBeak
           kept == stat.kind # "socket" /\ ~skip /\ (p = Root \/ p \notin drops)
       IN  /\ todo' = (IF skip THEN <<>> ELSE InOrder(Children(p))) \o Tail(todo)
           /\ future' = (future \/ (stat.kind # "socket" /\ ~skip /\ stat.future))
           /\ files' = IF kept
                       THEN [q \in Kept \cup {p} |->
                               IF q = p THEN stat @@ [hard |-> None] ELSE files[q]]
                       ELSE files
    /\ UNCHANGED <<originVars, storage, sizes, directories, safepath, dirs, entries, tars, index,
                   earlier, touched, pc>>

\* Files from the future end the command.
EndWalk ==
    /\ pc = "walk" /\ todo = <<>>
    /\ pc' = IF future THEN "refused" ELSE "links"
    /\ UNCHANGED <<originVars, scanVars, earlier, touched>>

-----------------------------------------------------------------------------
(* The passes                                                              *)

\* The first entry of an inode has its contents, the others are links to it.
findHardLinks ==
    /\ pc = "links"
    /\ LET Same(p)  == {q \in Kept : /\ ~IsDir(q) /\ files[q].nlink > 1
                                     /\ files[q].ino = files[p].ino}
           First(p) == InOrder(Same(p))[1]
       IN  files' = [p \in Kept |->
                       IF ~IsDir(p) /\ files[p].nlink > 1 /\ First(p) # p
                       THEN [files[p] EXCEPT !.hard = First(p)] ELSE files[p]]
    /\ pc' = "dirs"
    /\ UNCHANGED <<originVars, todo, future, storage, sizes, directories, safepath, dirs, entries,
                   tars, index, earlier, touched>>

\* The size of every entry is added to the directory it is in, deepest first.
ChildrenSizes ==
    FoldLeft(LAMBDA size, p : IF p = Root THEN size
                              ELSE [size EXCEPT ![Parent(p)] = @ + size[p]],
             [p \in Kept |-> blockedSize(p)], InOrder(Kept))

\* Mutant: what is in a storage directory counts for the directories above it, too.
SelectKeepingSizes(size) ==
    FoldLeft(LAMBDA r, d :
                IF \/ depth(d) <= 1 \/ depth(d) = Depth \/ d \in triggers
                   \/ (Trigger > 0 /\ r.size[d] > Trigger)
                THEN [r EXCEPT !.dirs = @ \cup {d}] ELSE r,
             [dirs |-> {}, size |-> size], InOrder({p \in Kept : IsDir(p)}))

\* Deepest first: a storage directory takes its size away from those above it.
SelectStorageDirs(size) ==
    FoldLeft(LAMBDA r, d :
                IF \/ depth(d) <= 1 \/ depth(d) = Depth \/ d \in triggers
                   \/ (Trigger > 0 /\ r.size[d] > Trigger)
                THEN [dirs |-> r.dirs \cup {d},
                      size |-> [p \in Kept |-> IF p \in Above(d) THEN r.size[p] - r.size[d]
                                               ELSE r.size[p]]]
                ELSE r,
             [dirs |-> {}, size |-> size], InOrder({p \in Kept : IsDir(p)}))

\* An entry in a directory that the filters dropped stops the program.
findTarCollectionDirs ==
    /\ pc = "dirs"
    /\ IF \E p \in Kept \ {Root} : Parent(p) \notin Kept
       THEN /\ pc' = "crashed"
            /\ UNCHANGED <<storage, sizes>>
       ELSE /\ LET r == SelectStorageDirs(ChildrenSizes)
               IN  storage' = r.dirs /\ sizes' = r.size
            /\ pc' = "prune"
    /\ UNCHANGED <<originVars, todo, future, files, directories, safepath, dirs, entries, tars,
                   index, earlier, touched>>

\* Only the directories down to storage directories are kept, and no two of
\* them may differ in case only.
pruneDirectories ==
    /\ pc = "prune"
    /\ LET paths    == storage \cup UNION {Above(d) : d \in storage}
           Lower(p) == [i \in 1..Len(p) |-> FoldCase[p[i]]]
       IN  IF \E p, q \in paths : p # q /\ Lower(p) = Lower(q)
           THEN pc' = "refused" /\ UNCHANGED directories
           ELSE pc' = "names" /\ directories' = [p \in paths |-> p]
    /\ UNCHANGED <<originVars, todo, future, files, storage, sizes, safepath, dirs, entries, tars,
                   index, earlier, touched>>

\* The directory that findParentTCD stops at, and the one it finds there.
StopsAt(found) == {p \in DOMAIN found : p = Root \/ found[p] \in storage}
findParentTCD(found, p) == found[Longest(Above(p) \cap StopsAt(found))]

\* The safe paths known so far, with those of d and the directories it needs.
recurseCalculateSafePath(found, known, d) ==
    LET calc[p \in Above(d) \cup {d} \cup storage] ==
          IF p \in DOMAIN known THEN known
          ELSE IF p = Root THEN known @@ [q \in {Root} |-> Root]
          ELSE LET tcd  == findParentTCD(found, p)
                   more == calc[tcd]
               IN  more @@ [q \in {p} |-> more[tcd] \o SafeName[subpath(p, tcd)]]
    IN  calc[d]

\* Every storage directory is found under its safe path, too.
addDirsToDirectories ==
    /\ pc = "names"
    /\ LET add(r, d) ==
             LET tcd  == findParentTCD(r.found, d)
                 safe == recurseCalculateSafePath(r.found, r.safe, d)
             IN  [found |-> [p \in DOMAIN r.found \cup {safe[d]} |->
                               IF p = safe[d] THEN d ELSE r.found[p]],
                  safe  |-> safe,
                  dirs  |-> [r.dirs EXCEPT ![tcd] = Append(@, safe[d])]]
           r == FoldLeft(add, [found |-> directories, safe |-> safepath,
                               dirs |-> [d \in storage |-> <<>>]],
                         InOrder(storage \ {Root}))
       IN  directories' = r.found /\ safepath' = r.safe /\ dirs' = r.dirs
    /\ pc' = "entries"
    /\ UNCHANGED <<originVars, todo, future, files, storage, sizes, entries, tars, index, earlier,
                   touched>>

\* Every entry goes to the nearest storage directory above it.
addEntriesToTarCollectionDirs ==
    /\ pc = "entries"
    /\ LET stops == {p \in DOMAIN directories : directories[p] \in storage}
           dir(p) == directories[Longest(Above(p) \cap stops)]
       IN  entries' = [d \in storage |->
                         SelectSeq(InOrder(Kept \ {Root}), LAMBDA p : dir(p) = d)]
    /\ pc' = "move"
    /\ UNCHANGED <<originVars, todo, future, files, storage, sizes, directories, safepath, dirs,
                   tars, index, earlier, touched>>

CommonPrefix(p, q) == LongestCommonPrefix({p, q})

\* Mutant: the storage directory nearest to the file.
NearestToFile(p, q) == Longest(storage \cap Above(q))

\* The nearest storage directory above both.
findNearestStorageDirectory(p, q) ==
    Longest(storage \cap (Above(CommonPrefix(p, q)) \cup {CommonPrefix(p, q)}))

\* The hard links among the entries of d whose file is in no tar below d.
Leaving(listed, d) ==
    SelectSeq(listed, LAMBDA p : /\ IsHardLink(p)
                                 /\ depth(CommonPrefix(p, files[p].hard)) < depth(d))

\* The directories that such a link is in, from the inside out.
CopiedWith(d, p) ==
    LET inside == {q \in Above(p) : depth(q) > depth(d)}
    IN  [i \in 1..Cardinality(inside) |-> SubSeq(p, 1, Len(p) - i)]

MoveTo(all, d, p) ==
    LET to == findNearestStorageDirectory(p, files[p].hard)
    IN  [all EXCEPT ![d] = SelectSeq(@, LAMBDA q : q # p), ![to] = Append(@, p)]

CopyTo(all, d, p) ==
    LET to == findNearestStorageDirectory(p, files[p].hard)
    IN  [all EXCEPT ![to] = @ \o CopiedWith(d, p)]

\* Mutant: a link stays where it was found.
FixNoHardLink(all, d) == all

FixHardLinksOf(all, d) ==
    LET leaving == Leaving(all[d], d)
        moved   == FoldLeft(LAMBDA r, p : MoveTo(r, d, p), all, leaving)
    IN  FoldLeft(LAMBDA r, p : CopyTo(r, d, p), moved, leaving)

\* A hard link is listed above both its path and the file it links to.
fixHardLinks ==
    /\ pc = "move"
    /\ entries' = FoldLeft(FixHardLinksOf, entries, InOrder(storage))
    /\ pc' = "group"
    /\ UNCHANGED <<originVars, todo, future, files, storage, sizes, directories, safepath, dirs,
                   tars, index, earlier, touched>>

-----------------------------------------------------------------------------
(* Tars and index files                                                    *)

\* Each doubling of the target size doubles the number of tars.
findNumTarsFromSize(amount, total) ==
    LET n[k \in 0..total] == IF amount * (2 ^ k) < total THEN n[k + 1] ELSE 2 ^ k
    IN  n[0]

Total(s) == FoldLeft(LAMBDA sum, p : sum + blockedSize(p), 0, s)

\* How many tars for small and medium files, and the sizes these are below.
calculateNumTars(s) ==
    LET small  == Total(SelectSeq(s, LAMBDA p : blockedSize(p) < Target \div SmallPart))
        medium == Total(SelectSeq(s, LAMBDA p : /\ blockedSize(p) >= Target \div SmallPart
                                                /\ blockedSize(p) < Target))
        nst    == findNumTarsFromSize(Target, small)
        nmt    == findNumTarsFromSize(Target, medium)
    IN  IF small <= Target \/ medium <= Target
        THEN [nst |-> nst + nmt - 1, nmt |-> 0, small |-> Target, medium |-> Target]
        ELSE [nst |-> nst, nmt |-> nmt, small |-> Target \div SmallPart, medium |-> Target]

\* Mutant: the tars are filled up one after the other.
TarFilledUp(d, p) ==
    LET n      == calculateNumTars(entries[d])
        before == SelectSeq(entries[d], LAMBDA q : q # p /\ depthFirstSortPath(q, p))
    IN  IF IsDir(p) \/ IsHardLink(p) THEN <<"index", 0>>
        ELSE IF blockedSize(p) < n.small THEN <<"small", (Total(before) \div Target) % n.nst>>
        ELSE <<"large", p>>

\* The tar of d that its entry p is put into; directories and hard links are
\* put into the index file.
TarOf(d, p) ==
    LET n    == calculateNumTars(entries[d])
        hash == HashOf[subpath(p, d)]
    IN  IF IsDir(p) \/ IsHardLink(p) THEN <<"index", 0>>
        ELSE IF blockedSize(p) < n.small THEN <<"small", hash % n.nst>>
        ELSE IF blockedSize(p) < n.medium THEN <<"medium", hash % n.nmt>>
        ELSE <<"large", hash>>

\* What makes the hash of a tar, and of the lines about it in an index file.
Meta(d, p) == <<subpath(p, d), files[p].size, files[p].mtime>>

TarsOf(d) ==
    LET ps == ToSet(entries[d])
        In(t) == {p \in ps : TarOf(d, p) = t}
    IN  {[dir |-> d, tar |-> t, has |-> In(t),
          mtime |-> Newest({files[p].mtime : p \in In(t)}),
          hash |-> [of |-> {}, lists |-> {Meta(d, p) : p \in In(t)}]] : t \in {TarOf(d, p) : p \in ps} \ {<<"index", 0>>}}

\* Mutant: an index file names the next index files only, not those below them.
IndexFilesNext(d) == {index[s] : s \in {s \in DOMAIN index : s # d /\ Parent(s) = d}}

\* The index files below d that are finished.
IndexFilesBelow(d) == {index[s] : s \in {s \in DOMAIN index : s # d /\ isBelowOrEqual(s, d)}}

\* The index file of d: what it lists, and all tars and index files below it.
IndexOf(d, own) ==
    LET ps    == ToSet(entries[d])
        below == UNION {tars[s] : s \in {s \in DOMAIN tars : isBelowOrEqual(s, d)}}
                   \cup IndexFilesBelow(d) \cup own
    IN  [dir |-> d, tar |-> <<"index", 0>>, lists |-> entries[d], tars |-> below,
         mtime |-> Newest({t.mtime : t \in below} \cup {files[p].mtime : p \in ps \cup {d}}),
         hash |-> [of |-> {t.hash : t \in below}, lists |-> {Meta(d, p) : p \in ps}]]

\* The next storage directory, deepest first, gets its tars and its index file.
groupFilesIntoTars ==
    /\ pc = "group"
    /\ LET left == storage \ DOMAIN tars
           d    == InOrder(left)[1]
           own  == TarsOf(d)
       IN  /\ tars' = [s \in DOMAIN tars \cup {d} |-> IF s = d THEN own ELSE tars[s]]
           /\ index' = [s \in DOMAIN index \cup {d} |->
                          IF s = d THEN IndexOf(d, own) ELSE index[s]]
           /\ pc' = IF left = {d} THEN "done" ELSE "group"
    /\ UNCHANGED <<originVars, todo, future, files, storage, sizes, directories, safepath, dirs,
                   entries, earlier, touched>>

-----------------------------------------------------------------------------
(* A second scan of the same origin, after one file was changed            *)

Counts(d) == LET n == calculateNumTars(entries[d]) IN <<n.nst, n.nmt>>

Found == [storage |-> storage, tars |-> tars, index |-> index,
          counts |-> [d \in storage |-> Counts(d)]]

\* A file is written to: all its names show the new size and time.
Touch ==
    /\ pc = "done" /\ earlier = None
    /\ \E p \in Kept, size \in {1, Target} :
         /\ origin[p].kind = "file" /\ size # origin[p].size
         /\ touched' = {q \in DOMAIN origin : origin[q].ino = origin[p].ino}
         /\ origin' = [q \in DOMAIN origin |->
                         IF q \in touched'
                         THEN [origin[q] EXCEPT !.size = size, !.mtime = @ + 1]
                         ELSE origin[q]]
    /\ earlier' = Found
    /\ todo' = <<Root>> /\ future' = FALSE
    /\ files' = Empty /\ storage' = {} /\ sizes' = Empty /\ directories' = Empty
    /\ safepath' = Empty /\ dirs' = Empty /\ entries' = Empty /\ tars' = Empty /\ index' = Empty
    /\ pc' = "walk"
    /\ UNCHANGED <<drops, triggers>>

\* The program has ended, one way or the other.
Stopped == pc \in {"done", "refused", "crashed"} /\ UNCHANGED vars

ScanStep ==
    \/ addTarEntry \/ EndWalk \/ findHardLinks \/ findTarCollectionDirs \/ pruneDirectories
    \/ addDirsToDirectories \/ addEntriesToTarCollectionDirs \/ fixHardLinks
    \/ groupFilesIntoTars

Next == ScanStep \/ Touch \/ Stopped

Spec == Init /\ [][Next]_vars

-----------------------------------------------------------------------------
(* Properties                                                              *)

\* The type of every variable.
TypeOK ==
    /\ DOMAIN origin \subseteq Universe /\ drops \subseteq Universe /\ triggers \subseteq Universe
    /\ todo \in Seq(Universe)
    /\ future \in BOOLEAN
    /\ Kept \subseteq DOMAIN origin
    /\ \A p \in Kept : files[p].hard \in Kept \cup {None}
    /\ storage \subseteq Kept
    /\ DOMAIN sizes \subseteq Kept /\ \A p \in DOMAIN sizes : sizes[p] \in Nat
    /\ \A p \in DOMAIN directories : directories[p] \in Kept
    /\ DOMAIN safepath \subseteq storage
    /\ DOMAIN dirs \subseteq storage /\ DOMAIN entries \subseteq storage
    /\ \A d \in DOMAIN entries : entries[d] \in Seq(Kept)
    /\ DOMAIN tars = DOMAIN index /\ DOMAIN index \subseteq storage
    /\ touched \subseteq DOMAIN origin
    /\ pc \in {"walk", "links", "dirs", "prune", "names", "entries", "move", "group",
               "done", "refused", "crashed"}

\* The size of what is below d and in no storage directory below d.
OwnSize(d) ==
    LET own == {p \in Kept : /\ isBelowOrEqual(p, d)
                             /\ \A s \in storage : d \in Above(s) => ~isBelowOrEqual(p, s)}
    IN  Total(InOrder(own))

\* A directory is a storage directory exactly when it has to be, or when what
\* would be left in it for the directory above is more than the trigger size:
\* sizes are taken away level by level while directories are selected
\* (findTarCollectionDirs).
StorageDirsAreNeeded ==
    pc \in {"prune", "names", "entries", "move"} =>
        \A d \in {p \in Kept : IsDir(p)} :
            d \in storage <=> \/ d = Root \/ depth(d) = Depth \/ d \in triggers
                              \/ Trigger > 0 /\ OwnSize(d) > Trigger

\* Every entry that is put into the tars of a storage directory is below that
\* directory, whatever the directories next to it are called: the assertion
\* that groupFilesIntoTars states in a comment.
EntriesAreBelow ==
    \A d \in DOMAIN entries : \A p \in ToSet(entries[d]) : d \in Above(p)

Times(s, p) == Cardinality({i \in 1..Len(s) : s[i] = p})

\* What a restore makes of the lines of the index files.
Restored ==
    {[path |-> l[1] \o subpath(l[2], l[1]), kind |-> files[l[2]].kind, size |-> files[l[2]].size,
      mtime |-> files[l[2]].mtime,
      link |-> IF IsHardLink(l[2]) THEN l[1] \o subpath(files[l[2]].hard, l[1]) ELSE None] :
        l \in UNION {{<<d, p>> : p \in ToSet(index[d].lists)} : d \in storage}}

\* The index files of a backup, read back, are the tree that was scanned: every
\* path once, with its size, its time and the file it is a hard link to. The
\* paths in an index file and in its hard links are cut off at its directory,
\* and entries change directories on the way (fixHardLinks, fixTarPaths).
PointIsOrigin ==
    pc = "done" =>
        Restored = {[path |-> p, kind |-> files[p].kind, size |-> files[p].size,
                     mtime |-> files[p].mtime, link |-> files[p].hard] : p \in Kept \ {Root}}

\* Every file is listed once, by the storage directory nearest above it, and a
\* hard link by the nearest above both it and its file, with the file listed
\* there or below: no pass may lose or double an entry (fixHardLinks moves
\* entries between the lists it goes through).
EveryFileIsListedOnce ==
    pc \in {"group", "done"} =>
        \A p \in Kept \ {Root} :
            LET home == Longest(storage \cap
                                  IF IsHardLink(p) THEN Above(p) \cap Above(files[p].hard)
                                  ELSE Above(p))
            IN  /\ Times(entries[home], p) >= 1
                /\ ~IsDir(p) => \A d \in storage :
                                  Times(entries[d], p) = IF d = home THEN 1 ELSE 0

\* Every index file names all tars and index files at and below its directory,
\* and its time, which for the root is the point in time of the backup, is that
\* of the newest entry there: both need the deeper directories to be finished
\* first (groupFilesIntoTars).
IndexKnowsAllBelow ==
    \A d \in DOMAIN index :
        LET below == {s \in storage : isBelowOrEqual(s, d)}
        IN  /\ below \subseteq DOMAIN index
            /\ index[d].tars = UNION {tars[s] : s \in below} \cup {index[s] : s \in below \ {d}}
            /\ index[d].mtime =
                 Newest({files[p].mtime : p \in {d} \cup UNION {ToSet(entries[s]) : s \in below}})

\* No avalanche: when one file changes and no directory needs another number of
\* tars, all tars but those that hold or held it, and all index files with
\* nothing of it below them, keep their contents and names (calculateNumTars).
TouchIsLocal ==
    (IF pc = "done" /\ earlier # None THEN earlier.storage = storage ELSE FALSE) =>
        \A d \in storage :
            /\ Counts(d) = earlier.counts[d] =>
                 LET hit == {t.tar : t \in {t \in tars[d] \cup earlier.tars[d] :
                                            t.has \cap touched # {}}}
                 IN  {t \in tars[d] : t.tar \notin hit} =
                     {t \in earlier.tars[d] : t.tar \notin hit}
            /\ (\A p \in touched \cap Kept : \A s \in storage :
                    isBelowOrEqual(s, d) => p \notin ToSet(entries[s]))
                 => index[d] = earlier.index[d]
=============================================================================
