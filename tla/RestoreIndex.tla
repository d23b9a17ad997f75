---------------------------- MODULE RestoreIndex ----------------------------
(***************************************************************************)
(* One point in time as a mount or a restore sees it: a tree of entries    *)
(* that is filled from index files while it is used.  Every storage        *)
(* directory has an index file that lists what is below it down to the     *)
(* next storage directories; the root index file also says where the other *)
(* index files are.  An index file is read at most once.                   *)
(*                                                                         *)
(* A mount answers one call at a time (all of them take the same lock), a  *)
(* restore walks the whole tree, several times.                            *)
(***************************************************************************)
EXTENDS Integers, Sequences, FiniteSets

CONSTANTS
    Paths,        \* the paths in the backup
    Absent,       \* paths somebody may ask for that are not in the backup
    Root,
    Parent,       \* path -> the directory it is in
    Above,        \* path -> all directories above it
    Dirs,         \* the paths that are directories
    StorageDirs,  \* the directories that have an index file
    Home,         \* path -> the nearest storage directory above it
    LinkTarget,   \* the hard links of the backup -> the file they link to
    MaxFailed,    \* bound: index files that cannot be read at one time
    None

Names == Paths \cup Absent

ASSUME TreeAssumption ==
    /\ Root \in StorageDirs /\ StorageDirs \subseteq Dirs /\ Dirs \subseteq Paths
    /\ IsFiniteSet(Paths) /\ Paths \cap Absent = {}
    /\ Parent \in [Names \ {Root} -> Dirs]
    /\ Above \in [Names -> SUBSET Dirs]
    /\ Above[Root] = {}
    /\ \A p \in Names \ {Root} : Above[p] = {Parent[p]} \cup Above[Parent[p]]
    /\ \A p \in Names : p \notin Above[p]

\* addEntriesToTarCollectionDirs: walk up until there is a storage directory.
ASSUME HomeAssumption ==
    /\ Home \in [Names \ {Root} -> StorageDirs]
    /\ \A p \in Names \ {Root} :
         Home[p] = IF Parent[p] \in StorageDirs THEN Parent[p] ELSE Home[Parent[p]]

ASSUME LinkAssumption ==
    /\ DOMAIN LinkTarget \subseteq Paths \ Dirs
    /\ \A l \in DOMAIN LinkTarget : LinkTarget[l] \in Paths \ (Dirs \cup DOMAIN LinkTarget)

ASSUME MaxFailedAssumption == MaxFailed \in Nat
ASSUME NoneAssumption == None \notin Names

Children(d) == {p \in Paths \ {Root} : Parent[p] = d}

-----------------------------------------------------------------------------
(* What the index files list                                               *)

\* The hard links whose target is in a tar of another storage directory.
CrossLinks == {l \in DOMAIN LinkTarget : Home[l] \notin Above[LinkTarget[l]]}

\* They are listed by the nearest storage directory above both ends.
LinkHome(l) ==
    LET common == StorageDirs \cap Above[l] \cap Above[LinkTarget[l]]
    IN  CHOOSE s \in common : \A t \in common : t \in Above[s] \cup {s}

\* And with each such link the directories it is in, up to the index it left.
CopiedWith(l) == {d \in Above[l] \ {Root} : d \notin Above[Home[l]] \cup {Home[l]}}

\* Mutant: an index file lists its own directory, too.
ListingWithItself(s, p) ==
    Cardinality({l \in CrossLinks : LinkHome(l) = s /\ p \in CopiedWith(l)})
        + IF p \in CrossLinks THEN IF LinkHome(p) = s THEN 1 ELSE 0
          ELSE IF p \in Paths \ {Root} /\ (Home[p] = s \/ p = s) THEN 1 ELSE 0

\* How often the index file of s lists p.
Listing(s, p) ==
    Cardinality({l \in CrossLinks : LinkHome(l) = s /\ p \in CopiedWith(l)})
        + IF p \in CrossLinks THEN IF LinkHome(p) = s THEN 1 ELSE 0
          ELSE IF p \in Paths \ {Root} /\ Home[p] = s THEN 1 ELSE 0

Listed(s) == {p \in Paths \ {Root} : Listing(s, p) > 0}

-----------------------------------------------------------------------------

VARIABLES
    use,      \* what the tree is used for
    entry,    \* path -> no entry, a blank one, or one filled from an index file
    linked,   \* path -> how often the directory it is in has it
    loaded,   \* the directories marked as loaded
    gz,       \* the directories whose index files the root index file named
    gzRead,   \* the index files that were read, or tried
    failed,   \* history: those that could not be read, or not to the end
    missed,   \* history: those not found, in this call or pass
    known,    \* the directories the kernel has found
    call,     \* the call that is answered: what it is and its path
    at,       \* where the walk up to an index file is
    stack,    \* the directories the restore is in
    done,     \* path -> how often the restore has entered it from its directory
    seen,     \* path -> how often the restore was given it, in this pass
    pc

treeVars == <<entry, linked, loaded, gz, gzRead, failed, missed>>
callVars == <<known, call, at>>
passVars == <<stack, done, seen>>
vars == <<use, treeVars, callVars, passVars, pc>>

Zero == [p \in Names |-> 0]

\* The type of every variable.
TypeOK ==
    /\ use \in {"mount", "restore"}
    /\ entry \in [Names -> {"none", "blank", "listed"}]
    /\ linked \in [Names -> Nat]
    /\ loaded \subseteq Dirs
    /\ gz \subseteq StorageDirs \ {Root}
    /\ gzRead \subseteq gz \cup {Root}
    /\ failed \subseteq gzRead
    /\ missed \subseteq gz
    /\ known \subseteq Dirs
    /\ call \in [op : {"getattr", "readdir"}, path : Names] \cup {None}
    /\ at \in Names \cup {None}
    /\ stack \in Seq(Dirs)
    /\ done \in [Names -> Nat]
    /\ seen \in [Names -> Nat]
    /\ pc \in {"load", "idle", "find", "found", "fill", "list", "recurse", "recursed"}

Init ==
    /\ use \in {"mount", "restore"}
    /\ entry = [p \in Names |-> IF p = Root THEN "listed" ELSE "none"]
    /\ linked = Zero
    /\ loaded = {} /\ gz = {} /\ gzRead = {} /\ failed = {} /\ missed = {}
    /\ known = {Root} /\ call = None /\ at = None
    /\ stack = <<>> /\ done = Zero /\ seen = Zero
    /\ pc = "load"

-----------------------------------------------------------------------------
(* Reading an index file                                                   *)

MayFail(s) == Cardinality(failed \cup missed \cup {s}) <= MaxFailed

\* The tars are noted when none is known yet, which is from the root index file.
NoteTars(s, tars) == gz' = IF s = Root THEN tars ELSE gz

\* Read to the end: the entries are put into the directories they are in, which
\* are made if they are not there yet, and these are marked as loaded.
ReadIndex(s) ==
    /\ entry' = [p \in Names |->
                   IF p \in Listed(s) THEN "listed"
                   ELSE IF entry[p] = "none" /\ \E c \in Listed(s) : Parent[c] = p
                        THEN "blank" ELSE entry[p]]
    /\ linked' = [p \in Names |-> linked[p] + Listing(s, p)]
    /\ loaded' = loaded \cup {Parent[p] : p \in Listed(s)}
    /\ NoteTars(s, StorageDirs \ {Root})
    /\ UNCHANGED <<failed, missed>>

\* Not read, or not to the end: the entries up to there have been made, and with
\* all of them some of the tars noted, but nothing is put into a directory.
CutIndex(s) ==
    /\ MayFail(s)
    /\ \E some \in SUBSET Listed(s), tars \in SUBSET (StorageDirs \ {Root}) :
         /\ some # Listed(s) => tars = {}
         /\ entry' = [p \in Names |-> IF p \in some THEN "listed" ELSE entry[p]]
         /\ NoteTars(s, tars)
    /\ failed' = failed \cup {s}
    /\ UNCHANGED <<linked, loaded, missed>>

\* Mutant: the index file is marked as read at the end, which is not reached.
LoadGzAgain(s) ==
    /\ ReadIndex(s) \/ CutIndex(s)
    /\ gzRead' = gzRead

\* It is marked as read before it is read, and not read again.
loadGz(s) ==
    IF s \in gzRead THEN UNCHANGED treeVars
    ELSE /\ ReadIndex(s) \/ CutIndex(s)
         /\ gzRead' = gzRead \cup {s}

HasGz(d) == d = Root \/ d \in gz

\* Nothing happens if there is no index file, or if it is not found, for now.
loadDirContents(d) ==
    \/ ~HasGz(d) /\ UNCHANGED treeVars
    \/ HasGz(d) /\ loadGz(d)
    \/ /\ HasGz(d) /\ d \notin gzRead /\ MayFail(d)
       /\ missed' = missed \cup {d}
       /\ UNCHANGED <<entry, linked, loaded, gz, gzRead, failed>>

\* The root index file, at the start.  If it cannot be read the tree is empty,
\* and the mount goes on.
loadBeakFileSystem ==
    /\ pc = "load"
    /\ loadGz(Root)
    /\ pc' = "idle"
    /\ UNCHANGED <<use, callVars, passVars>>

-----------------------------------------------------------------------------
(* The calls of a mount                                                    *)

\* The kernel looks up a path name by name, and lists directories it has found.
Call(op, p) ==
    /\ use = "mount" /\ pc = "idle"
    /\ \/ op = "getattr" /\ p # Root /\ Parent[p] \in known
       \/ op = "readdir" /\ p \in known
    /\ call' = [op |-> op, path |-> p]
    /\ missed' = {}
    /\ IF entry[p] = "none" THEN pc' = "find" /\ at' = p
                            ELSE pc' = "found" /\ at' = None
    /\ UNCHANGED <<use, entry, linked, loaded, gz, gzRead, failed, known, passVars>>

\* Mutant: the walk ends at the first index file, whatever it holds.
LoadCacheFirst(next) ==
    /\ loadDirContents(at)
    /\ IF HasGz(at)
       THEN pc' = next /\ at' = None
       ELSE pc' = pc /\ at' = Parent[at]

\* Mutant: the walk goes up only where there is no index file.
LoadCacheStays(next) ==
    /\ loadDirContents(at)
    /\ IF HasGz(at) /\ entry'[at] # "none"
       THEN pc' = next /\ at' = None
       ELSE pc' = pc /\ at' = IF HasGz(at) THEN at ELSE Parent[at]

\* One step of the walk up, to an index file of a directory that has an entry.
loadCache(next) ==
    /\ loadDirContents(at)
    /\ IF HasGz(at) /\ entry'[at] # "none"
       THEN pc' = next /\ at' = None
       ELSE pc' = pc /\ at' = Parent[at]

findEntry ==
    /\ pc = "find"
    /\ loadCache("found")
    /\ UNCHANGED <<use, known, call, passVars>>

\* The answer is the entry found.
getattrCB ==
    /\ pc = "found" /\ call.op = "getattr"
    /\ known' = IF call.path \in Dirs /\ entry[call.path] = "listed"
                THEN known \cup {call.path} ELSE known
    /\ pc' = "idle" /\ call' = None
    /\ UNCHANGED <<use, treeVars, at, passVars>>

\* A directory that is not loaded is loaded now.
readdirCB ==
    /\ pc = "found" /\ call.op = "readdir"
    /\ IF call.path \in loaded THEN pc' = "list" /\ at' = None
                               ELSE pc' = "fill" /\ at' = call.path
    /\ UNCHANGED <<use, treeVars, known, call, passVars>>

FillDir ==
    /\ pc = "fill"
    /\ loadCache("list")
    /\ UNCHANGED <<use, known, call, passVars>>

\* The answer is what has been put into the directory.
ListDir ==
    /\ pc = "list"
    /\ pc' = "idle" /\ call' = None
    /\ UNCHANGED <<use, treeVars, known, at, passVars>>

-----------------------------------------------------------------------------
(* The walk of a restore                                                   *)

Top == stack[Len(stack)]

StartRecurse ==
    /\ use = "restore" /\ pc \in {"idle", "recursed"}
    /\ pc' = "recurse"
    /\ stack' = <<Root>> /\ done' = Zero /\ seen' = Zero
    /\ missed' = {}
    /\ UNCHANGED <<use, entry, linked, loaded, gz, gzRead, failed, callVars>>

\* Mutant: a directory that is marked as loaded is not loaded.
RecurseIntoUnloaded(d) ==
    /\ pc = "recurse"
    /\ d \in Children(Top) \cap Dirs /\ done[d] < linked[d]
    /\ IF d \in loaded THEN UNCHANGED treeVars ELSE loadDirContents(d)
    /\ stack' = Append(stack, d)
    /\ done' = [p \in Names |-> IF p = d THEN done[p] + 1
                                ELSE IF d \in Above[p] THEN 0 ELSE done[p]]
    /\ UNCHANGED <<use, callVars, seen, pc>>

\* Depth first, whether or not the directory is marked as loaded.
recurseInto(d) ==
    /\ pc = "recurse"
    /\ d \in Children(Top) \cap Dirs /\ done[d] < linked[d]
    /\ loadDirContents(d)
    /\ stack' = Append(stack, d)
    /\ done' = [p \in Names |-> IF p = d THEN done[p] + 1
                                ELSE IF d \in Above[p] THEN 0 ELSE done[p]]
    /\ UNCHANGED <<use, callVars, seen, pc>>

\* After its directories the restore is given the files, then the directory.
LeaveDir ==
    /\ pc = "recurse"
    /\ \A d \in Children(Top) \cap Dirs : done[d] >= linked[d]
    /\ seen' = [p \in Names |->
                  seen[p] + (IF p \in Children(Top) \ Dirs THEN linked[p]
                             ELSE IF p = Top /\ p # Root THEN 1 ELSE 0)]
    /\ stack' = SubSeq(stack, 1, Len(stack) - 1)
    /\ pc' = IF Len(stack) = 1 THEN "recursed" ELSE pc
    /\ UNCHANGED <<use, treeVars, callVars, done>>

CallStep == findEntry \/ getattrCB \/ readdirCB \/ FillDir \/ ListDir

PassStep == LeaveDir \/ \E d \in Dirs : recurseInto(d)

Next ==
    \/ loadBeakFileSystem
    \/ \E op \in {"getattr", "readdir"}, p \in Names : Call(op, p)
    \/ CallStep
    \/ StartRecurse
    \/ PassStep

Spec == Init /\ [][Next]_vars

\* A call is answered, and a pass goes on, in the one thread that has the lock.
FairSpec == Spec /\ WF_vars(CallStep) /\ WF_vars(PassStep)

-----------------------------------------------------------------------------
(* Properties                                                              *)

\* The index file that lists what is in a directory.
IndexOf(d) == IF d \in StorageDirs THEN d ELSE Home[d]

\* Only that one lists anything in the directory: no hard link was moved out of
\* it or into it, and no directory in it is listed twice.
Plain(d) ==
    \A c \in Children(d), s \in StorageDirs :
        Listing(s, c) = IF s = IndexOf(d) THEN 1 ELSE 0

Missing == failed \cup missed

\* What readdir answers: every file and directory once, if the index file could
\* be read, even if it could not be read in an earlier call; at worst nothing is
\* shown.  And what it shows can be looked up.
ReaddirIsExact ==
    pc = "list" =>
        \A c \in Children(call.path) :
            /\ linked[c] > 0 => entry[c] = "listed"
            /\ Plain(call.path) =>
                 /\ linked[c] <= 1
                 /\ {Root, IndexOf(call.path)} \cap Missing = {} => linked[c] = 1

\* What getattr answers: that there is no such file only if there is none, or
\* if an index file that lists it could not be read.
NoFalseAbsence ==
    pc = "found" =>
        /\ call.path \in Absent => entry[call.path] = "none"
        /\ call.path \in Paths /\ Root \notin Missing =>
             \A s \in StorageDirs \ Missing :
                 Listing(s, call.path) > 0 => entry[call.path] # "none"

\* A directory the restore is working on does not change under it (the code
\* iterates over it while the directories in it are loaded).
DirOnStackIsFixed ==
    [][pc = "recurse" =>
         \A i \in DOMAIN stack : \A c \in Children(stack[i]) : linked'[c] = linked[c]]_vars

\* All index files on the way to the path are there.
Reachable(p) ==
    /\ Root \notin failed
    /\ \A q \in ({p} \cup Above[p]) \ {Root} :
         \E s \in StorageDirs \ Missing : Listing(s, q) > 0

\* The path is given to the restore by one index file only, and so is every
\* directory above it.
Single(p) ==
    \A q \in ({p} \cup Above[p]) \ {Root}, s, t \in StorageDirs :
        Listing(s, q) > 0 /\ Listing(t, q) > 0 => s = t /\ Listing(s, q) = 1

\* A pass of the restore is given every path that can be reached, and none
\* twice, except below directories that were copied with a hard link.
PassIsComplete ==
    pc = "recursed" =>
        \A p \in Paths \ {Root} :
            /\ Reachable(p) => seen[p] >= 1
            /\ Single(p) => seen[p] <= 1

\* Every call is answered and every pass ends.
CallsAreAnswered ==
    /\ pc \in {"find", "found", "fill", "list"} ~> pc = "idle"
    /\ pc = "recurse" ~> pc = "recursed"

\* The claim of beak.h, "Mount your backup as a file system", as far as a path
\* goes that is in the backup, which fails: a storage directory in a storage
\* directory is blank, and no directory, until the one above has been listed.
LookupFindsFile ==
    pc = "found" /\ call.path \in Paths /\ Missing = {} => entry[call.path] = "listed"

=============================================================================
