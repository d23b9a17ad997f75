--------------------------- MODULE OriginRestore ---------------------------
(***************************************************************************)
(* A restore of one point in time into a directory that may already hold   *)
(* something.  A first walk compares every entry of the backup with what   *)
(* is there; five more walks extract the regular files, the fifos, the     *)
(* symbolic links, the hard links and the directories.  The command may be *)
(* killed at any step, it may run out of disk, and it may be given again.  *)
(*                                                                         *)
(* A path is the sequence of the names below the root <<>>, which the      *)
(* walks do not visit.  Where the backup has a file, a link or a fifo, the *)
(* directory has none or one of the same kind; where it has a directory,   *)
(* there may be a file.  The user is not root and follows no links.        *)
(***************************************************************************)
EXTENDS Integers, Sequences, FiniteSets, Functions

CONSTANTS
    Inputs,   \* the points in time, and the directories they are restored into
    Universe, \* all paths
    SizeOf,   \* contents or target -> size
    Cut,      \* the contents of a file that was not written to its end
    Now,      \* the time of what the command writes, before it is set
    Sorted(_, _), \* the order of the paths that a diff goes by
    None

INSTANCE TreeDiff

ASSUME NowAssumption == Now \in Nat
ASSUME CutAssumption == SizeOf \in [DOMAIN SizeOf -> Nat] /\ {Cut, None} \subseteq DOMAIN SizeOf /\ SizeOf[Cut] = 0

Root == <<>>
Parent(p) == SubSeq(p, 1, Len(p) - 1)
Above(p) == {SubSeq(p, 1, n) : n \in 0..(Len(p) - 1)}

ASSUME UniverseAssumption ==
    /\ IsFiniteSet(Universe) /\ Root \in Universe
    /\ \A p \in Universe : p \in Seq({p[i] : i \in DOMAIN p}) /\ Above(p) \subseteq Universe

Kinds == {"file", "fifo", "link", "dir"}
Perms == {"ro", "rw"}

\* What a command says at its end.
Words == {"restored", "up to date", "declined", "error", "killed"}

ASSUME NoneAssumption == None \notin Nat \cup Universe \cup Perms \cup Words

\* What is in the directory.  A directory has one name; the names of anything
\* else are those with its inode.
There ==
    {e \in [kind : Kinds, perm : Perms, mtime : Nat, data : DOMAIN SizeOf, ino : Nat \cup {None}] :
        e.kind \in {"fifo", "dir"} => e.data = None}

Names(t, p) == {q \in DOMAIN t : q = p \/ (t[p].ino # None /\ t[q].ino = t[p].ino)}

IsDir(t, p) == p \in DOMAIN t /\ t[p].kind = "dir"

IsTree(t) ==
    /\ DOMAIN t \subseteq Universe /\ IsDir(t, Root)
    /\ \A p \in DOMAIN t :
         /\ t[p] \in There /\ (t[p].ino = None <=> t[p].kind = "dir")
         /\ \A a \in Above(p) : IsDir(t, a)
         /\ \A q \in Names(t, p) : t[q] = t[p]

\* The entries of a backup; a hard link has the path of its file, and no size.
Kept ==
    {e \in [kind : Kinds, perm : Perms, mtime : Nat, data : DOMAIN SizeOf, size : Nat,
            hard : Universe \cup {None}] :
        /\ e.kind \in {"fifo", "dir"} => e.data = None
        /\ e.hard = None => e.size = SizeOf[e.data]}

IsBackup(b) ==
    /\ DOMAIN b \subseteq Universe \ {Root}
    /\ \A p \in DOMAIN b :
         /\ b[p] \in Kept
         /\ \A a \in Above(p) \ {Root} : IsDir(b, a)
         /\ b[p].hard # None => /\ b[p].kind = "file" /\ b[p].hard \in DOMAIN b
                               /\ b[b[p].hard].kind = "file" /\ b[b[p].hard].hard = None
                               /\ b[b[p].hard].mtime = b[p].mtime
                               /\ b[b[p].hard].perm = b[p].perm

Fits(b, t) ==
    \A p \in DOMAIN b \cap DOMAIN t :
        t[p].kind = b[p].kind \/ (b[p].kind = "dir" /\ t[p].kind = "file")

ASSUME InputsAssumption ==
    \A i \in Inputs : IsBackup(i.point) /\ IsTree(i.dest) /\ Fits(i.point, i.dest)

Passes == <<"file", "fifo", "link", "hard", "dir">>

VARIABLES
    point,   \* path -> its entry in the backup
    dest,    \* path -> what is in the directory
    plan,    \* path -> what the first walk found has to be done
    pass,    \* the walk that runs
    todo,    \* the entries of this walk that are left
    force,   \* newer files are overwritten, too
    said,    \* what the last command said at its end
    before,  \* history: the directory when the command began
    failed,  \* history: a write of this command failed
    pc

vars == <<point, dest, plan, pass, todo, force, said, before, failed, pc>>
commandVars == <<point, force, before>>

IsHardLink(p) == point[p].hard # None

\* The walk comes to p after q: a directory after all that is below it, anything
\* else after all that is below the directories beside it.
After(p, q) ==
    IF point[p].kind = "dir" THEN p \in Above(q) ELSE Parent(p) \in Above(Parent(q))

\* The entries that the n-th walk handles, and the orders it may come to them in:
\* that of directories beside each other, and of files beside each other, is open.
Handled(n) ==
    {p \in DOMAIN point : IF Passes[n] = "hard" THEN IsHardLink(p)
                          ELSE ~IsHardLink(p) /\ point[p].kind = Passes[n]}

Orders(S) ==
    {s \in Bijection(1..Cardinality(S), S) :
        \A i, j \in DOMAIN s : i < j => ~After(s[i], s[j])}

-----------------------------------------------------------------------------
(* The directory                                                           *)

Exists(p) == p \in DOMAIN dest
Size(e) == SizeOf[e.data]

\* An inode that no name of t has.
Unused(t) == CHOOSE i \in 1..(Cardinality(Universe) + 1) : \A p \in DOMAIN t : t[p].ino # i

\* What p is a name of becomes e.
Changed(t, p, e) == [q \in DOMAIN t |-> IF q \in Names(t, p) THEN e ELSE t[q]]

\* A name comes or goes, and the directory that it is in gets a new time.
Stirred(t, p) == [t EXCEPT ![Parent(p)].mtime = Now]
Without(t, p) == Stirred([q \in DOMAIN t \ {p} |-> t[q]], p)
With(t, p, e) == Stirred([q \in DOMAIN t \cup {p} |-> IF q = p THEN e ELSE t[q]], p)

New(t, kind, perm, data) ==
    [kind |-> kind, perm |-> perm, mtime |-> Now, data |-> data, ino |-> Unused(t)]

NewDir == [kind |-> "dir", perm |-> "rw", mtime |-> Now, data |-> None, ino |-> None]

\* Mutant: only directories that are missing are looked after.
MkDirsMissing(t, d) ==
    LET missing == (Above(d) \cup {d}) \ DOMAIN t
    IN  [q \in DOMAIN t \cup missing |->
            IF q \in missing THEN NewDir
            ELSE IF \E a \in missing : Parent(a) = q THEN [t[q] EXCEPT !.mtime = Now]
            ELSE t[q]]

\* The nearest directory that is there is made writable, what is missing below
\* it is created, and what is no directory there is deleted.
mkDirpWriteable(t, d) ==
    LET there   == {a \in Above(d) \cup {d} : IsDir(t, a)}
        last    == {a \in there : \A b \in there : Len(b) <= Len(a)}
        missing == (Above(d) \cup {d}) \ there
    IN  [q \in DOMAIN t \cup missing |->
            IF q \in missing THEN NewDir
            ELSE IF q \in last
                 THEN [t[q] EXCEPT !.perm = "rw", !.mtime = IF missing = {} THEN @ ELSE Now]
            ELSE t[q]]

\* Files are written in place; one that is not writable is deleted first. The
\* permissions are those of the backup for a new file only.
Opened(t, p) ==
    LET fresh(u) == With(u, p, New(u, "file", point[p].perm, Cut))
    IN  IF p \notin DOMAIN t THEN fresh(t)
        ELSE IF t[p].perm # "rw" THEN fresh(Without(t, p))
        ELSE Changed(t, p, [t[p] EXCEPT !.data = Cut, !.mtime = Now])

-----------------------------------------------------------------------------
(* The first walk                                                          *)

SamePermissions(p) == point[p].perm = dest[p].perm
SameMTime(p) == point[p].mtime = dest[p].mtime
SameSize(p) == point[p].size = Size(dest[p])

\* Mutant: a file of another size or time is stored, whichever is newer.
CheckStatOfSize(p) ==
    IF ~Exists(p) THEN "Store"
    ELSE IF SameSize(p) /\ SameMTime(p) /\ SamePermissions(p) THEN "NoUpdateIdentical"
    ELSE "Store"

\* What has to be done for p.
checkStat(p) ==
    IF ~Exists(p) THEN "Store"
    ELSE IF (IsHardLink(p) \/ SameSize(p)) /\ SameMTime(p)
         THEN IF SamePermissions(p) THEN "NoUpdateIdentical" ELSE "UpdatePermissions"
    ELSE IF point[p].mtime < dest[p].mtime THEN "OtherIsNewer"
    ELSE "Store"

\* The number of directories to update is counted, the number of updated ones
\* is asked for.
WorkToDo(planned, forced) ==
    \E p \in DOMAIN point :
        \/ IsHardLink(p) /\ planned[p] # "NoUpdateIdentical"
        \/ ~IsHardLink(p) /\ point[p].kind # "dir" /\ planned[p] = "Store"
        \/ ~IsHardLink(p) /\ point[p].kind = "file" /\ planned[p] = "OtherIsNewer" /\ forced

Nothing == [p \in {} |-> None]

\* Every entry is compared with the directory, and the user is asked.
StartRestore ==
    /\ pc = "idle"
    /\ \E forced \in BOOLEAN :
         LET planned == [p \in DOMAIN point |-> checkStat(p)]
         IN  /\ force' = forced
             /\ before' = dest
             /\ failed' = FALSE
             /\ \/ /\ WorkToDo(planned, forced)
                   /\ plan' = planned /\ pass' = 1 /\ todo' \in Orders(Handled(1))
                   /\ said' = None /\ pc' = "next"
                \/ /\ ~WorkToDo(planned, forced)
                   /\ said' = "up to date"
                   /\ UNCHANGED <<plan, pass, todo, pc>>
                \/ /\ WorkToDo(planned, forced)
                   /\ said' = "declined"
                   /\ UNCHANGED <<plan, pass, todo, pc>>
    /\ UNCHANGED <<point, dest>>

-----------------------------------------------------------------------------
(* The walks that extract                                                  *)

p_ == Head(todo)
Handling(kind) == pc = "next" /\ pass # 0 /\ todo # <<>> /\ Passes[pass] = kind

Skip == todo' = Tail(todo) /\ UNCHANGED <<dest, pc>>
Stays == UNCHANGED <<commandVars, plan, pass, said, failed>>

\* The next walk begins, or the command ends.
NextPass ==
    /\ pc = "next" /\ todo = <<>>
    /\ IF pass < Len(Passes)
       THEN /\ pass' = pass + 1 /\ todo' \in Orders(Handled(pass + 1))
            /\ UNCHANGED <<said, pc, plan>>
       ELSE /\ pass' = 0 /\ said' = "restored" /\ pc' = "idle" /\ plan' = Nothing
            /\ UNCHANGED todo
    /\ UNCHANGED <<commandVars, dest, failed>>

\* A regular file: nothing to do, or only its permissions.
SkipFile ==
    /\ Handling("file")
    /\ \/ plan[p_] = "NoUpdateIdentical"
       \/ plan[p_] = "OtherIsNewer" /\ ~force
    /\ Skip /\ Stays

ChmodFile ==
    /\ Handling("file")
    /\ plan[p_] = "UpdatePermissions"
    /\ dest' = Changed(dest, p_, [dest[p_] EXCEPT !.perm = point[p_].perm])
    /\ todo' = Tail(todo)
    /\ UNCHANGED pc /\ Stays

CreateFile ==
    /\ Handling("file")
    /\ plan[p_] = "Store" \/ (plan[p_] = "OtherIsNewer" /\ force)
    /\ dest' = Opened(mkDirpWriteable(dest, Parent(p_)), p_)
    /\ pc' = "write"
    /\ UNCHANGED todo /\ Stays

FillFile ==
    /\ pc = "write"
    /\ dest' = Changed(dest, p_, [dest[p_] EXCEPT !.data = point[p_].data, !.mtime = Now])
    /\ pc' = "stamp"
    /\ UNCHANGED todo /\ Stays

\* The result of createFile is dropped, the file gets its time all the same.
WriteFails ==
    /\ pc = "write"
    /\ pc' = "stamp"
    /\ failed' = TRUE
    /\ UNCHANGED <<commandVars, dest, plan, pass, todo, said>>

\* utime ends what was begun for an entry.
Stamp ==
    /\ pc = "stamp"
    /\ dest' = Changed(dest, p_, [dest[p_] EXCEPT !.mtime = point[p_].mtime])
    /\ todo' = Tail(todo)
    /\ pc' = "next"
    /\ Stays

\* The command exits.
Die ==
    /\ said' = "error" /\ pc' = "idle"
    /\ plan' = Nothing /\ pass' = 0 /\ todo' = <<>>
    /\ UNCHANGED <<commandVars, failed>>

\* A fifo that is there, but not as it should be, ends the command.
SkipFifo ==
    /\ Handling("fifo")
    /\ Exists(p_)
    /\ SamePermissions(p_) /\ SameMTime(p_)
    /\ Skip /\ Stays

CreateFifo ==
    /\ Handling("fifo")
    /\ ~Exists(p_)
    /\ LET t == mkDirpWriteable(dest, Parent(p_))
       IN  dest' = With(t, p_, New(t, "fifo", point[p_].perm, None))
    /\ pc' = "stamp"
    /\ UNCHANGED todo /\ Stays

FifoIsThere ==
    /\ Handling("fifo")
    /\ Exists(p_)
    /\ ~(SamePermissions(p_) /\ SameMTime(p_))
    /\ dest' = mkDirpWriteable(dest, Parent(p_))
    /\ Die

\* A symbolic link is deleted and created, whichever is newer.
SameLink(p) == SamePermissions(p) /\ SameSize(p) /\ SameMTime(p) /\ dest[p].data = point[p].data

SkipLink ==
    /\ Handling("link")
    /\ Exists(p_)
    /\ SameLink(p_)
    /\ Skip /\ Stays

DeleteLink ==
    /\ Handling("link")
    /\ Exists(p_)
    /\ ~SameLink(p_)
    /\ dest' = Without(mkDirpWriteable(dest, Parent(p_)), p_)
    /\ pc' = "link"
    /\ UNCHANGED todo /\ Stays

CreateLink ==
    /\ pc = "link" \/ (Handling("link") /\ ~Exists(p_))
    /\ LET t == mkDirpWriteable(dest, Parent(p_))
       IN  dest' = With(t, p_, New(t, "link", point[p_].perm, point[p_].data))
    /\ pc' = "stamp"
    /\ UNCHANGED todo /\ Stays

\* A hard link: its file must be as the link is, and no other may be in its place.
TargetFits(p) ==
    LET t == point[p].hard
    IN  Exists(t) /\ dest[t].perm = point[p].perm /\ dest[t].mtime = point[p].mtime

\* Mutant: any file in its place is taken for the link.
LooksLinkedAnyway(p) == Exists(p)

LooksLinked(p) ==
    /\ Exists(p)
    /\ SamePermissions(p) /\ SameMTime(p) /\ Size(dest[p]) = Size(dest[point[p].hard])

SkipHardLink ==
    /\ Handling("hard")
    /\ TargetFits(p_) /\ LooksLinked(p_)
    /\ Skip /\ Stays

CreateHardLink ==
    /\ Handling("hard")
    /\ TargetFits(p_) /\ ~LooksLinked(p_) /\ ~Exists(p_)
    /\ LET t == mkDirpWriteable(dest, Parent(p_))
       IN  dest' = With(t, p_, t[point[p_].hard])
    /\ pc' = "stamp"
    /\ UNCHANGED todo /\ Stays

HardLinkFails ==
    /\ Handling("hard")
    /\ \/ ~TargetFits(p_) /\ UNCHANGED dest
       \/ /\ TargetFits(p_) /\ ~LooksLinked(p_) /\ Exists(p_)
          /\ dest' = mkDirpWriteable(dest, Parent(p_))
    /\ Die

\* The permissions of a directory are set last, deepest directories first.
SkipDir ==
    /\ Handling("dir")
    /\ Exists(p_)
    /\ SamePermissions(p_) /\ SameMTime(p_)
    /\ Skip /\ Stays

ChmodDir ==
    /\ Handling("dir")
    /\ ~(IF Exists(p_) THEN SamePermissions(p_) /\ SameMTime(p_) ELSE FALSE)
    /\ LET t == mkDirpWriteable(dest, p_)
       IN  dest' = Changed(t, p_, [t[p_] EXCEPT !.perm = point[p_].perm])
    /\ pc' = "stamp"
    /\ UNCHANGED todo /\ Stays

\* The command is killed.
Crash ==
    /\ pc # "idle"
    /\ pc' = "idle" /\ said' = "killed"
    /\ plan' = Nothing /\ pass' = 0 /\ todo' = <<>>
    /\ UNCHANGED <<commandVars, dest, failed>>

Init ==
    /\ \E i \in Inputs : point = i.point /\ dest = i.dest
    /\ plan = Nothing /\ pass = 0 /\ todo = <<>>
    /\ force = FALSE /\ said = None /\ before = dest /\ failed = FALSE
    /\ pc = "idle"

Step ==
    \/ NextPass \/ SkipFile \/ ChmodFile \/ CreateFile \/ FillFile \/ WriteFails \/ Stamp
    \/ SkipFifo \/ CreateFifo \/ FifoIsThere \/ SkipLink \/ DeleteLink \/ CreateLink
    \/ SkipHardLink \/ CreateHardLink \/ HardLinkFails \/ SkipDir \/ ChmodDir

Next == StartRestore \/ Step \/ Crash

\* The command is one process that waits for no other.
Spec == Init /\ [][Next]_vars /\ WF_vars(Step)

-----------------------------------------------------------------------------
(* Properties                                                              *)

\* The variables have their types; what is in the directory is in a directory
\* there, and names of one inode say the same of it.
TypeOK ==
    /\ IsBackup(point) /\ IsTree(dest) /\ IsTree(before)
    /\ pass \in 0..Len(Passes)
    /\ todo \in Seq(DOMAIN point)
    /\ force \in BOOLEAN /\ failed \in BOOLEAN
    /\ pc \in {"idle", "next", "write", "stamp", "link"}
    /\ said \in Words \cup {None}

\* A file of the user's own that the backup has an older version of.
NewerOfUser(p) ==
    /\ point[p].kind = "file" /\ p \in DOMAIN before
    /\ before[p].mtime > point[p].mtime

\* Unless it is forced, a restore leaves a file alone that is newer than the
\* backup of it, whatever becomes of the command (origintool.cc, checkStat).  A
\* file that has a second name is out of this: it is written through that.
NewerIsKept ==
    ~force => \A p \in DOMAIN point :
        (NewerOfUser(p) /\ Names(before, p) = {p}) => (Exists(p) /\ dest[p] = before[p])

\* The names of one file in the backup.
FileOf(p) == IF IsHardLink(p) THEN point[p].hard ELSE p

\* In the directory no two names are one file that are not one in the backup.
LinkedAsInBackup ==
    \A p, q \in DOMAIN point :
        (p \in DOMAIN before /\ q \in Names(before, p)) => FileOf(p) = FileOf(q)

Ended == said = "restored" /\ ~failed /\ LinkedAsInBackup

\* What a regular file or link is to have in it.  A file that had the size and the
\* time of the backup is taken to be as it is there, and linked to as it is.
Contents(p) ==
    LET data == point[FileOf(p)].data
    IN  \/ dest[p].data = data
        \/ \E q \in {p, FileOf(p)} \cap DOMAIN before :
             /\ point[p].kind = "file"
             /\ before[q].mtime = point[p].mtime /\ Size(before[q]) = SizeOf[data]
             /\ dest[p].data = before[q].data

\* A restore that comes to its end has made everything as it is in the backup,
\* the times of the directories that it wrote to included; a newer file is as it
\* was, and a file that was written over may have kept its permissions.  A file
\* in the place of a directory, with its time and permissions, is left there.
FinishedIsRestored ==
    Ended => \A p \in DOMAIN point :
        \/ NewerOfUser(p) /\ ~force
        \/ /\ Exists(p)
           /\ dest[p].kind = point[p].kind \/ (point[p].kind = "dir" /\ dest[p].kind = "file")
           /\ dest[p].mtime = point[p].mtime
           /\ point[p].kind \in {"file", "link"} => Contents(p)
           /\ \/ SamePermissions(p)
              \/ point[p].kind = "file" /\ p \in DOMAIN before

\* Names come and go only in directories that the user may write to at that
\* moment: what made a directory writable again has not been undone by the walk
\* that sets its permissions (mkDirpWriteable, chmodDirectory).
NamesChangeWhereWritable ==
    [][\A p \in (DOMAIN dest \cup DOMAIN dest') \ (DOMAIN dest \cap DOMAIN dest') :
          dest'[Parent(p)].perm = "rw"]_dest

\* A restore that comes to its end leaves the next one nothing to do: the walks
\* that extract agree with the one that compares.
SecondHasNothingToDo ==
    Ended => ~WorkToDo([p \in DOMAIN point |-> checkStat(p)], FALSE)

DestTree ==
    [p \in DOMAIN dest \ {Root} |->
        [kind |-> dest[p].kind, perm |-> dest[p].perm, size |-> Size(dest[p]),
         mtime |-> dest[p].mtime, hard |-> None]]

Empty(d) == \A f \in DOMAIN d : d[f] = {}

\* When a diff of the backup and the directory, or of the directory and the
\* backup, finds no difference, a restore finds no file to write either, hard
\* links or not (diff.cc and checkStat compare on their own).
EmptyDiffMeansSame ==
    (Empty(Diff(point, DestTree)) \/ Empty(Diff(DestTree, point)))
        => \A p \in DOMAIN point :
             point[p].kind = "file" => checkStat(p) = "NoUpdateIdentical"

\* "No restores are needed, everything is up to date": a restore that ends with
\* these words leaves nothing of the backup missing in the directory.
UpToDateMeansRestored ==
    said = "up to date" => \A p \in DOMAIN point : Exists(p)

=============================================================================
