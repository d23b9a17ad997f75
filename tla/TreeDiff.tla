------------------------------ MODULE TreeDiff ------------------------------
(***************************************************************************)
(* What a diff says of two trees, of which each is a backup or a           *)
(* directory.  A tree maps a path to its kind, permissions, size, time,    *)
(* and in a backup to the file it is a hard link to.  Only a backup knows  *)
(* hard links, and it has no size for them.                                *)
(***************************************************************************)
EXTENDS Integers

CONSTANTS
    Sorted(_, _), \* the order of the paths that the new tree is gone through by
    None

\* What is found for a path that a map does not have.
Blank == [kind |-> "none", perm |-> None, size |-> 0, mtime |-> 0, hard |-> None]

At(tree, p) == IF p \in DOMAIN tree THEN tree[p] ELSE Blank

\* Following a hard link of the new tree looks its file up in the old one, and
\* that enters the file there.
Entered(old, curr, p) ==
    {curr[q].hard : q \in {r \in DOMAIN old \cap DOMAIN curr : curr[r].kind = "file" /\ Sorted(r, p)}}
        \cap DOMAIN curr

InOld(old, curr, p) == p \in DOMAIN old \cup Entered(old, curr, p)

\* The entry itself, or for a hard link the entry that its file has in the old
\* tree, on whichever side the link is.
Followed(tree, p, old) ==
    IF At(tree, p).hard \in DOMAIN tree THEN At(old, tree[p].hard) ELSE At(tree, p)

\* Mutant: the time says it all.
SameTime(x, y) == x.mtime = y.mtime

SameContents(x, y) == x.size = y.size /\ x.mtime = y.mtime

\* The files that are in both trees; what is not there any more once the link is
\* followed is not counted.
Both(old, curr) ==
    {p \in DOMAIN curr : InOld(old, curr, p) /\ curr[p].kind = "file" /\ Followed(curr, p, old).kind = "file"}

\* The files and directories of a tree that are not among the others.
Only(tree, others) == {p \in DOMAIN tree \ others : tree[p].kind \in {"file", "dir"}}

\* What the summaries of the directories are made of.
Diff(old, curr) ==
    LET x(p) == Followed(old, p, old)
        y(p) == Followed(curr, p, old)
    IN  [changed    |-> {p \in Both(old, curr) : ~SameContents(x(p), y(p))},
         permission |-> {p \in Both(old, curr) : x(p).perm # y(p).perm},
         added      |-> Only(curr, {p \in DOMAIN curr : InOld(old, curr, p)}),
         removed    |-> Only(old, DOMAIN curr)]

=============================================================================
