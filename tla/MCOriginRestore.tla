--------------------------- MODULE MCOriginRestore ---------------------------
(***************************************************************************)
(* A backup with the directories a and d, d being empty, a file and a hard *)
(* link to it in a, and beside a another hard link to it, another file, a  *)
(* symbolic link and a fifo; and the directories it may be restored into.  *)
(***************************************************************************)
EXTENDS OriginRestore, TLC

A == <<"a">>
D == <<"d">>
F == <<"a", "f">>
H == <<"a", "h">>
G == <<"g">>
L == <<"l">>
P == <<"p">>
K == <<"k">>

MCUniverse == {Root, A, D, F, H, G, K, L, P}
MCSizeOf == [d \in {"cut", "v1", "w1", "v2", "to", "to2", None} |->
                CASE d \in {"v1", "w1"} -> 1 [] d = "v2" -> 2 [] d \in {"to", "to2"} -> 3 [] OTHER -> 0]

\* The hard link comes before its file.
MCSorted(p, q) == Len(p) < Len(q) \/ (p = H /\ q = F)

Stored(kind, perm, mtime, data, hard) ==
    [kind |-> kind, perm |-> perm, mtime |-> mtime, data |-> data, hard |-> hard,
     size |-> IF hard # None THEN 3 ELSE MCSizeOf[data]]

MCPoint ==
    (A :> Stored("dir", "ro", 2, None, None)) @@ (D :> Stored("dir", "rw", 2, None, None))
    @@ (F :> Stored("file", "rw", 2, "v1", None)) @@ (H :> Stored("file", "rw", 2, None, F))
    @@ (K :> Stored("file", "rw", 2, None, F)) @@ (G :> Stored("file", "ro", 3, "v2", None))
    @@ (L :> Stored("link", "rw", 2, "to", None)) @@ (P :> Stored("fifo", "rw", 2, None, None))

Found(kind, perm, mtime, data, ino) ==
    [kind |-> kind, perm |-> perm, mtime |-> mtime, data |-> data, ino |-> ino]

Bare == Root :> Found("dir", "rw", 1, None, None)

Same ==
    Bare @@ (A :> Found("dir", "ro", 2, None, None)) @@ (D :> Found("dir", "rw", 2, None, None))
    @@ (F :> Found("file", "rw", 2, "v1", 4)) @@ (H :> Found("file", "rw", 2, "v1", 4))
    @@ (K :> Found("file", "rw", 2, "v1", 4)) @@ (G :> Found("file", "ro", 3, "v2", 5))
    @@ (L :> Found("link", "rw", 2, "to", 6)) @@ (P :> Found("fifo", "rw", 2, None, 7))

Lacking(S) == [p \in DOMAIN Same \ S |-> Same[p]]

\* F and the hard links to it, in one file.
OfF(S, e) == [p \in S |-> e]

MCDests ==
    {Bare,
     Same,
     Lacking({D}),                                             \* an empty directory is missing
     Lacking({H, P}),
     Lacking({F, G, L}),
     (H :> Found("file", "rw", 2, "v1", 8)) @@ Same,           \* a copy in place of the link
     (H :> Found("file", "rw", 2, "v2", 8)) @@ Same,           \* another file in place of the link
     OfF({F, H, K}, Found("file", "ro", 1, "v2", 4)) @@ Same,
     OfF({F}, Found("file", "rw", 1, "v2", 4)) @@ OfF({H, K}, Found("file", "rw", 2, "w1", 8)) @@ Same,
     OfF({F, H}, Found("file", "rw", 2, "w1", 4)) @@ Lacking({K, L}), \* other contents of the same size
     (F :> Found("file", "rw", 1, "v2", 4)) @@ Lacking({H, K}),  \* an old version
     (F :> Found("file", "rw", 4, "v2", 4)) @@ Lacking({H, K}),  \* a newer version
     (G :> Found("file", "rw", 4, "v1", 5)) @@ Lacking({L}),
     (G :> Found("file", "rw", 2, "v1", 5)) @@ Lacking({D, P}),
     (G :> Found("file", "rw", 3, "v2", 5)) @@ Same,           \* only its permissions differ
     (G :> Found("file", "rw", 2, "v1", 4)) @@ Lacking({H}),   \* one file that is two in the backup
     (L :> Found("link", "rw", 4, "to2", 6)) @@ Same,          \* another link
     (P :> Found("fifo", "ro", 2, None, 7)) @@ Same,           \* another fifo
     (D :> Found("file", "rw", 2, "v1", 9)) @@ Lacking({G}),   \* a file that passes for a directory
     Bare @@ (A :> Found("file", "ro", 4, "v1", 2))}           \* a file in place of a directory

MCInputs == {[point |-> MCPoint, dest |-> d] : d \in MCDests}
=============================================================================
