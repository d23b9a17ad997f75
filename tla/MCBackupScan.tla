---------------------------- MODULE MCBackupScan ----------------------------
(* Small origins for BackupScan.                                           *)
EXTENDS BackupScan, TLC

Dir(t) == [kind |-> "dir", size |-> 0, mtime |-> t, ino |-> 0, nlink |-> 2, future |-> FALSE]
File(t, size, ino, nlink) ==
    [kind |-> "file", size |-> size, mtime |-> t, ino |-> ino, nlink |-> nlink, future |-> FALSE]

Names == {"a", "b", "c", "d", "D", "f", "g", ".beak", "b_c"}

MCDirs == {<<>>, <<"a">>, <<"a", "b">>, <<"a", "b", "c">>, <<"a", "b_c">>, <<"d">>, <<"D">>}
MCFiles == {<<"a", "f">>, <<"a", "b", "f">>, <<"a", "b", "c", "f">>, <<"a", "b", "c", "g">>,
            <<"a", "b_c", "f">>, <<"d", "f">>, <<"g">>}
Others == {<<"d", n>> : n \in {"a", "b", "c", "g", "D", "b_c"}}
Marks == {<<".beak">>, <<"d", ".beak">>}
MCUniverse == MCDirs \cup MCFiles \cup Others \cup Marks

MCRank == [n \in Names |-> CHOOSE i \in 0..8 :
             <<".beak", "D", "a", "b", "b_c", "c", "d", "f", "g">>[i + 1] = n]
MCFoldCase == [n \in Names |-> IF n = "D" THEN "d" ELSE n]

Relative == UNION {{SubSeq(q, i, Len(q)) : i \in 1..(Len(q) + 1)} : q \in MCUniverse}
MCHashOf == [p \in Relative |-> IF p = <<>> THEN 0 ELSE MCRank[p[Len(p)]] + Len(p)]
MCSafeName == [p \in Relative |-> IF p = <<"b", "c">> THEN <<"b_c">> ELSE p]

Inode(p) == 1 + Cardinality({q \in MCFiles \cup Others : depthFirstSortPath(q, p)})

\* The two directories that have the same safe path, and what is not always there.
Twin == {<<"a", "b_c">>, <<"a", "b_c", "f">>}
Base == (MCDirs \cup MCFiles) \ (Twin \cup {<<"D">>})

\* Some files are big, one entry is the newest, some names share a file.
Origin(paths, big, new, linked) ==
    LET First == CHOOSE p \in linked : TRUE
        entry(p) ==
          [kind |-> IF p \in MCDirs \cup Marks THEN "dir" ELSE "file",
           size |-> IF p \in MCDirs \cup Marks THEN 0
                    ELSE IF p \in big \/ (p \in linked /\ linked \cap big # {}) THEN 4 ELSE 1,
           mtime |-> IF p = new \/ (p \in linked /\ new \in linked) THEN 2 ELSE 1,
           ino |-> IF p \in MCDirs \cup Marks THEN 0
                   ELSE IF p \in linked THEN Inode(First) ELSE Inode(p),
           nlink |-> IF p \in linked THEN Cardinality(linked) ELSE 1,
           future |-> FALSE]
    IN  [p \in paths |-> entry(p)]

Big == {<<"a", "b", "c", "f">>, <<"a", "b", "f">>, <<"d", "f">>}
News == {<<>>, <<"a", "b", "c">>, <<"a", "b", "c", "f">>, <<"g">>}
LinkedSets == {{}, {<<"a", "b", "c", "f">>, <<"d", "f">>},
               {<<"a", "f">>, <<"a", "b", "c", "g">>, <<"a", "b", "f">>}}

With(tree, dropped, globs) == [origin |-> tree, drops |-> dropped, triggers |-> globs]
Plain == Origin(Base, {}, <<"g">>, {})
Linked == Origin(Base, {}, <<"g">>, {<<"a", "b", "c", "f">>, <<"d", "f">>})

Usual == {With(Origin(Base, big, new, linked), {}, {}) :
            big \in SUBSET Big, new \in News, linked \in LinkedSets}

\* Filters, triggers, a directory with several tars of each size, what is passed over, and what ends the command.
Special ==
    {With(Linked, dropped, globs) :
        dropped \in {{}, {<<"a", "b", "c", "f">>}, {<<"d">>, <<"d", "f">>}, {<<"a", "b">>}},
        globs \in {{}, {<<"a", "b">>}, {<<"a", "b", "c">>}}}
    \cup {With(Origin(Base \cup marks, {}, <<"g">>, {}), {}, {}) : marks \in SUBSET Marks}
    \cup {With(Origin(Base \cup {<<"D">>}, {}, <<"g">>, {}), dropped, {}) : dropped \in {{}, {<<"D">>}}}
    \cup {With([Plain EXCEPT ![p].future = TRUE], dropped, {}) :
            p \in {<<"g">>, <<"d">>}, dropped \in {{}, {<<"g">>}}}
    \cup {With(Origin(Base \cup Others, {<<"d", "f">>, p}, <<"g">>, {}), {}, {}) : p \in Others}
    \cup {With([Plain EXCEPT ![<<"g">>].kind = "socket"], {}, {})}

MCInputs == Usual \cup Special

\* A storage directory a/b/c beside a directory with its safe path.
MCTwinInputs == {With(Origin(Base \cup Twin, {}, <<"g">>, {}), {}, {<<"a", "b", "c">>})}
=============================================================================
