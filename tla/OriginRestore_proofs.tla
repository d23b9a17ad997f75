----------------------- MODULE OriginRestore_proofs -----------------------
(***************************************************************************)
(* For every backup and every directory it is restored into.               *)
(***************************************************************************)
EXTENDS OriginRestore, FiniteSetTheorems, SequenceTheorems, TLAPS

\* Paths and what is above them, by length.
LEMMA PathIs ==
    ASSUME NEW p \in Universe
    PROVE  /\ Len(p) \in Nat /\ DOMAIN p = 1..Len(p)
           /\ p = [i \in 1..Len(p) |-> p[i]]
           /\ (p = Root <=> Len(p) = 0)
<1>1. p \in Seq({p[i] : i \in DOMAIN p})
    BY UniverseAssumption
<1> QED
    BY <1>1 DEF Root

LEMMA Begins ==
    ASSUME NEW p \in Universe, NEW n \in 0..Len(p)
    PROVE  /\ SubSeq(p, 1, n) \in Universe
           /\ Len(SubSeq(p, 1, n)) = n
           /\ \A i \in 1..n : SubSeq(p, 1, n)[i] = p[i]
           /\ n = Len(p) => SubSeq(p, 1, n) = p
<1>1. p \in Seq({p[i] : i \in DOMAIN p}) /\ Len(p) \in Nat
    BY UniverseAssumption, PathIs
<1>2. Len(SubSeq(p, 1, n)) = n /\ \A i \in 1..n : SubSeq(p, 1, n)[i] = p[i]
    BY <1>1
<1>3. ASSUME n = Len(p) PROVE SubSeq(p, 1, n) = p
    <2> DEFINE b == SubSeq(p, 1, n)
    <2>1. b \in Seq({p[i] : i \in DOMAIN p}) /\ Len(b) = n /\ \A i \in 1..n : b[i] = p[i]
        BY <1>1, <1>2, SubSeqProperties
    <2>2. b = [i \in 1..Len(b) |-> b[i]]
        BY <2>1
    <2> HIDE DEF b
    <2>3. b = p
        BY <1>3, <2>1, <2>2, PathIs
    <2> QED
        BY <2>3 DEF b
<1>4. ASSUME n # Len(p) PROVE SubSeq(p, 1, n) \in Above(p)
    <2>1. n \in 0..(Len(p) - 1)
        BY <1>1, <1>4
    <2> QED
        BY <2>1 DEF Above
<1> QED
    BY <1>2, <1>3, <1>4, UniverseAssumption

\* A path is above another if it is a beginning of it.
LEMMA AboveMeans ==
    ASSUME NEW p \in Universe, NEW a
    PROVE  a \in Above(p) <=> /\ a \in Universe /\ Len(a) < Len(p)
                              /\ \A i \in 1..Len(a) : a[i] = p[i]
<1>1. ASSUME a \in Above(p)
      PROVE  a \in Universe /\ Len(a) < Len(p) /\ \A i \in 1..Len(a) : a[i] = p[i]
    <2>1. PICK n \in 0..(Len(p) - 1) : a = SubSeq(p, 1, n)
        BY <1>1 DEF Above
    <2>2. n \in 0..Len(p) /\ n < Len(p)
        BY PathIs
    <2> QED
        BY <2>1, <2>2, Begins
<1>2. ASSUME a \in Universe, Len(a) < Len(p), \A i \in 1..Len(a) : a[i] = p[i]
      PROVE  a \in Above(p)
    <2>1. Len(a) \in Nat /\ Len(p) \in Nat /\ a = [i \in 1..Len(a) |-> a[i]]
        BY <1>2, PathIs
    <2>2. Len(a) \in 0..Len(p) /\ Len(a) \in 0..(Len(p) - 1)
        BY <1>2, <2>1
    <2> DEFINE b == SubSeq(p, 1, Len(a))
    <2>3. b \in Universe /\ Len(b) = Len(a) /\ \A i \in 1..Len(a) : b[i] = p[i]
        BY <2>2, Begins
    <2>4. b = [i \in 1..Len(b) |-> b[i]]
        BY <2>3, PathIs
    <2>5. a = b
        <3> HIDE DEF b
        <3> QED
            BY <1>2, <2>1, <2>3, <2>4
    <2> QED
        BY <2>2, <2>5 DEF Above
<1> QED
    BY <1>1, <1>2

LEMMA ParentIs ==
    ASSUME NEW p \in Universe \ {Root}
    PROVE  /\ Parent(p) \in Universe /\ Len(Parent(p)) = Len(p) - 1
           /\ Parent(p) # p /\ p \notin Above(p)
           /\ Above(p) = Above(Parent(p)) \cup {Parent(p)}
<1>1. Len(p) \in Nat \ {0}
    BY PathIs
<1>2. Parent(p) \in Universe /\ Len(Parent(p)) = Len(p) - 1
      /\ \A i \in 1..(Len(p) - 1) : Parent(p)[i] = p[i]
    <2>1. Len(p) - 1 \in 0..Len(p)
        BY <1>1
    <2> QED
        BY <2>1, Begins DEF Parent
<1>3. Parent(p) \in Above(p)
    BY <1>1, <1>2, AboveMeans
<1>4. ASSUME NEW a \in Above(Parent(p))
      PROVE  a \in Above(p)
    <2>1. a \in Universe /\ Len(a) < Len(p) - 1 /\ \A i \in 1..Len(a) : a[i] = Parent(p)[i]
        BY <1>2, <1>4, AboveMeans
    <2>2. Len(a) \in Nat
        BY <2>1, PathIs
    <2>3. Len(a) < Len(p) /\ \A i \in 1..Len(a) : a[i] = p[i]
        BY <1>1, <1>2, <2>1, <2>2
    <2> QED
        BY <2>1, <2>3, AboveMeans
<1>5. ASSUME NEW a \in Above(p), a # Parent(p)
      PROVE  a \in Above(Parent(p))
    <2>1. a \in Universe /\ Len(a) < Len(p) /\ \A i \in 1..Len(a) : a[i] = p[i]
        BY <1>5, AboveMeans
    <2>2. Len(a) \in Nat /\ a = [i \in 1..Len(a) |-> a[i]]
          /\ Parent(p) = [i \in 1..(Len(p) - 1) |-> Parent(p)[i]]
        BY <1>2, <2>1, PathIs
    <2>3. Len(a) # Len(p) - 1
        BY <1>2, <1>5, <2>1, <2>2
    <2>4. Len(a) < Len(Parent(p)) /\ \A i \in 1..Len(a) : a[i] = Parent(p)[i]
        BY <1>1, <1>2, <2>1, <2>2, <2>3
    <2> QED
        BY <1>2, <2>1, <2>4, AboveMeans
<1>6. p \notin Above(p)
    BY <1>1, AboveMeans
<1> QED
    BY <1>1, <1>2, <1>3, <1>4, <1>5, <1>6

LEMMA AboveAbove ==
    ASSUME NEW p \in Universe, NEW a \in Above(p)
    PROVE  /\ a \in Universe /\ a # p /\ Above(a) \subseteq Above(p)
           /\ p # Root /\ Len(a) < Len(p)
<1>1. a \in Universe /\ Len(a) < Len(p) /\ \A i \in 1..Len(a) : a[i] = p[i]
    BY AboveMeans
<1>2. Len(a) \in Nat /\ Len(p) \in Nat
    BY <1>1, PathIs
<1>3. ASSUME NEW b \in Above(a) PROVE b \in Above(p)
    <2>1. b \in Universe /\ Len(b) < Len(a) /\ \A i \in 1..Len(b) : b[i] = a[i]
        BY <1>1, <1>3, AboveMeans
    <2>2. Len(b) \in Nat
        BY <2>1, PathIs
    <2>3. Len(b) < Len(p) /\ \A i \in 1..Len(b) : b[i] = p[i]
        BY <1>1, <1>2, <2>1, <2>2
    <2> QED
        BY <2>1, <2>3, AboveMeans
<1>4. p # Root
    BY <1>1, <1>2, PathIs
<1> QED
    BY <1>1, <1>2, <1>3, <1>4

\* The way from the root to a directory.
Way(d) == Above(d) \cup {d}

LEMMA WayIs ==
    ASSUME NEW d \in Universe
    PROVE  /\ Root \in Way(d) /\ d \in Way(d) /\ Way(d) \subseteq Universe
           /\ \A a \in Way(d) : Above(a) \subseteq Way(d) /\ Len(a) \in Nat /\ Len(a) <= Len(d)
           /\ \A a \in Way(d) \ {Root} : Parent(a) \in Way(d)
           /\ \A a, b \in Way(d) : Len(a) < Len(b) => a \in Above(b)
           /\ \A a, b \in Way(d) : Len(a) = Len(b) => a = b
<1>1. Len(d) \in Nat
    BY PathIs
<1>2. \A a \in Way(d) : /\ a \in Universe /\ Len(a) \in Nat /\ Len(a) <= Len(d)
                        /\ \A i \in 1..Len(a) : a[i] = d[i]
    BY <1>1, AboveMeans, PathIs DEF Way
<1>3. Root \in Way(d)
    <2>1. Len(Root) = 0 /\ Root \in Universe
        BY UniverseAssumption DEF Root
    <2>2. CASE Len(d) = 0
        BY <2>2, PathIs DEF Way
    <2>3. CASE Len(d) # 0
        BY <1>1, <2>1, <2>3, AboveMeans DEF Way
    <2> QED
        BY <2>2, <2>3
<1>4. \A a \in Way(d) : Above(a) \subseteq Way(d)
    BY AboveAbove DEF Way
<1>5. \A a \in Way(d) \ {Root} : Parent(a) \in Way(d)
    BY <1>2, <1>4, ParentIs
<1>6. ASSUME NEW a \in Way(d), NEW b \in Way(d), Len(a) < Len(b)
      PROVE  a \in Above(b)
    <2>1. \A i \in 1..Len(a) : a[i] = b[i]
        BY <1>2, <1>6
    <2> QED
        BY <1>2, <1>6, <2>1, AboveMeans
<1>7. ASSUME NEW a \in Way(d), NEW b \in Way(d), Len(a) = Len(b)
      PROVE  a = b
    BY <1>2, <1>7, PathIs
<1> QED
    BY <1>2, <1>3, <1>4, <1>5, <1>6, <1>7 DEF Way

-----------------------------------------------------------------------------
(* The directory stays a tree.                                             *)

LEMMA ThereIs ==
    ASSUME NEW e \in There
    PROVE  /\ \A x \in Nat : [e EXCEPT !.mtime = x] \in There
           /\ \A x \in Perms : [e EXCEPT !.perm = x] \in There
           /\ \A x \in DOMAIN SizeOf, y \in Nat :
                e.kind \notin {"fifo", "dir"} => [e EXCEPT !.data = x, !.mtime = y] \in There
           /\ \A x \in Perms, y \in Nat : [e EXCEPT !.perm = x, !.mtime = y] \in There
BY DEF There

LEMMA NewDirIs == NewDir \in There /\ NewDir.kind = "dir" /\ NewDir.perm = "rw" /\ NewDir.ino = None
BY CutAssumption, NowAssumption DEF NewDir, There, Kinds, Perms

\* What is found in a tree; a directory has one name.
LEMMA TreeIs ==
    ASSUME NEW t, IsTree(t)
    PROVE  /\ Root \in DOMAIN t /\ t[Root].kind = "dir" /\ DOMAIN t \subseteq Universe
           /\ \A p \in DOMAIN t :
                /\ t[p] \in There /\ (t[p].ino = None <=> t[p].kind = "dir")
                /\ \A a \in Above(p) : IsDir(t, a)
                /\ \A q \in DOMAIN t : t[p].ino # None /\ t[q].ino = t[p].ino => t[q] = t[p]
BY DEF IsTree, IsDir, Names

LEMMA IsTreeIf ==
    ASSUME NEW t, IsDir(t, Root), DOMAIN t \subseteq Universe,
           \A p \in DOMAIN t :
                /\ t[p] \in There /\ (t[p].ino = None <=> t[p].kind = "dir")
                /\ \A a \in Above(p) : IsDir(t, a)
                /\ \A q \in DOMAIN t : t[p].ino # None /\ t[q].ino = t[p].ino => t[q] = t[p]
    PROVE  IsTree(t)
BY DEF IsTree, Names

\* Making a way down: what is on it are directories, and all else is as it was.
LEMMA MkDirpIs ==
    ASSUME NEW t, IsTree(t), NEW d \in Universe
    PROVE  LET u == mkDirpWriteable(t, d)
           IN  /\ IsTree(u)
               /\ DOMAIN u = DOMAIN t \cup Way(d)
               /\ \A a \in Way(d) : IsDir(u, a)
               /\ \A q \in DOMAIN t \ Way(d) : u[q] = t[q]
               /\ u[d].perm = "rw"
               /\ \A q \in DOMAIN u \ DOMAIN t : u[Parent(q)].perm = "rw"
<1> DEFINE u == mkDirpWriteable(t, d)
           there == {a \in Way(d) : IsDir(t, a)}
           last == {a \in there : \A b \in there : Len(b) <= Len(a)}
           missing == Way(d) \ there
           Opens(q) == [t[q] EXCEPT !.perm = "rw", !.mtime = IF missing = {} THEN t[q].mtime ELSE Now]
<1>1. u = [q \in DOMAIN t \cup missing |-> IF q \in missing THEN NewDir
                                         ELSE IF q \in last THEN Opens(q) ELSE t[q]]
    BY DEF mkDirpWriteable, Way
<1>2. there \subseteq DOMAIN t /\ last \subseteq there /\ missing \subseteq Way(d)
    BY DEF IsDir
<1>3. \A q \in DOMAIN t :
        Opens(q) \in There /\ Opens(q).kind = t[q].kind /\ Opens(q).perm = "rw"
        /\ Opens(q).ino = t[q].ino
    <2> SUFFICES ASSUME NEW q \in DOMAIN t
                 PROVE  Opens(q) \in There /\ Opens(q).kind = t[q].kind /\ Opens(q).perm = "rw"
                        /\ Opens(q).ino = t[q].ino
        OBVIOUS
    <2>1. t[q] \in There /\ t[q].mtime \in Nat
        BY TreeIs DEF There
    <2>2. "rw" \in Perms
        BY DEF Perms
    <2>3. Opens(q) \in There
        BY <2>1, <2>2, ThereIs, NowAssumption
    <2>4. Opens(q).kind = t[q].kind /\ Opens(q).perm = "rw" /\ Opens(q).ino = t[q].ino
        BY <2>1 DEF There
    <2> QED
        BY <2>3, <2>4
<1>4. DOMAIN u = DOMAIN t \cup Way(d) /\ DOMAIN u \subseteq Universe
    BY <1>1, <1>2, TreeIs, WayIs
<1>5. /\ \A q \in missing : q \in DOMAIN u /\ u[q] = NewDir
      /\ \A q \in last : q \in DOMAIN u /\ u[q] = Opens(q)
      /\ \A q \in there \ last : q \in DOMAIN u /\ u[q] = t[q]
      /\ \A q \in DOMAIN t \ Way(d) : q \in DOMAIN u /\ u[q] = t[q]
    <2> HIDE DEF Opens
    <2>1. missing \cap there = {} /\ there \subseteq Way(d)
        OBVIOUS
    <2> HIDE DEF missing, last, there, u
    <2> QED
        BY <1>1, <1>2, <2>1
<1>6. \A a \in Way(d) : IsDir(u, a) /\ u[a].ino = None /\ u[a] \in There
    <2> SUFFICES ASSUME NEW a \in Way(d)
                 PROVE  a \in DOMAIN u /\ u[a].kind = "dir" /\ u[a].ino = None /\ u[a] \in There
        BY DEF IsDir
    <2>1. CASE a \in missing
        BY <1>5, <2>1, NewDirIs
    <2>2. CASE a \in there
        <3>1. a \in DOMAIN t /\ t[a].kind = "dir" /\ t[a].ino = None /\ t[a] \in There
            BY <2>2, TreeIs DEF IsDir
        <3>2. u[a] = Opens(a) \/ u[a] = t[a]
            BY <1>5, <2>2
        <3>3. a \in DOMAIN u
            BY <1>4
        <3> HIDE DEF Opens, u
        <3> QED
            BY <1>3, <3>1, <3>2, <3>3
    <2> QED
        BY <2>1, <2>2
<1> HIDE DEF u, Opens
<1>7. IsTree(u)
    <2>1. IsDir(u, Root)
        BY <1>6, WayIs
    <2>2. ASSUME NEW p \in DOMAIN u, NEW a \in Above(p)
          PROVE  IsDir(u, a)
        <3>1. CASE p \in Way(d)
            BY <1>6, <3>1, <2>2, WayIs
        <3>2. CASE p \notin Way(d)
            <4>1. p \in DOMAIN t /\ IsDir(t, a)
                BY <1>4, <2>2, <3>2, TreeIs
            <4>2. a \in DOMAIN t
                BY <4>1 DEF IsDir
            <4>3. CASE a \in Way(d)
                BY <1>6, <4>3
            <4>4. CASE a \notin Way(d)
                BY <1>5, <4>1, <4>2, <4>4 DEF IsDir
            <4> QED
                BY <4>3, <4>4
        <3> QED
            BY <3>1, <3>2
    <2>3. ASSUME NEW p \in DOMAIN u
          PROVE  u[p] \in There /\ (u[p].ino = None <=> u[p].kind = "dir")
        <3>1. CASE p \in Way(d)
            BY <1>6, <3>1 DEF IsDir
        <3>2. CASE p \notin Way(d)
            <4>1. p \in DOMAIN t /\ u[p] = t[p]
                BY <1>4, <1>5, <2>3, <3>2
            <4> QED
                BY <4>1, TreeIs
        <3> QED
            BY <3>1, <3>2
    <2>4. ASSUME NEW p \in DOMAIN u, NEW q \in DOMAIN u, u[p].ino # None, u[q].ino = u[p].ino
          PROVE  u[q] = u[p]
        <3>1. p \notin Way(d) /\ q \notin Way(d)
            BY <1>6, <2>4
        <3>2. p \in DOMAIN t /\ q \in DOMAIN t /\ u[p] = t[p] /\ u[q] = t[q]
            BY <1>4, <1>5, <2>4, <3>1
        <3> QED
            BY <2>4, <3>2, TreeIs
    <2> QED
        BY <1>4, <2>1, <2>2, <2>3, <2>4, IsTreeIf
<1>8. u[d].perm = "rw"
    <2>1. CASE d \in missing
        BY <1>5, <2>1, NewDirIs
    <2>2. CASE d \notin missing
        <3>1. d \in there /\ \A b \in there : Len(b) <= Len(d)
            BY <2>2, WayIs
        <3>2. d \in last
            BY <3>1
        <3> QED
            BY <1>2, <1>3, <1>5, <3>2
    <2> QED
        BY <2>1, <2>2
<1>9. ASSUME NEW q \in DOMAIN u \ DOMAIN t
      PROVE  u[Parent(q)].perm = "rw"
    <2>1. q \in missing /\ q # Root /\ q \in Universe
        BY <1>2, <1>4, <1>9, TreeIs, WayIs
    <2> DEFINE a == Parent(q)
    <2>2. a \in Way(d) /\ Len(a) = Len(q) - 1
        BY <2>1, WayIs, ParentIs
    <2>3. CASE a \in missing
        BY <1>5, <2>3, NewDirIs
    <2>4. CASE a \in there
        <3>1. ASSUME NEW b \in there PROVE Len(b) <= Len(a)
            <4>1. b \in Way(d) /\ Len(b) \in Nat /\ Len(q) \in Nat /\ q \in Way(d)
                BY <2>1, WayIs
            <4>2. CASE Len(b) < Len(q)
                BY <2>2, <4>1, <4>2
            <4>3. CASE ~(Len(b) < Len(q))
                <5>1. q = b \/ q \in Above(b)
                    BY <4>1, <4>3, WayIs
                <5>2. IsDir(t, q)
                    BY <5>1, TreeIs DEF IsDir
                <5> QED
                    BY <1>9, <5>2 DEF IsDir
            <4> QED
                BY <4>2, <4>3
        <3>2. a \in last
            BY <2>4, <3>1
        <3> QED
            BY <1>2, <1>3, <1>5, <3>2
    <2> QED
        BY <2>2, <2>3, <2>4
<1> QED
    BY <1>4, <1>5, <1>6, <1>7, <1>8, <1>9 DEF u

\* As it was, but for the time of a directory.
Lasts(t, u, q) ==
    /\ q \in DOMAIN u
    /\ u[q].kind = t[q].kind /\ u[q].perm = t[q].perm /\ u[q].ino = t[q].ino
    /\ t[q].kind # "dir" => u[q] = t[q]

LEMMA StirredIs ==
    ASSUME NEW t, IsTree(t), NEW p, IsDir(t, Parent(p))
    PROVE  LET u == Stirred(t, p)
           IN  /\ IsTree(u) /\ DOMAIN u = DOMAIN t /\ \A q \in DOMAIN t : Lasts(t, u, q)
               /\ \A q \in DOMAIN t \ {Parent(p)} : u[q] = t[q]
<1> DEFINE u == Stirred(t, p)
           d == Parent(p)
<1>1. d \in DOMAIN t /\ t[d].kind = "dir" /\ t[d] \in There /\ t[d].ino = None
    BY TreeIs DEF IsDir
<1> DEFINE e == [t[d] EXCEPT !.mtime = Now]
<1>2. e \in There /\ e.kind = "dir" /\ e.ino = None /\ e.perm = t[d].perm
    BY <1>1, ThereIs, NowAssumption DEF There
<1>3. DOMAIN u = DOMAIN t /\ u[d] = e /\ \A q \in DOMAIN t \ {d} : u[q] = t[q]
    BY <1>1 DEF Stirred
<1> HIDE DEF u, d, e
<1>4. \A q \in DOMAIN t : /\ u[q] \in There /\ u[q].kind = t[q].kind /\ u[q].perm = t[q].perm
                          /\ u[q].ino = t[q].ino
                          /\ t[q].kind # "dir" => u[q] = t[q]
    BY <1>1, <1>2, <1>3, TreeIs
<1>5. \A q : IsDir(t, q) => IsDir(u, q)
    BY <1>3, <1>4 DEF IsDir
<1>6. IsTree(u)
    <2>1. IsDir(u, Root) /\ DOMAIN u \subseteq Universe
        BY <1>3, <1>5, TreeIs DEF IsDir
    <2>2. \A q \in DOMAIN u : u[q] \in There /\ (u[q].ino = None <=> u[q].kind = "dir")
        BY <1>3, <1>4, TreeIs
    <2>3. \A q \in DOMAIN u : \A a \in Above(q) : IsDir(u, a)
        BY <1>3, <1>5, TreeIs
    <2>4. ASSUME NEW q \in DOMAIN u, NEW r \in DOMAIN u, u[q].ino # None, u[r].ino = u[q].ino
          PROVE  u[r] = u[q]
        BY <1>3, <1>4, <2>4, TreeIs
    <2> QED
        BY <2>1, <2>2, <2>3, <2>4, IsTreeIf
<1> QED
    BY <1>3, <1>4, <1>6 DEF Lasts, u, d

\* A new name for what is no directory.
IsWith(t, u, p, e) ==
    /\ IsTree(u) /\ DOMAIN u = DOMAIN t \cup {p} /\ u[p] = e
    /\ \A q \in DOMAIN t : Lasts(t, u, q)
    /\ \A q \in DOMAIN t \ {Parent(p)} : u[q] = t[q]

LEMMA WithIs ==
    ASSUME NEW t, IsTree(t), NEW p \in Universe \ {Root}, p \notin DOMAIN t,
           IsDir(t, Parent(p)), NEW e \in There, e.kind # "dir", e.ino # None,
           \A q \in DOMAIN t : t[q].ino = e.ino => t[q] = e
    PROVE  IsWith(t, With(t, p, e), p, e)
<1> DEFINE v == [q \in DOMAIN t \cup {p} |-> IF q = p THEN e ELSE t[q]]
<1>1. DOMAIN v = DOMAIN t \cup {p} /\ v[p] = e /\ \A q \in DOMAIN t : v[q] = t[q]
    OBVIOUS
<1> HIDE DEF v
<1>2. \A q : IsDir(t, q) => IsDir(v, q)
    BY <1>1 DEF IsDir
<1>3. IsTree(v)
    <2>1. IsDir(v, Root) /\ DOMAIN v \subseteq Universe
        BY <1>1, <1>2, TreeIs DEF IsDir
    <2>2. \A q \in DOMAIN v : v[q] \in There /\ (v[q].ino = None <=> v[q].kind = "dir")
        BY <1>1, TreeIs
    <2>3. ASSUME NEW q \in DOMAIN v, NEW a \in Above(q)
          PROVE  IsDir(v, a)
        <3>1. CASE q = p
            <4>1. a = Parent(p) \/ a \in Above(Parent(p))
                BY <2>3, <3>1, ParentIs
            <4>2. IsDir(t, a)
                BY <4>1, TreeIs DEF IsDir
            <4> QED
                BY <1>2, <4>2
        <3>2. CASE q # p
            BY <1>1, <1>2, <2>3, <3>2, TreeIs
        <3> QED
            BY <3>1, <3>2
    <2>4. ASSUME NEW q \in DOMAIN v, NEW r \in DOMAIN v, v[q].ino # None, v[r].ino = v[q].ino
          PROVE  v[r] = v[q]
        BY <1>1, <2>4, TreeIs
    <2> QED
        BY <2>1, <2>2, <2>3, <2>4, IsTreeIf
<1>4. With(t, p, e) = Stirred(v, p)
    BY DEF With, v
<1>5. \A q \in DOMAIN v : Lasts(v, Stirred(v, p), q)
    BY <1>2, <1>3, StirredIs
<1>6. IsTree(Stirred(v, p)) /\ DOMAIN Stirred(v, p) = DOMAIN v
      /\ \A q \in DOMAIN v \ {Parent(p)} : Stirred(v, p)[q] = v[q]
    BY <1>2, <1>3, StirredIs
<1>7. \A q \in DOMAIN t : Lasts(t, Stirred(v, p), q)
    BY <1>1, <1>5 DEF Lasts
<1>8. Stirred(v, p)[p] = e
    BY <1>1, <1>5 DEF Lasts
<1> QED
    BY <1>1, <1>4, <1>6, <1>7, <1>8 DEF IsWith

\* A name of what is no directory goes.
LEMMA WithoutIs ==
    ASSUME NEW t, IsTree(t), NEW p \in DOMAIN t, t[p].kind # "dir"
    PROVE  LET u == Without(t, p)
           IN  /\ IsTree(u) /\ DOMAIN u = DOMAIN t \ {p}
               /\ \A q \in DOMAIN t \ {p} : Lasts(t, u, q)
               /\ \A q \in DOMAIN t \ {p, Parent(p)} : u[q] = t[q]
<1> DEFINE v == [q \in DOMAIN t \ {p} |-> t[q]]
<1>1. DOMAIN v = DOMAIN t \ {p} /\ \A q \in DOMAIN t \ {p} : v[q] = t[q]
    OBVIOUS
<1> HIDE DEF v
<1>2. \A q : IsDir(t, q) => IsDir(v, q)
    BY <1>1 DEF IsDir
<1>3. IsTree(v)
    <2>1. IsDir(v, Root) /\ DOMAIN v \subseteq Universe
        BY <1>1, <1>2, TreeIs DEF IsDir
    <2>2. \A q \in DOMAIN v : v[q] \in There /\ (v[q].ino = None <=> v[q].kind = "dir")
        BY <1>1, TreeIs
    <2>3. ASSUME NEW q \in DOMAIN v, NEW a \in Above(q)
          PROVE  IsDir(v, a)
        BY <1>1, <1>2, <2>3, TreeIs
    <2>4. ASSUME NEW q \in DOMAIN v, NEW r \in DOMAIN v, v[q].ino # None, v[r].ino = v[q].ino
          PROVE  v[r] = v[q]
        BY <1>1, <2>4, TreeIs
    <2> QED
        BY <2>1, <2>2, <2>3, <2>4, IsTreeIf
<1>4. Without(t, p) = Stirred(v, p)
    BY DEF Without, v
<1>5. p \in Universe \ {Root} /\ IsDir(t, Parent(p))
    <2>1. p \in Universe \ {Root}
        BY TreeIs
    <2>2. Parent(p) \in Above(p)
        BY <2>1, ParentIs
    <2> QED
        BY <2>1, <2>2, TreeIs
<1>6. IsTree(Stirred(v, p)) /\ DOMAIN Stirred(v, p) = DOMAIN v
      /\ (\A q \in DOMAIN v : Lasts(v, Stirred(v, p), q))
      /\ \A q \in DOMAIN v \ {Parent(p)} : Stirred(v, p)[q] = v[q]
    BY <1>2, <1>3, <1>5, StirredIs
<1>7. \A q \in DOMAIN t \ {p} : Lasts(t, Stirred(v, p), q)
    BY <1>1, <1>6 DEF Lasts
<1> QED
    BY <1>1, <1>4, <1>6, <1>7

\* What p is a name of changes, and nothing else.
LEMMA ChangedIs ==
    ASSUME NEW t, IsTree(t), NEW p \in DOMAIN t,
           NEW e \in There, e.kind = t[p].kind, e.ino = t[p].ino
    PROVE  LET u == Changed(t, p, e)
           IN  /\ IsTree(u) /\ DOMAIN u = DOMAIN t
               /\ \A q \in Names(t, p) : u[q] = e
               /\ \A q \in DOMAIN t \ Names(t, p) : u[q] = t[q]
<1> DEFINE u == Changed(t, p, e)
<1>1. /\ DOMAIN u = DOMAIN t
      /\ \A q \in Names(t, p) : u[q] = e
      /\ \A q \in DOMAIN t \ Names(t, p) : u[q] = t[q]
    BY DEF Changed, Names
<1>2. \A q \in Names(t, p) : q \in DOMAIN t /\ t[q].kind = e.kind /\ t[q].ino = e.ino
    <2> SUFFICES ASSUME NEW q \in Names(t, p)
                 PROVE  q \in DOMAIN t /\ t[q].kind = e.kind /\ t[q].ino = e.ino
        OBVIOUS
    <2>1. q \in DOMAIN t /\ (q = p \/ (t[p].ino # None /\ t[q].ino = t[p].ino))
        BY DEF Names
    <2> QED
        BY <2>1, TreeIs
<1> HIDE DEF u
<1>3. \A q \in DOMAIN t : u[q] \in There /\ u[q].kind = t[q].kind /\ u[q].ino = t[q].ino
    BY <1>1, <1>2, TreeIs
<1>4. \A q : IsDir(t, q) => IsDir(u, q)
    BY <1>1, <1>3 DEF IsDir
<1>5. IsTree(u)
    <2>1. IsDir(u, Root) /\ DOMAIN u \subseteq Universe
        BY <1>1, <1>4, TreeIs DEF IsDir
    <2>2. \A q \in DOMAIN u : u[q] \in There /\ (u[q].ino = None <=> u[q].kind = "dir")
        BY <1>1, <1>3, TreeIs
    <2>3. ASSUME NEW q \in DOMAIN u, NEW a \in Above(q)
          PROVE  IsDir(u, a)
        BY <1>1, <1>4, <2>3, TreeIs
    <2>4. ASSUME NEW q \in DOMAIN u, NEW r \in DOMAIN u, u[q].ino # None, u[r].ino = u[q].ino
          PROVE  u[r] = u[q]
        <3>1. t[q].ino # None /\ t[r].ino = t[q].ino /\ t[r] = t[q]
            BY <1>1, <1>3, <2>4, TreeIs
        <3>2. q \in Names(t, p) <=> r \in Names(t, p)
            BY <1>1, <2>4, <3>1 DEF Names
        <3> QED
            BY <1>1, <2>4, <3>1, <3>2
    <2> QED
        BY <2>1, <2>2, <2>3, <2>4, IsTreeIf
<1> QED
    BY <1>1, <1>5 DEF u

\* There is always an inode for a new file.
LEMMA UnusedIs ==
    ASSUME NEW t, IsTree(t)
    PROVE  Unused(t) \in Nat /\ Unused(t) # None /\ \A q \in DOMAIN t : t[q].ino # Unused(t)
<1> DEFINE N == Cardinality(Universe) + 1
           Used == {t[q].ino : q \in DOMAIN t}
<1>1. IsFiniteSet(DOMAIN t) /\ Cardinality(DOMAIN t) <= Cardinality(Universe)
      /\ Cardinality(Universe) \in Nat /\ Cardinality(DOMAIN t) \in Nat
    <2>1. DOMAIN t \subseteq Universe
        BY TreeIs
    <2> QED
        BY <2>1, UniverseAssumption, FS_Subset, FS_CardinalityType
<1>2. IsFiniteSet(Used) /\ Cardinality(Used) <= Cardinality(DOMAIN t) /\ Cardinality(Used) \in Nat
    <2> DEFINE f == [q \in DOMAIN t |-> t[q].ino]
    <2>1. f \in Surjection(DOMAIN t, Used)
        BY DEF Surjection
    <2> QED
        BY <1>1, <2>1, FS_Surjection, FS_CardinalityType
<1>3. \E i \in 1..N : i \notin Used
    <2> SUFFICES ASSUME 1..N \subseteq Used
                 PROVE  FALSE
        OBVIOUS
    <2>1. Cardinality(1..N) <= Cardinality(Used)
        BY <1>2, FS_Subset
    <2>2. Cardinality(1..N) = N
        <3>1. N \in Int /\ N >= 1 /\ 1 \in Int
            BY <1>1
        <3> HIDE DEF N
        <3>2. Cardinality(1..N) = IF 1 > N THEN 0 ELSE N - 1 + 1
            BY <3>1, FS_Interval
        <3> QED
            BY <3>1, <3>2
    <2> QED
        BY <1>1, <1>2, <2>1, <2>2
<1>4. PICK i \in 1..N : \A q \in DOMAIN t : t[q].ino # i
    BY <1>3
<1>5. Unused(t) \in 1..N /\ \A q \in DOMAIN t : t[q].ino # Unused(t)
    BY <1>4 DEF Unused
<1>6. Unused(t) \in Nat
    BY <1>1, <1>5
<1> QED
    BY <1>5, <1>6, NoneAssumption

-----------------------------------------------------------------------------
(* What is done for one entry of the backup.                               *)

Good(t) == IsTree(t) /\ Fits(point, t)

\* Files of the backup that are neither p nor another name of it stay as they
\* are, and all stay there.
Spares(t, u, p) ==
    \A q \in DOMAIN point : point[q].kind = "file" /\ q \in DOMAIN t =>
        q \in DOMAIN u /\ (q # p /\ p \notin Names(t, q) => u[q] = t[q])

\* Nothing that stays gets a new name.
AddsNoName(t, u) ==
    \A q \in DOMAIN t \cap DOMAIN u, r \in DOMAIN u :
        t[q].ino # None /\ u[q].ino = t[q].ino /\ u[r].ino = t[q].ino
            => r \in DOMAIN t /\ t[r].ino = t[q].ino

\* Names come and go in directories that can be written to.
Opens(t, u) ==
    \A q \in (DOMAIN t \cup DOMAIN u) \ (DOMAIN t \cap DOMAIN u) : u[Parent(q)].perm = "rw"

\* What is done for p changes only what is above it, and its own other names.
Leaves(t, u, p) ==
    /\ \A a \in Above(p) : IsDir(u, a)
    /\ \A q \in Universe \ (Above(p) \cup {p}) :
         /\ q \in DOMAIN u <=> q \in DOMAIN t
         /\ q \in DOMAIN t => /\ u[q].ino = t[q].ino
                              /\ u[q] = t[q] \/ (p \in Names(t, q) /\ p \in Names(u, q))

\* p is no new name of anything.
Joins(t, u, p) ==
    p \in DOMAIN u => \A q \in Names(u, p) : q = p \/ (p \in DOMAIN t /\ q \in Names(t, p))

Done(t, u, p) ==
    Good(u) /\ Spares(t, u, p) /\ AddsNoName(t, u) /\ Opens(t, u) /\ Leaves(t, u, p) /\ Joins(t, u, p)

LEMMA EntryIs ==
    ASSUME IsBackup(point), NEW p \in DOMAIN point
    PROVE  /\ p \in Universe \ {Root} /\ Parent(p) \in Universe
           /\ point[p].kind \in Kinds /\ point[p].perm \in Perms /\ point[p].mtime \in Nat
           /\ point[p].data \in DOMAIN SizeOf
           /\ \A a \in Way(Parent(p)) : a = Root \/ (a \in DOMAIN point /\ point[a].kind = "dir")
           /\ IsHardLink(p) => /\ point[p].kind = "file" /\ point[p].hard \in DOMAIN point
                               /\ point[point[p].hard].kind = "file" /\ ~IsHardLink(point[p].hard)
           /\ point[p].kind \in {"fifo", "dir"} => point[p].data = None
           /\ Above(p) = Way(Parent(p))
<1>1. p \in Universe \ {Root}
    BY DEF IsBackup
<1>2. Parent(p) \in Universe /\ Way(Parent(p)) = Above(p)
    BY <1>1, ParentIs DEF Way
<1>3. point[p] \in Kept
    BY DEF IsBackup
<1>4. \A a \in Above(p) : a = Root \/ (a \in DOMAIN point /\ point[a].kind = "dir")
    BY DEF IsBackup, IsDir
<1>5. IsHardLink(p) => /\ point[p].kind = "file" /\ point[p].hard \in DOMAIN point
                       /\ point[point[p].hard].kind = "file" /\ ~IsHardLink(point[p].hard)
    BY DEF IsBackup, IsHardLink
<1> QED
    BY <1>1, <1>2, <1>3, <1>4, <1>5 DEF Kept

\* Where an entry goes is made ready for it.
LEMMA MadeReady ==
    ASSUME IsBackup(point), NEW t, Good(t), NEW p \in DOMAIN point, NEW d,
           d = Parent(p) \/ (d = p /\ point[p].kind = "dir")
    PROVE  LET u == mkDirpWriteable(t, d)
           IN  /\ Good(u) /\ DOMAIN t \subseteq DOMAIN u /\ Opens(t, u)
               /\ IsDir(u, d) /\ u[d].perm = "rw"
               /\ AddsNoName(t, u)
               /\ \A q \in DOMAIN u \ DOMAIN t : Parent(q) # d
               /\ \A q \in DOMAIN point : point[q].kind # "dir" =>
                      (q \in DOMAIN u <=> q \in DOMAIN t) /\ (q \in DOMAIN t => u[q] = t[q])
               /\ \A a \in Above(p) : IsDir(u, a)
               /\ \A q \in Universe \ (Above(p) \cup {p}) :
                      (q \in DOMAIN u <=> q \in DOMAIN t) /\ (q \in DOMAIN t => u[q] = t[q])
<1> DEFINE u == mkDirpWriteable(t, d)
<1>1. d \in Universe
    BY EntryIs
<1>2. /\ IsTree(u) /\ DOMAIN u = DOMAIN t \cup Way(d)
      /\ \A a \in Way(d) : IsDir(u, a)
      /\ \A q \in DOMAIN t \ Way(d) : u[q] = t[q]
      /\ u[d].perm = "rw"
      /\ \A q \in DOMAIN u \ DOMAIN t : u[Parent(q)].perm = "rw"
    BY <1>1, MkDirpIs DEF Good
<1> HIDE DEF u
<1>3. \A a \in Way(d) : a = Root \/ (a \in DOMAIN point /\ point[a].kind = "dir")
    <2>1. CASE d = Parent(p)
        BY <2>1, EntryIs
    <2>2. CASE d = p /\ point[p].kind = "dir"
        <3>1. Way(d) = Way(Parent(p)) \cup {p}
            BY <2>2, EntryIs, ParentIs DEF Way
        <3> QED
            BY <2>2, <3>1, EntryIs
    <2> QED
        BY <2>1, <2>2
<1>4. Root \notin DOMAIN point
    BY DEF IsBackup
<1>5. \A q \in DOMAIN point : point[q].kind # "dir" =>
          (q \in DOMAIN u <=> q \in DOMAIN t) /\ (q \in DOMAIN t => u[q] = t[q])
    BY <1>2, <1>3, <1>4
<1>6. Fits(point, u)
    <2> SUFFICES ASSUME NEW q \in DOMAIN point \cap DOMAIN u
                 PROVE  u[q].kind = point[q].kind \/ (point[q].kind = "dir" /\ u[q].kind = "file")
        BY DEF Fits
    <2>1. CASE q \in Way(d)
        BY <1>2, <1>3, <1>4, <2>1 DEF IsDir
    <2>2. CASE q \notin Way(d)
        BY <1>2, <2>2 DEF Good, Fits
    <2> QED
        BY <2>1, <2>2
<1>7. AddsNoName(t, u)
    <2> SUFFICES ASSUME NEW q \in DOMAIN t, NEW r \in DOMAIN u, t[q].ino # None, u[r].ino = t[q].ino
                 PROVE  r \in DOMAIN t /\ t[r].ino = t[q].ino
        BY DEF AddsNoName
    <2>1. u[r].kind # "dir"
        BY <1>2, TreeIs
    <2>2. r \notin Way(d)
        BY <1>2, <2>1 DEF IsDir
    <2> QED
        BY <1>2, <2>2
<1>8. Opens(t, u)
    BY <1>2 DEF Opens
<1>9. IsDir(u, d)
    BY <1>1, <1>2, WayIs
<1>10. ASSUME NEW q \in DOMAIN u \ DOMAIN t
       PROVE  Parent(q) # d
    <2>1. q \in Way(d) /\ q # Root
        BY <1>2, <1>10, TreeIs DEF Good
    <2>2. q \in Universe /\ Len(q) \in Nat /\ Len(q) <= Len(d) /\ Len(d) \in Nat
        BY <1>1, <2>1, WayIs
    <2>3. Len(Parent(q)) = Len(q) - 1
        BY <2>1, <2>2, ParentIs
    <2> QED
        BY <2>2, <2>3
<1>11. Above(p) \subseteq Way(d) /\ Way(d) \subseteq Above(p) \cup {p}
    BY EntryIs DEF Way
<1>12. \A q \in Universe \ (Above(p) \cup {p}) :
          (q \in DOMAIN u <=> q \in DOMAIN t) /\ (q \in DOMAIN t => u[q] = t[q])
    BY <1>2, <1>11
<1>13. \A a \in Above(p) : IsDir(u, a)
    BY <1>2, <1>11
<1> QED
    BY <1>2, <1>5, <1>6, <1>7, <1>8, <1>9, <1>10, <1>12, <1>13 DEF Good, u

\* A new file, fifo or link.
IsFresh(t, u, p, perm, data) ==
    /\ Good(u) /\ DOMAIN u = DOMAIN t \cup {p}
    /\ \A q \in DOMAIN t : Lasts(t, u, q) /\ t[q].ino # u[p].ino
    /\ \A q \in DOMAIN t \ {Parent(p)} : u[q] = t[q]
    /\ u[p].perm = perm /\ u[p].data = data

LEMMA FreshIs ==
    ASSUME IsBackup(point), NEW t, Good(t), NEW p \in DOMAIN point, point[p].kind # "dir",
           p \notin DOMAIN t, IsDir(t, Parent(p)), NEW perm \in Perms, NEW data \in DOMAIN SizeOf,
           point[p].kind = "fifo" => data = None,
           NEW u, u = With(t, p, New(t, point[p].kind, perm, data))
    PROVE  IsFresh(t, u, p, perm, data)
<1> DEFINE e == New(t, point[p].kind, perm, data)
<1>1. e \in There /\ e.kind = point[p].kind /\ e.ino # None /\ e.perm = perm /\ e.data = data
      /\ \A q \in DOMAIN t : t[q].ino # e.ino
    BY UnusedIs, EntryIs, NowAssumption DEF New, There, Good
<1>2. p \in Universe \ {Root}
    BY EntryIs
<1> HIDE DEF e
<1>3. IsTree(u) /\ DOMAIN u = DOMAIN t \cup {p} /\ u[p] = e /\ (\A q \in DOMAIN t : Lasts(t, u, q))
      /\ \A q \in DOMAIN t \ {Parent(p)} : u[q] = t[q]
    <2>1. u = With(t, p, e)
        BY DEF e
    <2> QED
        BY <1>1, <1>2, <2>1, WithIs DEF Good, IsWith
<1>4. Fits(point, u)
    <2>1. \A q \in DOMAIN t : u[q].kind = t[q].kind
        BY <1>3 DEF Lasts
    <2>2. u[p].kind = point[p].kind
        BY <1>1, <1>3
    <2> QED
        BY <1>3, <2>1, <2>2 DEF Good, Fits
<1> QED
    BY <1>1, <1>3, <1>4 DEF Good, IsFresh

LEMMA Gone ==
    ASSUME IsBackup(point), NEW t, Good(t), NEW p \in DOMAIN point, point[p].kind # "dir",
           p \in DOMAIN t
    PROVE  LET u == Without(t, p)
           IN  /\ Good(u) /\ DOMAIN u = DOMAIN t \ {p}
               /\ \A q \in DOMAIN t \ {p} : Lasts(t, u, q)
               /\ \A q \in DOMAIN t \ {p, Parent(p)} : u[q] = t[q]
<1> DEFINE u == Without(t, p)
<1>1. t[p].kind # "dir"
    BY DEF Good, Fits
<1>2. IsTree(u) /\ DOMAIN u = DOMAIN t \ {p} /\ (\A q \in DOMAIN t \ {p} : Lasts(t, u, q))
      /\ \A q \in DOMAIN t \ {p, Parent(p)} : u[q] = t[q]
    BY <1>1, WithoutIs DEF Good
<1> HIDE DEF u
<1>3. Fits(point, u)
    <2>1. \A q \in DOMAIN u : u[q].kind = t[q].kind
        BY <1>2 DEF Lasts
    <2> QED
        BY <1>2, <2>1 DEF Good, Fits
<1> QED
    BY <1>2, <1>3 DEF Good, u

LEMMA Altered ==
    ASSUME IsBackup(point), NEW t, Good(t), NEW p \in DOMAIN point, p \in DOMAIN t,
           NEW e \in There, e.kind = t[p].kind, e.ino = t[p].ino
    PROVE  LET u == Changed(t, p, e)
           IN  /\ Good(u) /\ DOMAIN u = DOMAIN t /\ u[p] = e
               /\ \A q \in Names(t, p) : u[q] = e
               /\ \A q \in DOMAIN t \ Names(t, p) : u[q] = t[q]
               /\ \A q \in DOMAIN t : u[q].ino = t[q].ino
               /\ Done(t, u, p)
<1> DEFINE u == Changed(t, p, e)
<1>1. /\ IsTree(u) /\ DOMAIN u = DOMAIN t
      /\ \A q \in Names(t, p) : u[q] = e
      /\ \A q \in DOMAIN t \ Names(t, p) : u[q] = t[q]
    BY ChangedIs DEF Good
<1> HIDE DEF u
<1>2. p \in Names(t, p) /\ Names(t, p) \subseteq DOMAIN t
    BY DEF Names
<1>3. \A q \in Names(t, p) : t[q].kind = t[p].kind /\ t[q].ino = t[p].ino
    BY TreeIs DEF Names, Good
<1>4. \A q \in DOMAIN t : u[q].kind = t[q].kind /\ u[q].ino = t[q].ino
    BY <1>1, <1>2, <1>3
<1>5. Fits(point, u)
    BY <1>1, <1>4 DEF Good, Fits
<1>6. \A q \in DOMAIN t : q # p /\ p \notin Names(t, q) => q \notin Names(t, p)
    BY DEF Names
<1>7. Spares(t, u, p)
    BY <1>1, <1>6 DEF Spares
<1>8. AddsNoName(t, u)
    BY <1>1, <1>4 DEF AddsNoName
<1>9. Opens(t, u)
    BY <1>1 DEF Opens
<1>10. Leaves(t, u, p)
    <2>1. \A a \in Above(p) : IsDir(u, a)
        BY <1>1, TreeIs
    <2>2. ASSUME NEW q \in DOMAIN t
          PROVE  u[q] = t[q] \/ (p \in Names(t, q) /\ p \in Names(u, q))
        <3>1. CASE q \in Names(t, p)
            BY <1>1, <1>4, <3>1 DEF Names
        <3>2. CASE q \notin Names(t, p)
            BY <1>1, <3>2
        <3> QED
            BY <3>1, <3>2
    <2> QED
        BY <1>1, <1>4, <2>1, <2>2 DEF Leaves
<1>11. Joins(t, u, p)
    BY <1>1, <1>4 DEF Joins, Names
<1> QED
    BY <1>1, <1>2, <1>4, <1>5, <1>7, <1>8, <1>9, <1>10, <1>11 DEF Good, Done, u

\* The directory of p is made ready, p is deleted if it is there, and created.
LEMMA CreatedIs ==
    ASSUME IsBackup(point), NEW t, Good(t), NEW p \in DOMAIN point, point[p].kind # "dir",
           NEW w, \/ w = mkDirpWriteable(t, Parent(p)) /\ p \notin DOMAIN t
                  \/ w = Without(mkDirpWriteable(t, Parent(p)), p) /\ p \in DOMAIN t,
           NEW perm \in Perms, NEW data \in DOMAIN SizeOf,
           point[p].kind = "fifo" => data = None
    PROVE  LET u == With(w, p, New(w, point[p].kind, perm, data))
           IN  Done(t, u, p) /\ p \in DOMAIN u /\ u[p].perm = perm /\ u[p].data = data
<1> DEFINE v == mkDirpWriteable(t, Parent(p))
           u == With(w, p, New(w, point[p].kind, perm, data))
<1>1. /\ Good(v) /\ DOMAIN t \subseteq DOMAIN v /\ Opens(t, v)
      /\ IsDir(v, Parent(p)) /\ v[Parent(p)].perm = "rw"
      /\ AddsNoName(t, v)
      /\ \A q \in DOMAIN point : point[q].kind # "dir" =>
             (q \in DOMAIN v <=> q \in DOMAIN t) /\ (q \in DOMAIN t => v[q] = t[q])
      /\ \A a \in Above(p) : IsDir(v, a)
      /\ \A q \in Universe \ (Above(p) \cup {p}) :
             (q \in DOMAIN v <=> q \in DOMAIN t) /\ (q \in DOMAIN t => v[q] = t[q])
    BY MadeReady
<1> HIDE DEF v
<1>2. Parent(p) # p /\ p \notin Above(p) /\ Parent(p) \in Above(p)
    BY EntryIs, ParentIs
<1>3. /\ Good(w) /\ p \notin DOMAIN w /\ DOMAIN w = DOMAIN v \ {p}
      /\ \A q \in DOMAIN w : Lasts(v, w, q)
      /\ \A q \in DOMAIN w \ {Parent(p)} : w[q] = v[q]
    <2>1. CASE w = v /\ p \notin DOMAIN t
        <3>1. p \notin DOMAIN v
            BY <1>1, <2>1
        <3> QED
            BY <1>1, <2>1, <3>1 DEF Lasts
    <2>2. CASE w = Without(v, p) /\ p \in DOMAIN t
        <3>1. p \in DOMAIN v
            BY <1>1, <2>2
        <3>2. /\ Good(Without(v, p)) /\ DOMAIN Without(v, p) = DOMAIN v \ {p}
              /\ \A q \in DOMAIN v \ {p} : Lasts(v, Without(v, p), q)
              /\ \A q \in DOMAIN v \ {p, Parent(p)} : Without(v, p)[q] = v[q]
            BY <1>1, <3>1, Gone
        <3> QED
            BY <2>2, <3>2
    <2> QED
        BY <2>1, <2>2 DEF v
<1>4. IsDir(w, Parent(p)) /\ w[Parent(p)].perm = "rw"
    BY <1>1, <1>2, <1>3 DEF IsDir, Lasts
<1>5. /\ Good(u) /\ DOMAIN u = DOMAIN w \cup {p}
      /\ \A q \in DOMAIN w : Lasts(w, u, q) /\ w[q].ino # u[p].ino
      /\ \A q \in DOMAIN w \ {Parent(p)} : u[q] = w[q]
      /\ u[p].perm = perm /\ u[p].data = data
    <2>1. IsBackup(point) /\ Good(w) /\ point[p].kind # "dir" /\ p \notin DOMAIN w
          /\ IsDir(w, Parent(p)) /\ (point[p].kind = "fifo" => data = None)
        BY <1>3, <1>4
    <2>2. u = With(w, p, New(w, point[p].kind, perm, data))
        OBVIOUS
    <2> HIDE DEF u
    <2>3. IsFresh(w, u, p, perm, data)
        BY <2>1, <2>2, FreshIs
    <2> QED
        BY <2>3 DEF IsFresh
<1> HIDE DEF u
<1>6. \A q \in DOMAIN v \ {p} : Lasts(v, u, q) /\ v[q].ino # u[p].ino
    BY <1>3, <1>5 DEF Lasts
<1>7. DOMAIN u = DOMAIN v \cup {p}
    BY <1>3, <1>5
<1>8. Spares(t, u, p)
    <2> SUFFICES ASSUME NEW q \in DOMAIN point, point[q].kind = "file", q \in DOMAIN t
                 PROVE  q \in DOMAIN u /\ (q # p => u[q] = t[q])
        BY DEF Spares
    <2>1. q \in DOMAIN v /\ v[q] = t[q]
        BY <1>1
    <2>2. v[q].kind # "dir"
        BY <1>1, <2>1 DEF Good, Fits
    <2> QED
        BY <1>6, <1>7, <2>1, <2>2 DEF Lasts
<1>9. AddsNoName(t, u)
    <2> SUFFICES ASSUME NEW q \in DOMAIN t \cap DOMAIN u, NEW r \in DOMAIN u,
                        t[q].ino # None, u[q].ino = t[q].ino, u[r].ino = t[q].ino
                 PROVE  r \in DOMAIN t /\ t[r].ino = t[q].ino
        BY DEF AddsNoName
    <2>1. \A x \in DOMAIN u : x # p => x \in DOMAIN v /\ v[x].ino = u[x].ino /\ u[x].ino # u[p].ino
        BY <1>6, <1>7 DEF Lasts
    <2>2. q # p => r # p
        BY <2>1
    <2>3. r # p => q # p
        BY <2>1
    <2>4. CASE r = p
        BY <2>2, <2>4
    <2>5. CASE r # p
        <3>1. v[q].ino = t[q].ino /\ v[r].ino = t[q].ino /\ r \in DOMAIN v /\ q \in DOMAIN v
            BY <2>1, <2>3, <2>5
        <3> QED
            BY <1>1, <3>1 DEF AddsNoName
    <2> QED
        BY <2>4, <2>5
<1>10. Opens(t, u)
    <2> SUFFICES ASSUME NEW q \in (DOMAIN t \cup DOMAIN u) \ (DOMAIN t \cap DOMAIN u)
                 PROVE  u[Parent(q)].perm = "rw"
        BY DEF Opens
    <2>1. CASE q = p
        BY <1>4, <1>5, <2>1 DEF Lasts, IsDir
    <2>2. CASE q # p
        <3>1. q \in DOMAIN v \ DOMAIN t
            BY <1>1, <1>7, <2>2
        <3>2. v[Parent(q)].perm = "rw"
            BY <1>1, <3>1 DEF Opens
        <3>3. IsDir(v, Parent(q))
            <4>1. q \in Universe \ {Root}
                BY <1>1, <3>1, TreeIs DEF Good
            <4> QED
                BY <1>1, <3>1, <4>1, ParentIs, TreeIs DEF Good
        <3>4. Parent(q) # p
            BY <1>1, <3>3 DEF Good, Fits, IsDir
        <3> QED
            BY <1>6, <3>2, <3>3, <3>4 DEF Lasts, IsDir
    <2> QED
        BY <2>1, <2>2
<1>11. Leaves(t, u, p)
    <2>1. ASSUME NEW a \in Above(p)
          PROVE  IsDir(u, a)
        <3>1. a \in DOMAIN v \ {p} /\ v[a].kind = "dir"
            BY <1>1, <1>2 DEF IsDir
        <3> QED
            BY <1>6, <3>1 DEF Lasts, IsDir
    <2>2. ASSUME NEW q \in Universe \ (Above(p) \cup {p})
          PROVE  (q \in DOMAIN u <=> q \in DOMAIN t) /\ (q \in DOMAIN t => u[q] = t[q])
        <3>1. q # Parent(p) /\ q # p
            BY <1>2
        <3> QED
            BY <1>1, <1>3, <1>5, <1>7, <3>1
    <2> QED
        BY <2>1, <2>2 DEF Leaves
<1>12. Joins(t, u, p)
    BY <1>5 DEF Joins, Lasts, Names
<1> QED
    BY <1>5, <1>7, <1>8, <1>9, <1>10, <1>11, <1>12 DEF Done, u, v

\* A file is opened, and created if there was none or one that is read only.
LEMMA OpenedIs ==
    ASSUME IsBackup(point), NEW t, Good(t), NEW p \in DOMAIN point, point[p].kind = "file"
    PROVE  LET u == Opened(mkDirpWriteable(t, Parent(p)), p)
           IN  Done(t, u, p) /\ p \in DOMAIN u /\ (p \notin DOMAIN t => u[p].perm = point[p].perm)
<1> DEFINE v == mkDirpWriteable(t, Parent(p))
           u == Opened(v, p)
<1>1. /\ Good(v) /\ DOMAIN t \subseteq DOMAIN v /\ Opens(t, v)
      /\ AddsNoName(t, v)
      /\ \A q \in DOMAIN point : point[q].kind # "dir" =>
             (q \in DOMAIN v <=> q \in DOMAIN t) /\ (q \in DOMAIN t => v[q] = t[q])
      /\ \A q \in Universe \ (Above(p) \cup {p}) :
             (q \in DOMAIN v <=> q \in DOMAIN t) /\ (q \in DOMAIN t => v[q] = t[q])
    BY MadeReady
<1>2. point[p].perm \in Perms /\ Cut \in DOMAIN SizeOf
    BY EntryIs, CutAssumption
<1>3. CASE p \notin DOMAIN v
    <2>1. u = With(v, p, New(v, point[p].kind, point[p].perm, Cut)) /\ p \notin DOMAIN t
        BY <1>1, <1>3 DEF Opened
    <2> QED
        BY <1>2, <2>1, CreatedIs
<1>4. CASE p \in DOMAIN v /\ v[p].perm # "rw"
    <2> DEFINE w == Without(v, p)
    <2>1. u = With(w, p, New(w, point[p].kind, point[p].perm, Cut)) /\ p \in DOMAIN t
        BY <1>1, <1>4 DEF Opened
    <2> QED
        BY <1>2, <2>1, CreatedIs
<1>5. CASE p \in DOMAIN v /\ v[p].perm = "rw"
    <2> DEFINE e == [v[p] EXCEPT !.data = Cut, !.mtime = Now]
    <2>1. u = Changed(v, p, e)
        BY <1>5 DEF Opened
    <2> HIDE DEF v, u
    <2>2. e \in There /\ e.kind = v[p].kind /\ e.ino = v[p].ino
        <3>1. v[p] \in There
            BY <1>1, <1>5, TreeIs DEF Good
        <3>2. v[p].kind \notin {"fifo", "dir"}
            BY <1>1, <1>5 DEF Good, Fits
        <3>3. e \in There
            BY <1>2, <3>1, <3>2, NowAssumption, ThereIs
        <3> QED
            BY <3>1, <3>3 DEF There
    <2> HIDE DEF e
    <2>3. /\ Good(u) /\ DOMAIN u = DOMAIN v
          /\ \A q \in DOMAIN v \ Names(v, p) : u[q] = v[q]
          /\ \A q \in DOMAIN v : u[q].ino = v[q].ino
          /\ Spares(v, u, p) /\ Leaves(v, u, p) /\ Joins(v, u, p)
        BY <1>1, <1>5, <2>1, <2>2, Altered DEF Done
    <2>4. Spares(t, u, p)
        <3> SUFFICES ASSUME NEW q \in DOMAIN point, point[q].kind = "file", q \in DOMAIN t
                     PROVE  q \in DOMAIN u /\ (q # p /\ p \notin Names(t, q) => u[q] = t[q])
            BY DEF Spares
        <3>1. q \in DOMAIN v /\ v[q] = t[q] /\ p \in DOMAIN t /\ v[p] = t[p]
            BY <1>1, <1>5
        <3>2. p \notin Names(t, q) => p \notin Names(v, q)
            BY <3>1 DEF Names
        <3> QED
            BY <2>3, <3>1, <3>2 DEF Spares
    <2>5. AddsNoName(t, u)
        BY <1>1, <2>3 DEF AddsNoName
    <2>6. Opens(t, u)
        <3> SUFFICES ASSUME NEW q \in (DOMAIN t \cup DOMAIN u) \ (DOMAIN t \cap DOMAIN u)
                     PROVE  u[Parent(q)].perm = "rw"
            BY DEF Opens
        <3>1. q \in DOMAIN v \ DOMAIN t /\ v[Parent(q)].perm = "rw"
            BY <1>1, <2>3 DEF Opens
        <3>2. q \in Universe \ {Root}
            BY <1>1, <3>1, TreeIs DEF Good
        <3>3. IsDir(v, Parent(q))
            BY <1>1, <3>1, <3>2, ParentIs, TreeIs DEF Good
        <3>4. v[Parent(q)].ino = None /\ v[p].ino # None
            BY <1>1, <1>5, <3>3, TreeIs DEF IsDir, Good, Fits
        <3>5. Parent(q) \in DOMAIN v \ Names(v, p)
            BY <3>3, <3>4 DEF IsDir, Names
        <3> QED
            BY <2>3, <3>1, <3>5
    <2>7. p \in DOMAIN t /\ v[p] = t[p]
        BY <1>1, <1>5
    <2>8. Leaves(t, u, p)
        <3>1. ASSUME NEW q \in Universe \ (Above(p) \cup {p}), q \in DOMAIN t
              PROVE  u[q].ino = t[q].ino /\ (u[q] = t[q] \/ (p \in Names(t, q) /\ p \in Names(u, q)))
            <4>1. q \in DOMAIN v /\ v[q] = t[q]
                BY <1>1, <3>1
            <4> QED
                BY <2>3, <2>7, <3>1, <4>1 DEF Leaves, Names
        <3> QED
            BY <1>1, <2>3, <3>1 DEF Leaves
    <2>9. Joins(t, u, p)
        <3> SUFFICES ASSUME NEW q \in Names(u, p), q # p
                     PROVE  q \in Names(t, p)
            BY <2>7 DEF Joins
        <3>1. q \in DOMAIN v /\ v[p].ino # None /\ v[q].ino = v[p].ino /\ q \in Universe
            BY <1>1, <1>5, <2>3, TreeIs DEF Names, Good
        <3>2. v[q].kind # "dir"
            BY <1>1, <3>1, TreeIs DEF Good
        <3>3. q \notin Above(p)
            BY <1>1, <1>5, <3>2, TreeIs DEF Good, IsDir
        <3>4. q \in DOMAIN t /\ v[q] = t[q]
            BY <1>1, <3>1, <3>3
        <3> QED
            BY <2>7, <3>1, <3>4 DEF Names
    <2> QED
        BY <1>5, <2>3, <2>4, <2>5, <2>6, <2>7, <2>8, <2>9 DEF Done, u, v
<1> QED
    BY <1>3, <1>4, <1>5

LEMMA DeletedIs ==
    ASSUME IsBackup(point), NEW t, Good(t), NEW p \in DOMAIN point, point[p].kind = "link",
           p \in DOMAIN t
    PROVE  LET u == Without(mkDirpWriteable(t, Parent(p)), p)
           IN  Done(t, u, p) /\ p \notin DOMAIN u
<1> DEFINE v == mkDirpWriteable(t, Parent(p))
           u == Without(v, p)
<1>1. /\ Good(v) /\ DOMAIN t \subseteq DOMAIN v /\ Opens(t, v)
      /\ IsDir(v, Parent(p)) /\ v[Parent(p)].perm = "rw" /\ AddsNoName(t, v)
      /\ \A q \in DOMAIN point : point[q].kind # "dir" =>
             (q \in DOMAIN v <=> q \in DOMAIN t) /\ (q \in DOMAIN t => v[q] = t[q])
      /\ \A a \in Above(p) : IsDir(v, a)
      /\ \A q \in Universe \ (Above(p) \cup {p}) :
             (q \in DOMAIN v <=> q \in DOMAIN t) /\ (q \in DOMAIN t => v[q] = t[q])
    BY MadeReady
<1> HIDE DEF v
<1>2. Good(u) /\ DOMAIN u = DOMAIN v \ {p} /\ (\A q \in DOMAIN v \ {p} : Lasts(v, u, q))
      /\ \A q \in DOMAIN v \ {p, Parent(p)} : u[q] = v[q]
    BY <1>1, Gone
<1> HIDE DEF u
<1>3. Spares(t, u, p)
    <2> SUFFICES ASSUME NEW q \in DOMAIN point, point[q].kind = "file", q \in DOMAIN t
                 PROVE  q \in DOMAIN u /\ u[q] = t[q]
        BY DEF Spares
    <2>1. q # p /\ q \in DOMAIN v /\ v[q] = t[q]
        BY <1>1
    <2>2. v[q].kind # "dir"
        BY <1>1, <2>1 DEF Good, Fits
    <2> QED
        BY <1>2, <2>1, <2>2 DEF Lasts
<1>4. AddsNoName(t, u)
    <2> SUFFICES ASSUME NEW q \in DOMAIN t \cap DOMAIN u, NEW r \in DOMAIN u,
                        t[q].ino # None, u[q].ino = t[q].ino, u[r].ino = t[q].ino
                 PROVE  r \in DOMAIN t /\ t[r].ino = t[q].ino
        BY DEF AddsNoName
    <2>1. q \in DOMAIN v /\ r \in DOMAIN v /\ v[q].ino = t[q].ino /\ v[r].ino = t[q].ino
        BY <1>2 DEF Lasts
    <2> QED
        BY <1>1, <2>1 DEF AddsNoName
<1>5. Opens(t, u)
    <2> SUFFICES ASSUME NEW q \in (DOMAIN t \cup DOMAIN u) \ (DOMAIN t \cap DOMAIN u)
                 PROVE  u[Parent(q)].perm = "rw"
        BY DEF Opens
    <2>1. v[Parent(q)].perm = "rw" /\ IsDir(v, Parent(q))
        <3>1. CASE q = p
            BY <1>1, <3>1
        <3>2. CASE q # p
            <4>1. q \in DOMAIN v \ DOMAIN t
                BY <1>1, <1>2, <3>2
            <4>2. q \in Universe \ {Root}
                BY <1>1, <4>1, TreeIs DEF Good
            <4> QED
                BY <1>1, <4>1, <4>2, ParentIs, TreeIs DEF Good, Opens
        <3> QED
            BY <3>1, <3>2
    <2>2. Parent(q) # p
        BY <1>1, <2>1 DEF Good, Fits, IsDir
    <2> QED
        BY <1>2, <2>1, <2>2 DEF Lasts, IsDir
<1>6. p \notin Above(p) /\ Parent(p) \in Above(p)
    BY EntryIs, ParentIs
<1>7. Leaves(t, u, p)
    <2>1. ASSUME NEW a \in Above(p)
          PROVE  IsDir(u, a)
        <3>1. a \in DOMAIN v \ {p} /\ v[a].kind = "dir"
            BY <1>1, <1>6 DEF IsDir
        <3> QED
            BY <1>2, <3>1 DEF Lasts, IsDir
    <2>2. ASSUME NEW q \in Universe \ (Above(p) \cup {p})
          PROVE  (q \in DOMAIN u <=> q \in DOMAIN t) /\ (q \in DOMAIN t => u[q] = t[q])
        <3>1. q # Parent(p) /\ q # p
            BY <1>6
        <3> QED
            BY <1>1, <1>2, <3>1
    <2> QED
        BY <2>1, <2>2 DEF Leaves
<1>8. Joins(t, u, p)
    BY <1>2 DEF Joins
<1> QED
    BY <1>2, <1>3, <1>4, <1>5, <1>7, <1>8 DEF Done, u, v

LEMMA LinkedIs ==
    ASSUME IsBackup(point), NEW t, Good(t), NEW p \in DOMAIN point, IsHardLink(p),
           p \notin DOMAIN t, point[p].hard \in DOMAIN t
    PROVE  LET v == mkDirpWriteable(t, Parent(p))
               u == With(v, p, v[point[p].hard])
           IN  /\ Good(u) /\ Spares(t, u, p) /\ Opens(t, u)
               /\ p \in DOMAIN u /\ u[p] = t[point[p].hard]
               /\ u[point[p].hard] = t[point[p].hard] /\ Leaves(t, u, p)
<1> DEFINE v == mkDirpWriteable(t, Parent(p))
           h == point[p].hard
           u == With(v, p, v[h])
<1>1. /\ Good(v) /\ DOMAIN t \subseteq DOMAIN v /\ Opens(t, v)
      /\ IsDir(v, Parent(p)) /\ v[Parent(p)].perm = "rw"
      /\ \A q \in DOMAIN point : point[q].kind # "dir" =>
             (q \in DOMAIN v <=> q \in DOMAIN t) /\ (q \in DOMAIN t => v[q] = t[q])
      /\ \A a \in Above(p) : IsDir(v, a)
      /\ \A q \in Universe \ (Above(p) \cup {p}) :
             (q \in DOMAIN v <=> q \in DOMAIN t) /\ (q \in DOMAIN t => v[q] = t[q])
    BY MadeReady
<1> HIDE DEF v
<1>2. p \in Universe \ {Root} /\ point[p].kind = "file" /\ h \in DOMAIN point /\ point[h].kind = "file"
    BY EntryIs
<1>3. h \in DOMAIN v /\ v[h] = t[h] /\ p \notin DOMAIN v
    BY <1>1, <1>2
<1>4. /\ v[h].kind = "file" /\ v[h].ino # None /\ v[h] \in There
      /\ \A q \in DOMAIN v : v[q].ino = v[h].ino => v[q] = v[h]
    <2>1. v[h].kind = "file"
        BY <1>1, <1>2, <1>3 DEF Good, Fits
    <2> QED
        BY <1>1, <1>3, <2>1, TreeIs DEF Good
<1>5. IsTree(u) /\ DOMAIN u = DOMAIN v \cup {p} /\ u[p] = v[h] /\ (\A q \in DOMAIN v : Lasts(v, u, q))
      /\ \A q \in DOMAIN v \ {Parent(p)} : u[q] = v[q]
    <2>1. IsTree(v) /\ p \in Universe \ {Root} /\ p \notin DOMAIN v /\ IsDir(v, Parent(p))
          /\ v[h] \in There /\ v[h].kind # "dir" /\ v[h].ino # None
          /\ \A q \in DOMAIN v : v[q].ino = v[h].ino => v[q] = v[h]
        BY <1>1, <1>2, <1>3, <1>4 DEF Good
    <2> HIDE DEF h
    <2>2. IsWith(v, u, p, v[h])
        BY <2>1, WithIs
    <2> HIDE DEF u
    <2> QED
        BY <2>2 DEF IsWith
<1> HIDE DEF u
<1>6. Fits(point, u)
    <2>1. \A q \in DOMAIN v : u[q].kind = v[q].kind
        BY <1>5 DEF Lasts
    <2> QED
        BY <1>1, <1>2, <1>4, <1>5, <2>1 DEF Good, Fits
<1>7. Spares(t, u, p)
    <2> SUFFICES ASSUME NEW q \in DOMAIN point, point[q].kind = "file", q \in DOMAIN t
                 PROVE  q \in DOMAIN u /\ u[q] = t[q]
        BY DEF Spares
    <2>1. q \in DOMAIN v /\ v[q] = t[q]
        BY <1>1
    <2>2. v[q].kind # "dir"
        BY <1>1, <2>1 DEF Good, Fits
    <2> QED
        BY <1>5, <2>1, <2>2 DEF Lasts
<1>8. Opens(t, u)
    <2> SUFFICES ASSUME NEW q \in (DOMAIN t \cup DOMAIN u) \ (DOMAIN t \cap DOMAIN u)
                 PROVE  u[Parent(q)].perm = "rw"
        BY DEF Opens
    <2>1. v[Parent(q)].perm = "rw" /\ IsDir(v, Parent(q))
        <3>1. CASE q = p
            BY <1>1, <3>1
        <3>2. CASE q # p
            <4>1. q \in DOMAIN v \ DOMAIN t
                BY <1>1, <1>5, <3>2
            <4>2. q \in Universe \ {Root}
                BY <1>1, <4>1, TreeIs DEF Good
            <4> QED
                BY <1>1, <4>1, <4>2, ParentIs, TreeIs DEF Good, Opens
        <3> QED
            BY <3>1, <3>2
    <2> QED
        BY <1>5, <2>1 DEF Lasts, IsDir
<1>9. p \notin Above(p) /\ Parent(p) \in Above(p)
    BY <1>2, ParentIs
<1>10. Leaves(t, u, p)
    <2>1. ASSUME NEW a \in Above(p)
          PROVE  IsDir(u, a)
        BY <1>1, <1>5, <2>1 DEF Lasts, IsDir
    <2>2. ASSUME NEW q \in Universe \ (Above(p) \cup {p})
          PROVE  (q \in DOMAIN u <=> q \in DOMAIN t) /\ (q \in DOMAIN t => u[q] = t[q])
        <3>1. q # Parent(p) /\ q # p
            BY <1>9
        <3> QED
            BY <1>1, <1>5, <3>1
    <2> QED
        BY <2>1, <2>2 DEF Leaves
<1>11. u[h] = t[h]
    <2>1. v[h].kind # "dir"
        BY <1>4
    <2> QED
        BY <1>3, <1>5, <2>1 DEF Lasts
<1> QED
    BY <1>3, <1>5, <1>6, <1>7, <1>8, <1>10, <1>11 DEF Good, u, v

\* A directory is made, and gets its permissions.
LEMMA DirIs ==
    ASSUME IsBackup(point), NEW t, Good(t), NEW p \in DOMAIN point, point[p].kind = "dir"
    PROVE  LET v == mkDirpWriteable(t, p)
               u == Changed(v, p, [v[p] EXCEPT !.perm = point[p].perm])
           IN  /\ Good(u) /\ Opens(t, u) /\ IsDir(u, p)
               /\ \A q \in DOMAIN point : point[q].kind # "dir" /\ q \in DOMAIN t
                        => q \in DOMAIN u /\ u[q] = t[q]
               /\ Leaves(t, u, p) /\ Joins(t, u, p) /\ u[p].perm = point[p].perm
<1> DEFINE v == mkDirpWriteable(t, p)
           e == [v[p] EXCEPT !.perm = point[p].perm]
           u == Changed(v, p, e)
<1>1. /\ Good(v) /\ DOMAIN t \subseteq DOMAIN v /\ Opens(t, v)
      /\ IsDir(v, p) /\ AddsNoName(t, v)
      /\ \A q \in DOMAIN v \ DOMAIN t : Parent(q) # p
      /\ \A q \in DOMAIN point : point[q].kind # "dir" =>
             (q \in DOMAIN v <=> q \in DOMAIN t) /\ (q \in DOMAIN t => v[q] = t[q])
      /\ \A a \in Above(p) : IsDir(v, a)
      /\ \A q \in Universe \ (Above(p) \cup {p}) :
             (q \in DOMAIN v <=> q \in DOMAIN t) /\ (q \in DOMAIN t => v[q] = t[q])
    BY MadeReady
<1> HIDE DEF v
<1>2. p \in DOMAIN v /\ v[p] \in There /\ v[p].ino = None
    BY <1>1, TreeIs DEF Good, IsDir
<1>3. e \in There /\ e.kind = v[p].kind /\ e.ino = v[p].ino /\ e.perm = point[p].perm
    BY <1>2, EntryIs, ThereIs DEF There
<1>4. Names(v, p) = {p}
    BY <1>2 DEF Names
<1> HIDE DEF e
<1>5. /\ Good(u) /\ DOMAIN u = DOMAIN v
      /\ \A q \in DOMAIN v \ {p} : u[q] = v[q]
      /\ \A q \in DOMAIN v : u[q].ino = v[q].ino
      /\ u[p] = e
    BY <1>1, <1>2, <1>3, <1>4, Altered
<1> HIDE DEF u
<1>6. \A q \in DOMAIN point : point[q].kind # "dir" /\ q \in DOMAIN t
            => q \in DOMAIN u /\ u[q] = t[q]
    BY <1>1, <1>5
<1>7. IsDir(u, p)
    BY <1>1, <1>2, <1>3, <1>4, Altered DEF u, IsDir
<1>8. Opens(t, u)
    <2> SUFFICES ASSUME NEW q \in (DOMAIN t \cup DOMAIN u) \ (DOMAIN t \cap DOMAIN u)
                 PROVE  u[Parent(q)].perm = "rw"
        BY DEF Opens
    <2>1. q \in DOMAIN v \ DOMAIN t /\ v[Parent(q)].perm = "rw" /\ Parent(q) # p
        BY <1>1, <1>5 DEF Opens
    <2>2. q \in Universe \ {Root}
        BY <1>1, <2>1, TreeIs DEF Good
    <2>3. IsDir(v, Parent(q))
        BY <1>1, <2>1, <2>2, ParentIs, TreeIs DEF Good
    <2> QED
        BY <1>5, <2>1, <2>3 DEF IsDir
<1>9. p \in Universe \ {Root} /\ p \notin Above(p)
    BY EntryIs, ParentIs
<1>10. Leaves(t, u, p)
    <2>1. ASSUME NEW a \in Above(p)
          PROVE  IsDir(u, a)
        BY <1>1, <1>5, <1>9, <2>1 DEF IsDir
    <2>2. ASSUME NEW q \in Universe \ (Above(p) \cup {p})
          PROVE  (q \in DOMAIN u <=> q \in DOMAIN t) /\ (q \in DOMAIN t => u[q] = t[q])
        BY <1>1, <1>5, <2>2
    <2> QED
        BY <2>1, <2>2 DEF Leaves
<1>11. Joins(t, u, p)
    BY <1>2, <1>3, <1>5 DEF Joins, Names
<1> QED
    BY <1>3, <1>5, <1>6, <1>7, <1>8, <1>10, <1>11 DEF u, e, v

-----------------------------------------------------------------------------
(* The invariant of a command.                                             *)

\* A walk handles its own entries, and what it has begun is there.
WalkInv ==
    /\ pass = 0 <=> pc = "idle"
    /\ pc # "idle" => \A n \in DOMAIN todo : todo[n] \in Handled(pass)
    /\ pc \in {"write", "stamp", "link"} => todo # <<>>
    /\ pc = "write" => pass = 1
    /\ pc = "link" => pass = 3 /\ ~Exists(p_)
    /\ pc \in {"write", "stamp"} => Exists(p_)
    /\ pass = 5 /\ pc = "stamp" => IsDir(dest, p_)

\* What the first walk has found out is still true of files.
PlanInv ==
    /\ pc # "idle" => \A p \in Handled(1) : plan[p] = "UpdatePermissions" => Exists(p)
    /\ pass = 1 /\ pc \in {"write", "stamp"} => plan[p_] # "OtherIsNewer" \/ force

\* A file that is newer than that of the backup, and has no other name.
Own(p) == NewerOfUser(p) /\ Names(before, p) = {p}

\* It is as it was, and only the walk of the hard links may give it a name.
KeptInv ==
    ~force => \A p \in DOMAIN point : Own(p) =>
        /\ Exists(p) /\ dest[p] = before[p]
        /\ pc # "idle" => plan[p] = "OtherIsNewer"
        /\ pass \in 1..3 => Names(dest, p) = {p}
        /\ pass = 4 /\ pc = "stamp" /\ p_ \in Names(dest, p) => point[p_].mtime = dest[p].mtime

IInv == TypeOK /\ Fits(point, dest) /\ WalkInv /\ PlanInv /\ KeptInv

LEMMA PassesAre ==
    /\ Passes[1] = "file" /\ Passes[2] = "fifo" /\ Passes[3] = "link"
    /\ Passes[4] = "hard" /\ Passes[5] = "dir" /\ Len(Passes) = 5
    /\ 0 \in 0..Len(Passes) /\ 1 \in 0..Len(Passes) /\ 0 \notin 1..3 /\ 0 # 4
BY DEF Passes

\* The entry that a walk has come to.
LEMMA EntryInHand ==
    ASSUME TypeOK, WalkInv, pc # "idle", todo # <<>>
    PROVE  /\ p_ \in DOMAIN point /\ p_ \in Handled(pass) /\ pass \in 1..5
           /\ Tail(todo) \in Seq(DOMAIN point)
           /\ \A n \in DOMAIN Tail(todo) : Tail(todo)[n] \in Handled(pass)
           /\ pass = 1 => ~IsHardLink(p_) /\ point[p_].kind = "file"
           /\ pass = 2 => ~IsHardLink(p_) /\ point[p_].kind = "fifo"
           /\ pass = 3 => ~IsHardLink(p_) /\ point[p_].kind = "link"
           /\ pass = 4 => IsHardLink(p_) /\ point[p_].kind = "file"
           /\ pass = 5 => ~IsHardLink(p_) /\ point[p_].kind = "dir"
<1>1. todo \in Seq(DOMAIN point)
    BY DEF TypeOK
<1>2. Len(todo) \in Nat \ {0} /\ DOMAIN todo = 1..Len(todo) /\ p_ = todo[1]
    BY <1>1 DEF p_
<1>3. p_ \in Handled(pass)
    BY <1>2 DEF WalkInv
<1>4. p_ \in DOMAIN point
    BY <1>3 DEF Handled
<1>5. pass \in 1..5
    <2>1. pass \in 0..Len(Passes)
        BY DEF TypeOK
    <2>2. pass # 0
        BY DEF WalkInv
    <2>3. Len(Passes) = 5
        BY PassesAre
    <2> QED
        BY <2>1, <2>2, <2>3
<1>6. Tail(todo) \in Seq(DOMAIN point) /\ Len(Tail(todo)) = Len(todo) - 1
      /\ \A n \in 1..(Len(todo) - 1) : Tail(todo)[n] = todo[n + 1]
    <2>1. todo # << >>
        OBVIOUS
    <2>2. /\ Tail(todo) \in Seq(DOMAIN point) /\ Len(Tail(todo)) = Len(todo) - 1
          /\ \A n \in 1..Len(Tail(todo)) : Tail(todo)[n] = todo[n + 1]
        BY <1>1, <2>1, HeadTailProperties
    <2> QED
        BY <2>2
<1>7. \A n \in DOMAIN Tail(todo) : Tail(todo)[n] \in Handled(pass)
    <2> SUFFICES ASSUME NEW n \in DOMAIN Tail(todo)
                 PROVE  Tail(todo)[n] \in Handled(pass)
        OBVIOUS
    <2>1. n \in 1..(Len(todo) - 1)
        BY <1>2, <1>6
    <2>2. n + 1 \in DOMAIN todo /\ Tail(todo)[n] = todo[n + 1]
        BY <1>2, <1>6, <2>1
    <2> QED
        BY <2>2 DEF WalkInv
<1>8. IF Passes[pass] = "hard" THEN IsHardLink(p_) ELSE ~IsHardLink(p_) /\ point[p_].kind = Passes[pass]
    BY <1>3 DEF Handled
<1>9. IsHardLink(p_) => point[p_].kind = "file"
    BY <1>4, EntryIs DEF TypeOK
<1> QED
    BY <1>3, <1>4, <1>5, <1>6, <1>7, <1>8, <1>9, PassesAre

\* The plan and the newer files, through a step in one of the first three walks.
LEMMA EarlyStep ==
    ASSUME TypeOK, Fits(point, dest), PlanInv, KeptInv,
           pc # "idle", pass \in 1..3, NEW p \in DOMAIN point, Done(dest, dest', p),
           pass = 1 => plan[p] # "OtherIsNewer" \/ force, pass # 1 => point[p].kind # "file",
           UNCHANGED <<point, force, before, plan>>, pass' = pass \/ (pass' = 0 /\ pc' = "idle")
    PROVE  /\ KeptInv'
           /\ \A q \in Handled(1) : plan[q] = "UpdatePermissions" => q \in DOMAIN dest'
<1>1. Spares(dest, dest', p) /\ AddsNoName(dest, dest')
    BY DEF Done
<1>2. ASSUME NEW q \in Handled(1), plan[q] = "UpdatePermissions"
      PROVE  q \in DOMAIN dest'
    <2>1. q \in DOMAIN point /\ point[q].kind = "file"
        BY <1>2, PassesAre DEF Handled
    <2>2. q \in DOMAIN dest
        BY <1>2 DEF PlanInv, Exists
    <2> QED
        BY <1>1, <2>1, <2>2 DEF Spares
<1>3. KeptInv'
    <2> SUFFICES ASSUME ~force, NEW q \in DOMAIN point, Own(q)
                 PROVE  /\ q \in DOMAIN dest' /\ dest'[q] = before[q] /\ plan[q] = "OtherIsNewer"
                        /\ Names(dest', q) = {q}
        BY DEF KeptInv, Own, NewerOfUser, Exists
    <2>1. /\ q \in DOMAIN dest /\ dest[q] = before[q] /\ plan[q] = "OtherIsNewer"
          /\ Names(dest, q) = {q}
        BY DEF KeptInv, Exists
    <2>2. point[q].kind = "file" /\ q # p
        BY <2>1 DEF Own, NewerOfUser
    <2>3. q \in DOMAIN dest' /\ dest'[q] = dest[q]
        BY <1>1, <2>1, <2>2 DEF Spares
    <2>4. ASSUME NEW r \in Names(dest', q), r # q PROVE FALSE
        <3>1. r \in DOMAIN dest' /\ dest[q].ino # None /\ dest'[r].ino = dest[q].ino
            BY <2>3, <2>4 DEF Names
        <3>2. r \in DOMAIN dest /\ dest[r].ino = dest[q].ino
            BY <1>1, <2>1, <2>3, <3>1 DEF AddsNoName
        <3>3. r \in Names(dest, q)
            BY <3>1, <3>2 DEF Names
        <3> QED
            BY <2>1, <2>4, <3>3
    <2>5. Names(dest', q) = {q}
        BY <2>3, <2>4 DEF Names
    <2> QED
        BY <2>1, <2>3, <2>5
<1> QED
    BY <1>2, <1>3

\* And in the last two.
LEMMA LateStep ==
    ASSUME TypeOK, PlanInv, KeptInv, pc # "idle", pass \in 4..5,
           \A q \in DOMAIN point : point[q].kind = "file" /\ q \in DOMAIN dest
                => q \in DOMAIN dest' /\ (Own(q) /\ ~force => dest'[q] = dest[q]),
           \A q \in DOMAIN point : Own(q) /\ ~force /\ pass' = 4 /\ pc' = "stamp" /\ p_' \in Names(dest', q)
                => point[p_'].mtime = dest'[q].mtime,
           UNCHANGED <<point, force, before, plan>>, pass' = pass
    PROVE  KeptInv' /\ \A q \in Handled(1) : plan[q] = "UpdatePermissions" => q \in DOMAIN dest'
<1>1. ASSUME NEW q \in Handled(1), plan[q] = "UpdatePermissions"
      PROVE  q \in DOMAIN dest'
    <2>1. q \in DOMAIN point /\ point[q].kind = "file"
        BY <1>1, PassesAre DEF Handled
    <2>2. q \in DOMAIN dest
        BY <1>1 DEF PlanInv, Exists
    <2> QED
        BY <2>1, <2>2
<1>2. KeptInv'
    <2> SUFFICES ASSUME ~force, NEW q \in DOMAIN point, Own(q)
                 PROVE  q \in DOMAIN dest' /\ dest'[q] = before[q] /\ plan[q] = "OtherIsNewer"
        BY DEF KeptInv, Own, NewerOfUser, Exists
    <2>1. q \in DOMAIN dest /\ dest[q] = before[q] /\ plan[q] = "OtherIsNewer"
        BY DEF KeptInv, Exists
    <2>2. point[q].kind = "file"
        BY DEF Own, NewerOfUser
    <2> QED
        BY <2>1, <2>2
<1> QED
    BY <1>1, <1>2

-----------------------------------------------------------------------------
(* The steps.  What one of them does to the directory is told by the       *)
(* lemmas above; this is what it does to the walk.                         *)

LEMMA MovesOn ==
    ASSUME TypeOK, WalkInv, pc # "idle", todo # <<>>, IsTree(dest'),
           \A q \in Handled(1) : plan[q] = "UpdatePermissions" => q \in DOMAIN dest',
           todo' = Tail(todo), pc' = "next",
           UNCHANGED <<point, before, force, failed, said, plan, pass>>
    PROVE  TypeOK' /\ WalkInv' /\ PlanInv'
<1>1. Tail(todo) \in Seq(DOMAIN point)
      /\ \A n \in DOMAIN Tail(todo) : Tail(todo)[n] \in Handled(pass)
    BY EntryInHand
<1>2. TypeOK'
    BY <1>1 DEF TypeOK
<1>3. pass # 0
    BY DEF WalkInv
<1>4. (\A n \in DOMAIN todo : todo[n] \in Handled(pass))'
    BY <1>1 DEF Handled, IsHardLink
<1>5. WalkInv'
    BY <1>3, <1>4 DEF WalkInv
<1>6. (\A p \in Handled(1) : plan[p] = "UpdatePermissions" => Exists(p))'
    BY DEF Handled, IsHardLink, Exists
<1>7. PlanInv'
    BY <1>6 DEF PlanInv
<1> QED
    BY <1>2, <1>5, <1>7

LEMMA GoesOn ==
    ASSUME TypeOK, WalkInv, pc # "idle", todo # <<>>, IsTree(dest'),
           \A q \in Handled(1) : plan[q] = "UpdatePermissions" => q \in DOMAIN dest',
           todo' = todo, pc' \in {"write", "stamp", "link"},
           pc' = "write" => pass = 1,
           pc' = "link" => pass = 3 /\ p_ \notin DOMAIN dest',
           pc' \in {"write", "stamp"} => p_ \in DOMAIN dest',
           pass = 5 => IsDir(dest', p_),
           pass = 1 => plan[p_] # "OtherIsNewer" \/ force,
           failed' \in BOOLEAN, UNCHANGED <<point, before, force, said, plan, pass>>
    PROVE  TypeOK' /\ WalkInv' /\ PlanInv'
<1>1. p_' = p_
    BY DEF p_
<1>2. TypeOK'
    BY DEF TypeOK
<1>3. pass # 0 /\ \A n \in DOMAIN todo : todo[n] \in Handled(pass)
    BY DEF WalkInv
<1>4. (\A n \in DOMAIN todo : todo[n] \in Handled(pass))'
    BY <1>3 DEF Handled, IsHardLink
<1>5. WalkInv'
    <2>1. (pc = "link" => pass = 3 /\ ~Exists(p_))' /\ (pc \in {"write", "stamp"} => Exists(p_))'
          /\ (pass = 5 /\ pc = "stamp" => IsDir(dest, p_))'
        BY <1>1 DEF Exists, IsDir
    <2>2. (pass = 0 <=> pc = "idle")' /\ (todo # <<>>)' /\ (pc = "write" => pass = 1)'
        BY <1>3
    <2> QED
        BY <1>4, <2>1, <2>2 DEF WalkInv
<1>6. (\A p \in Handled(1) : plan[p] = "UpdatePermissions" => Exists(p))'
    BY DEF Handled, IsHardLink, Exists
<1>7. PlanInv'
    BY <1>1, <1>6 DEF PlanInv
<1> QED
    BY <1>2, <1>5, <1>7

LEMMA EndsHere ==
    ASSUME TypeOK, IsTree(dest'), pass' = 0, pc' = "idle", todo' = <<>>,
           said' \in Words \cup {None},
           UNCHANGED <<point, before, force, failed>>
    PROVE  TypeOK' /\ WalkInv' /\ PlanInv'
<1>1. <<>> \in Seq(DOMAIN point)
    BY EmptySeq
<1>2. 0 \in 0..Len(Passes)
    BY PassesAre
<1>3. TypeOK'
    BY <1>1, <1>2 DEF TypeOK
<1>4. WalkInv' /\ PlanInv'
    BY DEF WalkInv, PlanInv
<1> QED
    BY <1>3, <1>4

LEMMA NoChange == dest' = dest => Opens(dest, dest')
BY DEF Opens

LEMMA GoodDest == IInv => Good(dest) /\ IsBackup(point)
BY DEF IInv, TypeOK, Good

LEMMA FitsStays == UNCHANGED point /\ Good(dest') => IsTree(dest') /\ Fits(point, dest)'
BY DEF Good, Fits

\* The entries of a walk, in an order it may come to them.
LEMMA OrderIs ==
    ASSUME IsBackup(point), NEW n \in 1..5, NEW s \in Orders(Handled(n))
    PROVE  s \in Seq(DOMAIN point) /\ \A i \in DOMAIN s : s[i] \in Handled(n)
<1>1. IsFiniteSet(Handled(n)) /\ Handled(n) \subseteq DOMAIN point
    <2>1. Handled(n) \subseteq DOMAIN point /\ DOMAIN point \subseteq Universe
        BY DEF Handled, IsBackup
    <2> QED
        BY <2>1, UniverseAssumption, FS_Subset
<1>2. Cardinality(Handled(n)) \in Nat
    BY <1>1, FS_CardinalityType
<1>3. s \in [1..Cardinality(Handled(n)) -> Handled(n)]
    BY DEF Orders, Bijection, Injection, Surjection
<1> QED
    BY <1>1, <1>2, <1>3

LEMMA StartStep == IInv /\ StartRestore => IInv'
<1> SUFFICES ASSUME IInv, StartRestore PROVE IInv'
    OBVIOUS
<1>1. IsTree(dest) /\ IsBackup(point) /\ todo \in Seq(DOMAIN point) /\ pass \in 0..Len(Passes)
    BY DEF IInv, TypeOK
<1>2. dest' = dest /\ point' = point /\ before' = dest /\ pc = "idle" /\ pass = 0 /\ failed' = FALSE
    BY DEF StartRestore, IInv, WalkInv
<1>3. Fits(point, dest)'
    BY <1>2 DEF Fits, IInv
<1>4. \A p : Own(p)' => p \in DOMAIN dest' /\ dest'[p] = before'[p] /\ Names(dest, p)' = {p}
    BY <1>2 DEF Own, NewerOfUser, Names
<1>5. PICK forced \in BOOLEAN : force' = forced /\
         \/ /\ UNCHANGED <<plan, pass, todo, pc>>
            /\ said' \in {"up to date", "declined"}
         \/ /\ plan' = [p \in DOMAIN point |-> checkStat(p)] /\ pass' = 1
            /\ todo' \in Orders(Handled(1)) /\ said' = None /\ pc' = "next"
    BY Zenon DEF StartRestore
<1>6. CASE UNCHANGED <<plan, pass, todo, pc>> /\ said' \in {"up to date", "declined"}
    <2>1. TypeOK'
        BY <1>1, <1>2, <1>5, <1>6 DEF TypeOK, Words
    <2>2. WalkInv' /\ PlanInv'
        BY <1>2, <1>6 DEF WalkInv, PlanInv
    <2>3. KeptInv'
        BY <1>2, <1>4, <1>6 DEF KeptInv, Exists
    <2> QED
        BY <1>3, <2>1, <2>2, <2>3 DEF IInv
<1>7. CASE /\ plan' = [p \in DOMAIN point |-> checkStat(p)] /\ pass' = 1
           /\ todo' \in Orders(Handled(1)) /\ said' = None /\ pc' = "next"
    <2>1. todo' \in Seq(DOMAIN point) /\ \A i \in DOMAIN todo' : todo'[i] \in Handled(1)
        BY <1>1, <1>7, OrderIs
    <2>2. 1 \in 0..Len(Passes)
        BY PassesAre
    <2>3. TypeOK'
        BY <1>1, <1>2, <1>5, <1>7, <2>1, <2>2 DEF TypeOK
    <2>4. (\A i \in DOMAIN todo : todo[i] \in Handled(pass))'
        BY <1>2, <1>7, <2>1 DEF Handled, IsHardLink
    <2>5. WalkInv'
        BY <1>7, <2>4 DEF WalkInv
    <2>6. \A p \in DOMAIN point : plan'[p] = checkStat(p)
        BY <1>7
    <2>7. (\A p \in Handled(1) : plan[p] = "UpdatePermissions" => Exists(p))'
        <3>1. \A p : checkStat(p) = "UpdatePermissions" => Exists(p)
            BY DEF checkStat
        <3>2. \A p \in Handled(1) : plan'[p] = "UpdatePermissions" => Exists(p)
            BY <2>6, <3>1 DEF Handled
        <3> QED
            BY <1>2, <3>2 DEF Handled, IsHardLink, Exists
    <2>8. PlanInv'
        BY <1>7, <2>7 DEF PlanInv
    <2>9. ASSUME NEW p \in DOMAIN point, Own(p)'
          PROVE  plan'[p] = "OtherIsNewer"
        <3>1. p \in DOMAIN dest /\ dest[p].mtime > point[p].mtime
            BY <1>2, <2>9 DEF Own, NewerOfUser
        <3>2. dest[p].mtime \in Nat /\ point[p].mtime \in Nat
            BY <1>1, <3>1, TreeIs, EntryIs DEF There
        <3>3. checkStat(p) = "OtherIsNewer"
            BY <3>1, <3>2 DEF checkStat, Exists, SameMTime
        <3> QED
            BY <2>6, <3>3
    <2>10. KeptInv'
        BY <1>2, <1>4, <1>7, <2>9 DEF KeptInv, Exists
    <2> QED
        BY <1>3, <2>3, <2>5, <2>8, <2>10 DEF IInv
<1> QED
    BY <1>5, <1>6, <1>7

LEMMA HandlingIs ==
    ASSUME TypeOK, WalkInv
    PROVE  /\ Handling("file") => pass = 1
           /\ Handling("fifo") => pass = 2
           /\ Handling("link") => pass = 3
           /\ Handling("hard") => pass = 4
           /\ Handling("dir") => pass = 5
<1>1. Handling("file") \/ Handling("fifo") \/ Handling("link") \/ Handling("hard") \/ Handling("dir")
      => pass \in 1..5
    BY EntryInHand DEF Handling
<1> QED
    BY <1>1, PassesAre DEF Handling

LEMMA NothingDone == ASSUME Good(dest), NEW p \in DOMAIN dest PROVE Done(dest, dest, p)
<1>1. Leaves(dest, dest, p) /\ Joins(dest, dest, p)
    BY TreeIs DEF Leaves, Joins, Good
<1> QED
    BY <1>1 DEF Done, Spares, AddsNoName, Opens

\* In the first three walks an entry is begun, or done with.
LEMMA EarlyGoesOn ==
    ASSUME IInv, pc # "idle", todo # <<>>, pass \in 1..3, Done(dest, dest', p_),
           pass = 1 => plan[p_] # "OtherIsNewer" \/ force,
           todo' = todo, pc' \in {"write", "stamp", "link"},
           pc' = "write" => pass = 1,
           pc' = "link" => pass = 3 /\ p_ \notin DOMAIN dest',
           pc' \in {"write", "stamp"} => p_ \in DOMAIN dest',
           failed' \in BOOLEAN, UNCHANGED <<point, before, force, said, plan, pass>>
    PROVE  IInv' /\ Opens(dest, dest')
<1>1. TypeOK /\ WalkInv /\ PlanInv /\ KeptInv /\ Fits(point, dest)
    BY DEF IInv
<1>2. p_ \in DOMAIN point /\ (pass # 1 => point[p_].kind # "file")
    BY <1>1, EntryInHand
<1>3. Good(dest') /\ Opens(dest, dest')
    BY DEF Done
<1>4. IsTree(dest') /\ Fits(point, dest)'
    BY <1>3, FitsStays
<1>5. KeptInv' /\ \A q \in Handled(1) : plan[q] = "UpdatePermissions" => q \in DOMAIN dest'
    BY <1>1, <1>2, EarlyStep
<1>6. pass # 5
    OBVIOUS
<1>7. TypeOK' /\ WalkInv' /\ PlanInv'
    BY <1>1, <1>4, <1>5, <1>6, GoesOn
<1> QED
    BY <1>3, <1>4, <1>5, <1>7 DEF IInv

LEMMA EarlyMovesOn ==
    ASSUME IInv, pc # "idle", todo # <<>>, pass \in 1..3, Done(dest, dest', p_),
           pass = 1 => plan[p_] # "OtherIsNewer" \/ force,
           todo' = Tail(todo), pc' = "next",
           UNCHANGED <<point, before, force, failed, said, plan, pass>>
    PROVE  IInv' /\ Opens(dest, dest')
<1>1. TypeOK /\ WalkInv /\ PlanInv /\ KeptInv /\ Fits(point, dest)
    BY DEF IInv
<1>2. p_ \in DOMAIN point /\ (pass # 1 => point[p_].kind # "file")
    BY <1>1, EntryInHand
<1>3. Good(dest') /\ Opens(dest, dest')
    BY DEF Done
<1>4. IsTree(dest') /\ Fits(point, dest)'
    BY <1>3, FitsStays
<1>5. KeptInv' /\ \A q \in Handled(1) : plan[q] = "UpdatePermissions" => q \in DOMAIN dest'
    BY <1>1, <1>2, EarlyStep
<1>6. TypeOK' /\ WalkInv' /\ PlanInv'
    BY <1>1, <1>4, <1>5, MovesOn
<1> QED
    BY <1>3, <1>4, <1>5, <1>6 DEF IInv

\* An entry that is left as it is.
LEMMA SkipStep ==
    ASSUME IInv, pc = "next", todo # <<>>, Skip, Stays
    PROVE  IInv' /\ Opens(dest, dest')
<1>1. TypeOK /\ WalkInv /\ PlanInv /\ KeptInv /\ Fits(point, dest) /\ Good(dest)
    BY GoodDest DEF IInv
<1>2. dest' = dest /\ todo' = Tail(todo) /\ pc' = "next"
      /\ UNCHANGED <<point, before, force, failed, said, plan, pass>>
    BY DEF Skip, Stays, commandVars
<1>3. Fits(point, dest)' /\ IsTree(dest')
    BY <1>1, <1>2 DEF Fits, Good
<1>4. \A q \in Handled(1) : plan[q] = "UpdatePermissions" => q \in DOMAIN dest'
    BY <1>1, <1>2 DEF PlanInv, Exists
<1>5. TypeOK' /\ WalkInv' /\ PlanInv'
    BY <1>1, <1>2, <1>3, <1>4, MovesOn
<1>6. KeptInv'
    BY <1>1, <1>2 DEF KeptInv, Exists, Own, NewerOfUser, Names
<1> QED
    BY <1>2, <1>3, <1>5, <1>6, NoChange DEF IInv

LEMMA BegunIs ==
    ASSUME IInv, pc \in {"write", "stamp", "link"}
    PROVE  /\ todo # <<>> /\ pc # "idle" /\ pass \in 1..5 /\ p_ \in DOMAIN point
           /\ pc = "write" => pass = 1
           /\ pc = "link" => pass = 3 /\ p_ \notin DOMAIN dest
           /\ pc # "link" => p_ \in DOMAIN dest
           /\ pass = 1 /\ pc # "link" => plan[p_] # "OtherIsNewer" \/ force
           /\ pass = 1 => point[p_].kind = "file"
BY EntryInHand DEF IInv, WalkInv, PlanInv, Exists

LEMMA ThereOf ==
    ASSUME Good(dest), NEW p \in DOMAIN point, IsBackup(point), p \in DOMAIN dest
    PROVE  /\ dest[p] \in There
           /\ [dest[p] EXCEPT !.perm = point[p].perm] \in There
           /\ [dest[p] EXCEPT !.mtime = point[p].mtime] \in There
           /\ point[p].kind = "file" => [dest[p] EXCEPT !.data = point[p].data, !.mtime = Now] \in There
<1>1. dest[p] \in There /\ (point[p].kind = "file" => dest[p].kind = "file")
    BY DEF Good, IsTree, Fits
<1>2. point[p].perm \in Perms /\ point[p].mtime \in Nat /\ point[p].data \in DOMAIN SizeOf
    BY EntryIs
<1> QED
    BY <1>1, <1>2, NowAssumption DEF There

LEMMA AlteredHere ==
    ASSUME Good(dest), NEW p \in DOMAIN point, IsBackup(point), p \in DOMAIN dest,
           NEW e \in There, e.kind = dest[p].kind, e.ino = dest[p].ino,
           dest' = Changed(dest, p, e)
    PROVE  Done(dest, dest', p) /\ p \in DOMAIN dest'
BY Altered

LEMMA ChmodFileStep == IInv /\ ChmodFile => IInv' /\ Opens(dest, dest')
<1> SUFFICES ASSUME IInv, ChmodFile PROVE IInv' /\ Opens(dest, dest')
    OBVIOUS
<1>1. TypeOK /\ WalkInv /\ PlanInv /\ Good(dest) /\ IsBackup(point)
    BY GoodDest DEF IInv
<1>2. pass = 1 /\ pc = "next" /\ todo # <<>>
    BY <1>1, HandlingIs DEF ChmodFile, Handling
<1>3. p_ \in DOMAIN point /\ p_ \in Handled(1)
    BY <1>1, <1>2, EntryInHand
<1>4. plan[p_] = "UpdatePermissions" /\ p_ \in DOMAIN dest
    BY <1>1, <1>2, <1>3 DEF ChmodFile, PlanInv, Exists
<1> DEFINE e == [dest[p_] EXCEPT !.perm = point[p_].perm]
<1>5. e \in There /\ e.kind = dest[p_].kind /\ e.ino = dest[p_].ino
    BY <1>1, <1>3, <1>4, ThereOf DEF There
<1>6. dest' = Changed(dest, p_, e)
    BY DEF ChmodFile
<1> HIDE DEF e
<1>7. Done(dest, dest', p_)
    BY <1>1, <1>3, <1>4, <1>5, <1>6, AlteredHere
<1>8. todo' = Tail(todo) /\ pc' = "next"
      /\ UNCHANGED <<point, before, force, failed, said, plan, pass>>
    BY <1>2 DEF ChmodFile, Stays, commandVars
<1> QED
    BY <1>2, <1>4, <1>7, <1>8, EarlyMovesOn

LEMMA CreateFileStep == IInv /\ CreateFile => IInv' /\ Opens(dest, dest')
<1> SUFFICES ASSUME IInv, CreateFile PROVE IInv' /\ Opens(dest, dest')
    OBVIOUS
<1>1. TypeOK /\ WalkInv /\ Good(dest) /\ IsBackup(point)
    BY GoodDest DEF IInv
<1>2. pass = 1 /\ pc = "next" /\ todo # <<>>
    BY <1>1, HandlingIs DEF CreateFile, Handling
<1>3. p_ \in DOMAIN point /\ point[p_].kind = "file"
    BY <1>1, <1>2, EntryInHand
<1>4. Done(dest, dest', p_) /\ p_ \in DOMAIN dest'
    BY <1>1, <1>3, OpenedIs DEF CreateFile
<1>5. todo' = todo /\ pc' = "write" /\ UNCHANGED <<point, before, force, failed, said, plan, pass>>
    BY DEF CreateFile, Stays, commandVars
<1>6. plan[p_] # "OtherIsNewer" \/ force
    BY DEF CreateFile
<1>7. failed' \in BOOLEAN
    BY <1>1, <1>5 DEF TypeOK
<1> QED
    BY <1>2, <1>4, <1>5, <1>6, <1>7, EarlyGoesOn

LEMMA FillFileStep == IInv /\ FillFile => IInv' /\ Opens(dest, dest')
<1> SUFFICES ASSUME IInv, FillFile PROVE IInv' /\ Opens(dest, dest')
    OBVIOUS
<1>1. TypeOK /\ Good(dest) /\ IsBackup(point)
    BY GoodDest DEF IInv
<1>2. pc = "write" /\ pass = 1 /\ todo # <<>> /\ p_ \in DOMAIN point /\ p_ \in DOMAIN dest
      /\ (plan[p_] # "OtherIsNewer" \/ force) /\ point[p_].kind = "file"
    BY BegunIs DEF FillFile
<1> DEFINE e == [dest[p_] EXCEPT !.data = point[p_].data, !.mtime = Now]
<1>3. e \in There /\ e.kind = dest[p_].kind /\ e.ino = dest[p_].ino
    BY <1>1, <1>2, ThereOf DEF There
<1>4. dest' = Changed(dest, p_, e)
    BY DEF FillFile
<1> HIDE DEF e
<1>5. Done(dest, dest', p_) /\ p_ \in DOMAIN dest'
    BY <1>1, <1>2, <1>3, <1>4, AlteredHere
<1>6. todo' = todo /\ pc' = "stamp" /\ UNCHANGED <<point, before, force, failed, said, plan, pass>>
    BY DEF FillFile, Stays, commandVars
<1>7. failed' \in BOOLEAN
    BY <1>1, <1>6 DEF TypeOK
<1> QED
    BY <1>2, <1>5, <1>6, <1>7, EarlyGoesOn

LEMMA WriteFailsStep == IInv /\ WriteFails => IInv' /\ Opens(dest, dest')
<1> SUFFICES ASSUME IInv, WriteFails PROVE IInv' /\ Opens(dest, dest')
    OBVIOUS
<1>1. pc = "write" /\ pass = 1 /\ todo # <<>> /\ p_ \in DOMAIN dest
      /\ (plan[p_] # "OtherIsNewer" \/ force)
    BY BegunIs DEF WriteFails
<1>2. dest' = dest /\ todo' = todo /\ pc' = "stamp" /\ failed' \in BOOLEAN
      /\ UNCHANGED <<point, before, force, said, plan, pass>>
    BY DEF WriteFails, commandVars
<1>3. Done(dest, dest', p_)
    BY <1>1, <1>2, GoodDest, NothingDone
<1> QED
    BY <1>1, <1>2, <1>3, EarlyGoesOn

LEMMA CreateFifoStep == IInv /\ CreateFifo => IInv' /\ Opens(dest, dest')
<1> SUFFICES ASSUME IInv, CreateFifo PROVE IInv' /\ Opens(dest, dest')
    OBVIOUS
<1>1. TypeOK /\ WalkInv /\ Good(dest) /\ IsBackup(point)
    BY GoodDest DEF IInv
<1>2. pass = 2 /\ pc = "next" /\ todo # <<>> /\ p_ \notin DOMAIN dest
    BY <1>1, HandlingIs DEF CreateFifo, Handling, Exists
<1>3. p_ \in DOMAIN point /\ point[p_].kind = "fifo"
    BY <1>1, <1>2, EntryInHand
<1>4. point[p_].perm \in Perms /\ None \in DOMAIN SizeOf
    BY <1>1, <1>3, EntryIs, CutAssumption
<1> DEFINE t == mkDirpWriteable(dest, Parent(p_))
           u == With(t, p_, New(t, point[p_].kind, point[p_].perm, None))
<1>5. dest' = u
    BY <1>3 DEF CreateFifo
<1>6. Done(dest, u, p_) /\ p_ \in DOMAIN u
    BY <1>1, <1>2, <1>3, <1>4, CreatedIs
<1> HIDE DEF u
<1>7. todo' = todo /\ pc' = "stamp" /\ UNCHANGED <<point, before, force, failed, said, plan, pass>>
    BY DEF CreateFifo, Stays, commandVars
<1>8. failed' \in BOOLEAN
    BY <1>1, <1>7 DEF TypeOK
<1> QED
    BY <1>2, <1>5, <1>6, <1>7, <1>8, EarlyGoesOn

LEMMA DeleteLinkStep == IInv /\ DeleteLink => IInv' /\ Opens(dest, dest')
<1> SUFFICES ASSUME IInv, DeleteLink PROVE IInv' /\ Opens(dest, dest')
    OBVIOUS
<1>1. TypeOK /\ WalkInv /\ Good(dest) /\ IsBackup(point)
    BY GoodDest DEF IInv
<1>2. pass = 3 /\ pc = "next" /\ todo # <<>> /\ p_ \in DOMAIN dest
    BY <1>1, HandlingIs DEF DeleteLink, Handling, Exists
<1>3. p_ \in DOMAIN point /\ point[p_].kind = "link"
    BY <1>1, <1>2, EntryInHand
<1>4. Done(dest, dest', p_) /\ p_ \notin DOMAIN dest'
    BY <1>1, <1>2, <1>3, DeletedIs DEF DeleteLink
<1>5. todo' = todo /\ pc' = "link" /\ UNCHANGED <<point, before, force, failed, said, plan, pass>>
    BY DEF DeleteLink, Stays, commandVars
<1>6. failed' \in BOOLEAN
    BY <1>1, <1>5 DEF TypeOK
<1> QED
    BY <1>2, <1>4, <1>5, <1>6, EarlyGoesOn

LEMMA CreateLinkStep == IInv /\ CreateLink => IInv' /\ Opens(dest, dest')
<1> SUFFICES ASSUME IInv, CreateLink PROVE IInv' /\ Opens(dest, dest')
    OBVIOUS
<1>1. TypeOK /\ WalkInv /\ Good(dest) /\ IsBackup(point)
    BY GoodDest DEF IInv
<1>2. pass = 3 /\ pc # "idle" /\ todo # <<>> /\ p_ \notin DOMAIN dest
    BY <1>1, HandlingIs, BegunIs DEF CreateLink, Handling, Exists
<1>3. p_ \in DOMAIN point /\ point[p_].kind = "link"
    BY <1>1, <1>2, EntryInHand
<1>4. point[p_].perm \in Perms /\ point[p_].data \in DOMAIN SizeOf
    BY <1>1, <1>3, EntryIs
<1> DEFINE t == mkDirpWriteable(dest, Parent(p_))
           u == With(t, p_, New(t, point[p_].kind, point[p_].perm, point[p_].data))
<1>5. dest' = u
    BY <1>3 DEF CreateLink
<1>6. Done(dest, u, p_) /\ p_ \in DOMAIN u
    BY <1>1, <1>2, <1>3, <1>4, CreatedIs
<1> HIDE DEF u
<1>7. todo' = todo /\ pc' = "stamp" /\ UNCHANGED <<point, before, force, failed, said, plan, pass>>
    BY DEF CreateLink, Stays, commandVars
<1>8. failed' \in BOOLEAN
    BY <1>1, <1>7 DEF TypeOK
<1> QED
    BY <1>2, <1>5, <1>6, <1>7, <1>8, EarlyGoesOn

\* The same of the two walks that come last.
LEMMA LateMovesOn ==
    ASSUME IInv, pc # "idle", todo # <<>>, pass \in 4..5, Good(dest'), Opens(dest, dest'),
           \A q \in DOMAIN point : point[q].kind = "file" /\ q \in DOMAIN dest
                => q \in DOMAIN dest' /\ (Own(q) /\ ~force => dest'[q] = dest[q]),
           todo' = Tail(todo), pc' = "next",
           UNCHANGED <<point, before, force, failed, said, plan, pass>>
    PROVE  IInv' /\ Opens(dest, dest')
<1>1. TypeOK /\ WalkInv /\ PlanInv /\ KeptInv
    BY DEF IInv
<1>2. IsTree(dest') /\ Fits(point, dest)'
    BY FitsStays
<1>3. KeptInv' /\ \A q \in Handled(1) : plan[q] = "UpdatePermissions" => q \in DOMAIN dest'
    BY <1>1, LateStep
<1>4. TypeOK' /\ WalkInv' /\ PlanInv'
    BY <1>1, <1>2, <1>3, MovesOn
<1> QED
    BY <1>2, <1>3, <1>4 DEF IInv

LEMMA LateGoesOn ==
    ASSUME IInv, pc # "idle", todo # <<>>, pass \in 4..5, Good(dest'), Opens(dest, dest'),
           \A q \in DOMAIN point : point[q].kind = "file" /\ q \in DOMAIN dest
                => q \in DOMAIN dest' /\ (Own(q) /\ ~force => dest'[q] = dest[q]),
           p_ \in DOMAIN dest', pass = 5 => IsDir(dest', p_),
           pass = 4 => \A q \in DOMAIN point : Own(q) /\ ~force /\ p_ \in Names(dest', q)
                => point[p_].mtime = dest'[q].mtime,
           todo' = todo, pc' = "stamp",
           UNCHANGED <<point, before, force, failed, said, plan, pass>>
    PROVE  IInv' /\ Opens(dest, dest')
<1>1. TypeOK /\ WalkInv /\ PlanInv /\ KeptInv
    BY DEF IInv
<1>2. IsTree(dest') /\ Fits(point, dest)'
    BY FitsStays
<1>3. p_' = p_
    BY DEF p_
<1>4. KeptInv' /\ \A q \in Handled(1) : plan[q] = "UpdatePermissions" => q \in DOMAIN dest'
    BY <1>1, <1>3, LateStep
<1>5. failed' \in BOOLEAN
    BY <1>1 DEF TypeOK
<1>7. pass # 1
    OBVIOUS
<1>6. TypeOK' /\ WalkInv' /\ PlanInv'
    BY <1>1, <1>2, <1>4, <1>5, <1>7, GoesOn
<1> QED
    BY <1>2, <1>4, <1>6 DEF IInv

\* The command ends.
LEMMA EndStep ==
    ASSUME IInv, pc # "idle", Good(dest'), Opens(dest, dest'),
           \A q \in DOMAIN point : point[q].kind = "file" /\ q \in DOMAIN dest
                => q \in DOMAIN dest' /\ dest'[q] = dest[q],
           pass' = 0, pc' = "idle", todo' = <<>>,
           said' \in Words \cup {None},
           UNCHANGED <<point, before, force, failed>>
    PROVE  IInv' /\ Opens(dest, dest')
<1>1. TypeOK /\ KeptInv
    BY DEF IInv
<1>2. IsTree(dest') /\ Fits(point, dest)'
    BY FitsStays
<1>3. TypeOK' /\ WalkInv' /\ PlanInv'
    BY <1>1, <1>2, EndsHere
<1>4. KeptInv'
    <2>1. ASSUME ~force, NEW p \in DOMAIN point, Own(p)
          PROVE  p \in DOMAIN dest' /\ dest'[p] = before[p]
        <3>1. p \in DOMAIN dest /\ dest[p] = before[p]
            BY <1>1, <2>1 DEF KeptInv, Exists
        <3>2. point[p].kind = "file"
            BY <2>1 DEF Own, NewerOfUser
        <3> QED
            BY <3>1, <3>2
    <2>2. pass' \notin 1..3 /\ pass' # 4
        BY PassesAre, Zenon
    <2>3. \A p : Own(p)' <=> Own(p)
        BY DEF Own, NewerOfUser, Names
    <2> QED
        BY <2>1, <2>2, <2>3 DEF KeptInv, Exists
<1> QED
    BY <1>2, <1>3, <1>4 DEF IInv

LEMMA CrashStep == IInv /\ Crash => IInv' /\ Opens(dest, dest')
<1> SUFFICES ASSUME IInv, Crash PROVE IInv' /\ Opens(dest, dest')
    OBVIOUS
<1>1. dest' = dest /\ UNCHANGED <<point, before, force, failed>>
    BY DEF Crash, commandVars
<1>2. Good(dest') /\ Opens(dest, dest')
    BY <1>1, GoodDest, NoChange
<1>3. pc # "idle" /\ pass' = 0 /\ pc' = "idle" /\ todo' = <<>> /\ said' = "killed"
    BY DEF Crash
<1> QED
    BY <1>1, <1>2, <1>3, EndStep DEF Words

LEMMA FifoIsThereStep == IInv /\ FifoIsThere => IInv' /\ Opens(dest, dest')
<1> SUFFICES ASSUME IInv, FifoIsThere PROVE IInv' /\ Opens(dest, dest')
    OBVIOUS
<1>1. TypeOK /\ WalkInv /\ Good(dest) /\ IsBackup(point)
    BY GoodDest DEF IInv
<1>2. pc = "next" /\ todo # <<>>
    BY DEF FifoIsThere, Handling
<1>3. p_ \in DOMAIN point
    BY <1>1, <1>2, EntryInHand
<1>4. dest' = mkDirpWriteable(dest, Parent(p_))
    BY DEF FifoIsThere
<1>5. Good(dest') /\ Opens(dest, dest')
      /\ \A q \in DOMAIN point : point[q].kind # "dir" /\ q \in DOMAIN dest
            => q \in DOMAIN dest' /\ dest'[q] = dest[q]
    BY <1>1, <1>3, <1>4, MadeReady
<1>6. pass' = 0 /\ pc' = "idle" /\ todo' = <<>> /\ said' = "error"
      /\ UNCHANGED <<point, before, force, failed>>
    BY DEF FifoIsThere, Die, commandVars
<1> QED
    BY <1>2, <1>5, <1>6, EndStep DEF Words

LEMMA HardLinkFailsStep == IInv /\ HardLinkFails => IInv' /\ Opens(dest, dest')
<1> SUFFICES ASSUME IInv, HardLinkFails PROVE IInv' /\ Opens(dest, dest')
    OBVIOUS
<1>1. TypeOK /\ WalkInv /\ Good(dest) /\ IsBackup(point)
    BY GoodDest DEF IInv
<1>2. pc = "next" /\ todo # <<>>
    BY DEF HardLinkFails, Handling
<1>3. p_ \in DOMAIN point
    BY <1>1, <1>2, EntryInHand
<1>4. dest' = dest \/ dest' = mkDirpWriteable(dest, Parent(p_))
    BY DEF HardLinkFails
<1>5. Good(dest') /\ Opens(dest, dest')
      /\ \A q \in DOMAIN point : point[q].kind # "dir" /\ q \in DOMAIN dest
            => q \in DOMAIN dest' /\ dest'[q] = dest[q]
    BY <1>1, <1>3, <1>4, MadeReady, NoChange
<1>6. pass' = 0 /\ pc' = "idle" /\ todo' = <<>> /\ said' = "error"
      /\ UNCHANGED <<point, before, force, failed>>
    BY DEF HardLinkFails, Die, commandVars
<1> QED
    BY <1>2, <1>5, <1>6, EndStep DEF Words

LEMMA ChmodDirStep == IInv /\ ChmodDir => IInv' /\ Opens(dest, dest')
<1> SUFFICES ASSUME IInv, ChmodDir PROVE IInv' /\ Opens(dest, dest')
    OBVIOUS
<1>1. TypeOK /\ WalkInv /\ Good(dest) /\ IsBackup(point)
    BY GoodDest DEF IInv
<1>2. pass = 5 /\ pc = "next" /\ todo # <<>>
    BY <1>1, HandlingIs DEF ChmodDir, Handling
<1>3. p_ \in DOMAIN point /\ point[p_].kind = "dir"
    BY <1>1, <1>2, EntryInHand
<1> DEFINE t == mkDirpWriteable(dest, p_)
           u == Changed(t, p_, [t[p_] EXCEPT !.perm = point[p_].perm])
<1>4. dest' = u
    BY DEF ChmodDir
<1>5. /\ Good(u) /\ Opens(dest, u) /\ IsDir(u, p_)
      /\ \A q \in DOMAIN point : point[q].kind # "dir" /\ q \in DOMAIN dest
            => q \in DOMAIN u /\ u[q] = dest[q]
    BY <1>1, <1>3, DirIs
<1> HIDE DEF u
<1>6. p_ \in DOMAIN u
    BY <1>5 DEF IsDir
<1>7. todo' = todo /\ pc' = "stamp" /\ UNCHANGED <<point, before, force, failed, said, plan, pass>>
    BY DEF ChmodDir, Stays, commandVars
<1> QED
    BY <1>2, <1>4, <1>5, <1>6, <1>7, LateGoesOn

LEMMA CreateHardLinkStep == IInv /\ CreateHardLink => IInv' /\ Opens(dest, dest')
<1> SUFFICES ASSUME IInv, CreateHardLink PROVE IInv' /\ Opens(dest, dest')
    OBVIOUS
<1>1. TypeOK /\ WalkInv /\ Good(dest) /\ IsBackup(point)
    BY GoodDest DEF IInv
<1>2. pass = 4 /\ pc = "next" /\ todo # <<>>
    BY <1>1, HandlingIs DEF CreateHardLink, Handling
<1>3. p_ \in DOMAIN point /\ IsHardLink(p_)
    BY <1>1, <1>2, EntryInHand
<1>4. /\ p_ \notin DOMAIN dest /\ point[p_].hard \in DOMAIN dest
      /\ dest[point[p_].hard].mtime = point[p_].mtime
    BY DEF CreateHardLink, Exists, TargetFits
<1> DEFINE t == mkDirpWriteable(dest, Parent(p_))
           u == With(t, p_, t[point[p_].hard])
<1>5. dest' = u
    BY DEF CreateHardLink
<1>6. /\ Good(u) /\ Spares(dest, u, p_) /\ Opens(dest, u)
      /\ p_ \in DOMAIN u /\ u[p_] = dest[point[p_].hard]
    BY <1>1, <1>3, <1>4, LinkedIs
<1> HIDE DEF u
<1>7. ASSUME NEW q \in DOMAIN point, point[q].kind = "file", q \in DOMAIN dest
      PROVE  q \in DOMAIN u /\ u[q] = dest[q]
    BY <1>4, <1>6, <1>7 DEF Spares, Names
<1>8. ASSUME NEW q \in DOMAIN point, p_ \in Names(u, q), Own(q), ~force
      PROVE  point[p_].mtime = u[q].mtime
    <2>1. q \in DOMAIN dest /\ point[q].kind = "file"
        BY <1>8 DEF IInv, KeptInv, Exists, Own, NewerOfUser
    <2>2. q \in DOMAIN u /\ (q = p_ \/ (u[q].ino # None /\ u[p_].ino = u[q].ino))
        BY <1>7, <1>8, <2>1 DEF Names
    <2>3. u[p_] = u[q]
        BY <1>6, <2>2, TreeIs DEF Good
    <2> QED
        BY <1>4, <1>6, <2>3
<1>9. todo' = todo /\ pc' = "stamp" /\ UNCHANGED <<point, before, force, failed, said, plan, pass>>
    BY DEF CreateHardLink, Stays, commandVars
<1> QED
    BY <1>2, <1>5, <1>6, <1>7, <1>8, <1>9, LateGoesOn

LEMMA StampStep == IInv /\ Stamp => IInv' /\ Opens(dest, dest')
<1> SUFFICES ASSUME IInv, Stamp PROVE IInv' /\ Opens(dest, dest')
    OBVIOUS
<1>1. TypeOK /\ WalkInv /\ PlanInv /\ Good(dest) /\ IsBackup(point)
    BY GoodDest DEF IInv
<1>2. /\ pc = "stamp" /\ pc # "idle" /\ pass \in 1..5 /\ todo # <<>>
      /\ p_ \in DOMAIN point /\ p_ \in DOMAIN dest
      /\ (pass = 1 => plan[p_] # "OtherIsNewer" \/ force)
    BY BegunIs DEF Stamp
<1> DEFINE e == [dest[p_] EXCEPT !.mtime = point[p_].mtime]
           u == Changed(dest, p_, e)
<1>3. e \in There /\ e.kind = dest[p_].kind /\ e.ino = dest[p_].ino
    BY <1>1, <1>2, ThereOf DEF There
<1>4. dest' = u
    BY DEF Stamp
<1>5. dest[p_] \in There /\ dest[p_].mtime = point[p_].mtime => e = dest[p_]
    BY DEF There
<1> HIDE DEF e
<1>6. /\ Good(u) /\ DOMAIN u = DOMAIN dest
      /\ \A q \in Names(dest, p_) : u[q] = e
      /\ \A q \in DOMAIN dest \ Names(dest, p_) : u[q] = dest[q]
      /\ Done(dest, u, p_)
    BY <1>1, <1>2, <1>3, Altered
<1> HIDE DEF u
<1>7. todo' = Tail(todo) /\ pc' = "next"
      /\ UNCHANGED <<point, before, force, failed, said, plan, pass>>
    BY DEF Stamp, Stays, commandVars
<1>8. CASE pass \in 1..3
    BY <1>2, <1>4, <1>6, <1>7, <1>8, EarlyMovesOn
<1>9. CASE pass \in 4..5
    <2>1. Opens(dest, u)
        BY <1>6 DEF Done
    <2>2. ASSUME NEW q \in DOMAIN point, point[q].kind = "file", q \in DOMAIN dest, Own(q), ~force
          PROVE  u[q] = dest[q]
        <3>1. CASE q \notin Names(dest, p_)
            BY <1>6, <2>2, <3>1
        <3>2. CASE q \in Names(dest, p_)
            <4>1. dest[q] = dest[p_] /\ p_ \in Names(dest, q)
                BY <1>1, <1>2, <3>2, TreeIs DEF Good, Names
            <4>2. CASE pass = 4
                <5>1. point[p_].mtime = dest[q].mtime
                    BY <1>2, <2>2, <4>1, <4>2 DEF IInv, KeptInv
                <5>2. e = dest[p_]
                    BY <1>1, <1>2, <1>5, <4>1, <5>1, ThereOf
                <5> QED
                    BY <1>6, <3>2, <4>1, <5>2
            <4>3. CASE pass = 5
                <5>1. IsDir(dest, p_) /\ point[p_].kind = "dir"
                    BY <1>1, <1>2, <4>3, EntryInHand DEF WalkInv
                <5>2. dest[p_].kind = "dir" /\ dest[p_].ino = None
                    BY <1>1, <1>2, <5>1, TreeIs DEF IsDir, Good
                <5>3. q = p_
                    BY <3>2, <5>2 DEF Names
                <5> QED
                    BY <2>2, <5>1, <5>3
            <4> QED
                BY <1>9, <4>2, <4>3
        <3> QED
            BY <3>1, <3>2
    <2> QED
        BY <1>2, <1>4, <1>6, <1>7, <1>9, <2>1, <2>2, LateMovesOn
<1>10. pass \in 1..3 \/ pass \in 4..5
    BY <1>2
<1> QED
    BY <1>8, <1>9, <1>10

\* From one walk to the next.
LEMMA NextPassStep == IInv /\ NextPass => IInv' /\ Opens(dest, dest')
<1> SUFFICES ASSUME IInv, NextPass PROVE IInv' /\ Opens(dest, dest')
    OBVIOUS
<1>1. TypeOK /\ WalkInv /\ PlanInv /\ KeptInv /\ IsBackup(point)
    BY DEF IInv, TypeOK
<1>2. pc = "next" /\ todo = <<>> /\ dest' = dest /\ UNCHANGED <<point, before, force, failed>>
    BY DEF NextPass, commandVars
<1>3. Good(dest') /\ Opens(dest, dest') /\ IsTree(dest') /\ Fits(point, dest)'
    BY <1>2, GoodDest, NoChange, FitsStays
<1>4. pass \in 0..Len(Passes) /\ pass # 0
    BY <1>1, <1>2 DEF TypeOK, WalkInv
<1>5. pass \in 1..5
    BY <1>4, PassesAre
<1>6. CASE ~(pass < Len(Passes))
    <2>1. pass' = 0 /\ pc' = "idle" /\ todo' = <<>> /\ said' = "restored"
        BY <1>2, <1>6 DEF NextPass
    <2> QED
        BY <1>2, <1>3, <2>1, EndStep DEF Words
<1>7. CASE pass < Len(Passes)
    <2>1. /\ pass' = pass + 1 /\ todo' \in Orders(Handled(pass + 1))
          /\ UNCHANGED <<said, pc, plan>>
        BY <1>7 DEF NextPass
    <2>2. pass + 1 \in 1..5 /\ pass + 1 \in 0..Len(Passes) /\ (pass + 1 \in 1..3 => pass \in 1..3)
          /\ pass + 1 # 0
        BY <1>5, <1>7, PassesAre
    <2>3. todo' \in Seq(DOMAIN point) /\ \A i \in DOMAIN todo' : todo'[i] \in Handled(pass + 1)
        BY <1>1, <2>1, <2>2, OrderIs
    <2>4. TypeOK'
        <3>1. pass' \in 0..Len(Passes)
            BY <2>1, <2>2
        <3> QED
            BY <1>1, <1>2, <1>3, <2>1, <2>3, <3>1 DEF TypeOK
    <2>5. (\A i \in DOMAIN todo : todo[i] \in Handled(pass))'
        BY <1>2, <2>1, <2>3 DEF Handled, IsHardLink
    <2>6. (pass = 0 <=> pc = "idle")'
        BY <1>2, <2>1, <2>2
    <2>7. pc' = "next"
        BY <1>2, <2>1
    <2>8. WalkInv'
        BY <2>5, <2>6, <2>7 DEF WalkInv
    <2>9. PlanInv'
        <3>1. (\A p \in Handled(1) : plan[p] = "UpdatePermissions" => Exists(p))'
            BY <1>1, <1>2, <2>1 DEF PlanInv, Handled, IsHardLink, Exists
        <3> QED
            BY <2>7, <3>1 DEF PlanInv
    <2>10. KeptInv'
        <3>1. \A p : (Own(p)' <=> Own(p)) /\ (Exists(p)' <=> Exists(p)) /\ Names(dest, p)' = Names(dest, p)
            BY <1>2 DEF Own, NewerOfUser, Names, Exists
        <3>2. pass' \in 1..3 => pass \in 1..3
            BY <2>1, <2>2
        <3> QED
            BY <1>1, <1>2, <2>1, <2>7, <3>1, <3>2 DEF KeptInv
    <2> QED
        BY <1>3, <2>4, <2>8, <2>9, <2>10 DEF IInv
<1> QED
    BY <1>6, <1>7

LEMMA InvInit == Init => IInv
<1> SUFFICES ASSUME Init PROVE IInv
    OBVIOUS
<1>1. IsBackup(point) /\ IsTree(dest) /\ Fits(point, dest)
    BY InputsAssumption DEF Init
<1>2. /\ before = dest /\ todo = <<>> /\ pass = 0 /\ pc = "idle" /\ force = FALSE /\ failed = FALSE
      /\ said = None
    BY DEF Init
<1>3. 0 \in 0..Len(Passes) /\ 0 \notin 1..3 /\ 0 # 4 /\ 0 # 5
    BY PassesAre
<1>4. <<>> \in Seq(DOMAIN point)
    BY EmptySeq
<1>5. TypeOK
    BY <1>1, <1>2, <1>3, <1>4 DEF TypeOK
<1>6. WalkInv /\ PlanInv
    BY <1>2, <1>3 DEF WalkInv, PlanInv
<1>7. \A p : Own(p) => Exists(p) /\ dest[p] = before[p]
    BY <1>2 DEF Own, NewerOfUser, Exists
<1>8. KeptInv
    BY <1>2, <1>3, <1>7 DEF KeptInv
<1> QED
    BY <1>1, <1>5, <1>6, <1>8 DEF IInv

LEMMA InvStep == IInv /\ [Next]_vars => IInv' /\ (dest' = dest \/ Opens(dest, dest'))
<1> SUFFICES ASSUME IInv, [Next]_vars PROVE IInv' /\ (dest' = dest \/ Opens(dest, dest'))
    OBVIOUS
<1>1. CASE StartRestore
    BY <1>1, StartStep DEF StartRestore
<1>2. CASE SkipFile \/ SkipFifo \/ SkipLink \/ SkipHardLink \/ SkipDir
    BY <1>2, SkipStep DEF SkipFile, SkipFifo, SkipLink, SkipHardLink, SkipDir, Handling
<1>3. CASE ChmodFile \/ CreateFile \/ FillFile \/ WriteFails \/ Stamp
    BY <1>3, ChmodFileStep, CreateFileStep, FillFileStep, WriteFailsStep, StampStep
<1>4. CASE CreateFifo \/ FifoIsThere \/ DeleteLink \/ CreateLink
    BY <1>4, CreateFifoStep, FifoIsThereStep, DeleteLinkStep, CreateLinkStep
<1>5. CASE CreateHardLink \/ HardLinkFails \/ ChmodDir \/ NextPass \/ Crash
    BY <1>5, CreateHardLinkStep, HardLinkFailsStep, ChmodDirStep, NextPassStep, CrashStep
<1>6. CASE UNCHANGED vars
    <2>1. UNCHANGED <<point, dest, plan, pass, todo, force, said, before, failed, pc>>
        BY <1>6 DEF vars
    <2> QED
        BY <2>1 DEF IInv, TypeOK, Fits, WalkInv, PlanInv, KeptInv, Own, NewerOfUser, Names, Exists,
                    Handled, IsHardLink, p_, IsDir
<1> QED
    BY <1>1, <1>2, <1>3, <1>4, <1>5, <1>6 DEF Next, Step

\* The variables keep their types: what is in the directory is a tree at every
\* step of a restore (origintool.cc, restore.cc).
THEOREM TypeCorrect == Spec => []TypeOK
<1>1. IInv => TypeOK
    BY DEF IInv
<1> QED
    BY <1>1, InvInit, InvStep, PTL DEF Spec

LEMMA InvHoldsAlways == Spec => []IInv
BY InvInit, InvStep, PTL DEF Spec

\* Unless it is forced, a restore never writes over a file that is newer than the
\* backup of it and has no other name, wherever it is killed (origintool.cc,
\* checkStat): what the first walk has found out about it holds to the last.
THEOREM NewerStays == Spec => []NewerIsKept
<1>1. IInv => NewerIsKept
    BY DEF IInv, KeptInv, NewerIsKept, Own
<1> QED
    BY <1>1, InvHoldsAlways, PTL

\* Names come and go only in directories that can be written to at that moment
\* (filesystem.cc, mkDirpWriteable; origintool.cc, chmodDirectory).
THEOREM WritesWhereAllowed == Spec => NamesChangeWhereWritable
<1> DEFINE A == \A p \in (DOMAIN dest \cup DOMAIN dest') \ (DOMAIN dest \cap DOMAIN dest') :
                    dest'[Parent(p)].perm = "rw"
<1>1. IInv /\ [Next]_vars => [A]_dest
    BY InvStep DEF Opens
<1> QED
    BY <1>1, InvHoldsAlways, PTL DEF Spec, NamesChangeWhereWritable

-----------------------------------------------------------------------------
(* What a diff that finds nothing says of the files.                       *)

LEMMA EmptyDiffIs ==
    ASSUME NEW old, NEW curr, Empty(Diff(old, curr))
    PROVE  /\ \A p \in Both(old, curr) :
                /\ Followed(old, p, old).size = Followed(curr, p, old).size
                /\ Followed(old, p, old).mtime = Followed(curr, p, old).mtime
                /\ Followed(old, p, old).perm = Followed(curr, p, old).perm
           /\ \A p \in DOMAIN curr : curr[p].kind = "file" => InOld(old, curr, p)
           /\ \A p \in DOMAIN old : old[p].kind = "file" => p \in DOMAIN curr
<1> DEFINE d == Diff(old, curr)
<1>1. d.changed = {} /\ d.permission = {} /\ d.added = {} /\ d.removed = {}
    BY DEF Empty, Diff
<1>2. {p \in Both(old, curr) : ~SameContents(Followed(old, p, old), Followed(curr, p, old))} = {}
      /\ {p \in Both(old, curr) : Followed(old, p, old).perm # Followed(curr, p, old).perm} = {}
      /\ Only(curr, {p \in DOMAIN curr : InOld(old, curr, p)}) = {}
      /\ Only(old, DOMAIN curr) = {}
    BY <1>1 DEF Diff
<1> QED
    BY <1>2 DEF Only, SameContents

\* What a diff sees of the directory.
LEMMA DestTreeIs ==
    ASSUME IInv, NEW p \in DOMAIN point, point[p].kind = "file"
    PROVE  /\ p \in DOMAIN DestTree <=> p \in DOMAIN dest
           /\ DOMAIN DestTree \subseteq Universe
           /\ p \in DOMAIN dest =>
                /\ DestTree[p].kind = "file" /\ DestTree[p].perm = dest[p].perm
                /\ DestTree[p].size = Size(dest[p]) /\ DestTree[p].mtime = dest[p].mtime
                /\ DestTree[p].hard = None
<1>1. p # Root
    BY EntryIs DEF IInv, TypeOK
<1>2. DOMAIN dest \subseteq Universe
    BY TreeIs DEF IInv, TypeOK
<1>3. p \in DOMAIN dest => dest[p].kind = "file"
    BY DEF IInv, Fits
<1> QED
    BY <1>1, <1>2, <1>3 DEF DestTree

LEMMA NoHardLinks ==
    ASSUME IInv, NEW p
    PROVE  At(DestTree, p).hard = None /\ None \notin DOMAIN DestTree /\ None \notin DOMAIN point
<1>1. None \notin DOMAIN DestTree /\ None \notin DOMAIN point
    BY NoneAssumption, TreeIs DEF IInv, TypeOK, DestTree, IsBackup
<1>2. At(DestTree, p).hard = None
    BY DEF At, DestTree, Blank
<1> QED
    BY <1>1, <1>2

\* A file of the backup, and that of a hard link.
LEMMA FileIs ==
    ASSUME IInv, NEW p \in DOMAIN point, point[p].kind = "file"
    PROVE  /\ ~IsHardLink(p) => point[p].hard = None /\ point[p].size = SizeOf[point[p].data]
           /\ IsHardLink(p) => LET f == point[p].hard
                               IN  /\ f \in DOMAIN point /\ point[f].kind = "file" /\ ~IsHardLink(f)
                                   /\ point[f].mtime = point[p].mtime /\ point[f].perm = point[p].perm
<1>1. point[p] \in Kept
    BY DEF IInv, TypeOK, IsBackup
<1> QED
    BY <1>1 DEF IInv, TypeOK, IsBackup, IsHardLink, Kept

LEMMA EmptyDiffFromBackup ==
    ASSUME IInv, Empty(Diff(point, DestTree)), NEW p \in DOMAIN point, point[p].kind = "file"
    PROVE  checkStat(p) = "NoUpdateIdentical"
<1>1. p \in DOMAIN DestTree /\ p \in DOMAIN dest
    BY EmptyDiffIs, DestTreeIs
<1>2. Followed(DestTree, p, point) = DestTree[p]
    BY <1>1, NoHardLinks DEF Followed, At
<1>3. p \in Both(point, DestTree)
    BY <1>1, <1>2, DestTreeIs DEF Both, InOld
<1>4. /\ Followed(point, p, point).size = Size(dest[p])
      /\ Followed(point, p, point).mtime = dest[p].mtime
      /\ Followed(point, p, point).perm = dest[p].perm
    BY <1>1, <1>2, <1>3, EmptyDiffIs, DestTreeIs
<1>5. CASE ~IsHardLink(p)
    <2>1. Followed(point, p, point) = point[p]
        BY <1>5, FileIs, NoHardLinks DEF Followed, At
    <2> QED
        BY <1>1, <1>4, <2>1 DEF checkStat, Exists, SameSize, SameMTime, SamePermissions
<1>6. CASE IsHardLink(p)
    <2>1. point[p].hard \in DOMAIN point
        BY <1>6, FileIs
    <2>2. Followed(point, p, point) = point[point[p].hard]
        BY <2>1 DEF Followed, At
    <2>3. point[p].mtime = dest[p].mtime /\ point[p].perm = dest[p].perm
        BY <1>4, <1>6, <2>2, FileIs
    <2> QED
        BY <1>1, <1>6, <2>3 DEF checkStat, Exists, SameMTime, SamePermissions
<1> QED
    BY <1>5, <1>6

LEMMA EmptyDiffOfFile ==
    ASSUME IInv, Empty(Diff(DestTree, point)), NEW p \in DOMAIN point, point[p].kind = "file",
           ~IsHardLink(p)
    PROVE  /\ p \in DOMAIN dest
           /\ point[p].mtime = dest[p].mtime /\ point[p].perm = dest[p].perm
           /\ point[p].size = Size(dest[p])
<1>1. Followed(point, p, DestTree) = point[p]
    BY FileIs, NoHardLinks DEF Followed, At
<1>2. p \in Both(DestTree, point)
    BY <1>1, EmptyDiffIs DEF Both
<1>3. Followed(DestTree, p, DestTree) = At(DestTree, p)
    BY NoHardLinks DEF Followed
<1>4. /\ point[p].size = At(DestTree, p).size /\ point[p].mtime = At(DestTree, p).mtime
      /\ point[p].perm = At(DestTree, p).perm
    BY <1>1, <1>2, <1>3, EmptyDiffIs
<1>5. p \in DOMAIN DestTree
    <2>1. point[p].perm # None
        BY EntryIs, NoneAssumption DEF IInv, TypeOK
    <2> QED
        BY <1>4, <2>1 DEF At, Blank
<1> QED
    BY <1>4, <1>5, DestTreeIs DEF At

LEMMA EmptyDiffToBackup ==
    ASSUME IInv, Empty(Diff(DestTree, point)), NEW p \in DOMAIN point, point[p].kind = "file"
    PROVE  checkStat(p) = "NoUpdateIdentical"
<1>1. CASE ~IsHardLink(p)
    BY <1>1, EmptyDiffOfFile DEF checkStat, Exists, SameSize, SameMTime, SamePermissions
<1>2. CASE IsHardLink(p)
    <2> DEFINE f == point[p].hard
    <2>1. /\ f \in DOMAIN point /\ point[f].kind = "file" /\ ~IsHardLink(f)
          /\ point[f].mtime = point[p].mtime /\ point[f].perm = point[p].perm
        BY <1>2, FileIs
    <2>2. /\ f \in DOMAIN dest
          /\ point[f].mtime = dest[f].mtime /\ point[f].perm = dest[f].perm
        BY <2>1, EmptyDiffOfFile
    <2>3. f \in DOMAIN DestTree /\ DestTree[f].kind = "file"
          /\ DestTree[f].mtime = dest[f].mtime /\ DestTree[f].perm = dest[f].perm
        BY <2>1, <2>2, DestTreeIs
    <2>4. Followed(point, p, DestTree) = DestTree[f]
        BY <2>1, <2>3 DEF Followed, At
    <2>5. p \in Both(DestTree, point)
        BY <2>3, <2>4, EmptyDiffIs DEF Both
    <2>6. Followed(DestTree, p, DestTree) = At(DestTree, p)
        BY NoHardLinks DEF Followed
    <2>7. /\ DestTree[f].mtime = At(DestTree, p).mtime
          /\ DestTree[f].perm = At(DestTree, p).perm
        BY <2>4, <2>5, <2>6, EmptyDiffIs
    <2>8. p \in DOMAIN DestTree
        <3>1. point[p].perm # None
            BY EntryIs, NoneAssumption DEF IInv, TypeOK
        <3> QED
            BY <2>1, <2>2, <2>3, <2>7, <3>1 DEF At, Blank
    <2>9. p \in DOMAIN dest /\ dest[p].mtime = point[p].mtime /\ dest[p].perm = point[p].perm
        BY <2>1, <2>2, <2>3, <2>7, <2>8, DestTreeIs DEF At
    <2> QED
        BY <1>2, <2>9 DEF checkStat, Exists, SameMTime, SamePermissions
<1> QED
    BY <1>1, <1>2

\* An empty diff of the backup and the directory, either way round, leaves a
\* restore no file to write: diff.cc and checkStat, which compare on their own,
\* agree about every file, hard links and their files included.
THEOREM EmptyDiffLeavesNothing == Spec => []EmptyDiffMeansSame
<1>1. IInv => EmptyDiffMeansSame
    BY EmptyDiffFromBackup, EmptyDiffToBackup DEF EmptyDiffMeansSame
<1> QED
    BY <1>1, InvHoldsAlways, PTL

-----------------------------------------------------------------------------
(* What a restore that comes to its end has done.                          *)

\* What the walk that runs has not come to yet, or is a later one's; and what is
\* as the earlier walks left it.
Left(p) ==
    (\E i \in DOMAIN todo : p = todo[i]) \/ \E n \in 1..5 : n > pass /\ p \in Handled(n)
Waits(p) == Left(p) /\ ~(pc # "next" /\ p = p_)

\* The entries of a walk come once each, and a directory after those below it.
OrderInv ==
    pc # "idle" =>
        /\ \A i, j \in DOMAIN todo : todo[i] = todo[j] => i = j
        /\ pass = 5 => \A q \in Handled(5), j \in DOMAIN todo :
                           q \in Above(todo[j]) => \E i \in DOMAIN todo : i > j /\ q = todo[i]

\* What the plan says of a file was so when the command began.
FoundInv ==
    pc # "idle" => \A p \in Handled(1) :
        /\ plan[p] \in {"Store", "NoUpdateIdentical", "UpdatePermissions", "OtherIsNewer"}
        /\ plan[p] \in {"NoUpdateIdentical", "UpdatePermissions"} =>
              p \in DOMAIN before /\ before[p].mtime = point[p].mtime /\ Size(before[p]) = point[p].size
        /\ plan[p] = "NoUpdateIdentical" => before[p].perm = point[p].perm
        /\ plan[p] = "OtherIsNewer" => p \in DOMAIN before /\ before[p].mtime > point[p].mtime

\* An entry is as the command is to leave it.
Fine(p) ==
    /\ Exists(p)
    /\ \/ ~IsHardLink(p) /\ NewerOfUser(p) /\ ~force /\ dest[p].mtime > point[p].mtime
       \/ /\ dest[p].mtime = point[p].mtime
          /\ point[p].kind \in {"file", "link"} => Contents(p)
          /\ SamePermissions(p) \/ (point[p].kind = "file" /\ ~IsHardLink(p) /\ p \in DOMAIN before)

\* No two names are one file that are not one in the backup.
NamesInv ==
    \A p, q \in DOMAIN point : p \in DOMAIN dest /\ q \in Names(dest, p) => FileOf(p) = FileOf(q)

FineInv == \A p \in DOMAIN point : ~Left(p) => Fine(p)

\* A file that waits is as it was.
FilesWait ==
    \A p \in Handled(1) : Waits(p) =>
        (p \in DOMAIN dest <=> p \in DOMAIN before) /\ (p \in DOMAIN dest => dest[p] = before[p])

\* A hard link that waits is as it was, or is its file, which has been written to.
LinksWait ==
    \A p \in Handled(4) : Waits(p) /\ p \in DOMAIN dest =>
        \/ p \in DOMAIN before /\ dest[p] = before[p]
        \/ FileOf(p) \in DOMAIN dest /\ p \in Names(dest, FileOf(p)) /\ ~Waits(FileOf(p))

\* What has been done so far for the entry in hand.
BegunInv ==
    /\ pass = 1 /\ pc \in {"write", "stamp"} /\ p_ \notin DOMAIN before => SamePermissions(p_)
    /\ pass \in {1, 3} /\ pc = "stamp" => dest[p_].data = point[p_].data
    /\ pass \in {2, 3, 5} /\ pc = "stamp" => SamePermissions(p_)
    /\ pass = 4 /\ pc = "stamp" => Fine(p_)

WayInv == NamesInv /\ FineInv /\ FilesWait /\ LinksWait /\ BegunInv

RestInv ==
    /\ OrderInv /\ FoundInv
    /\ said = "restored" => pc = "idle"
    /\ LinkedAsInBackup /\ ~failed /\ pc # "idle" => WayInv
    /\ LinkedAsInBackup /\ ~failed /\ said = "restored" => \A p \in DOMAIN point : Fine(p)

\* Which walk handles what.
LEMMA HandledIs ==
    ASSUME IsBackup(point), NEW p \in DOMAIN point
    PROVE  /\ p \in Handled(1) <=> ~IsHardLink(p) /\ point[p].kind = "file"
           /\ p \in Handled(2) <=> ~IsHardLink(p) /\ point[p].kind = "fifo"
           /\ p \in Handled(3) <=> ~IsHardLink(p) /\ point[p].kind = "link"
           /\ p \in Handled(4) <=> IsHardLink(p)
           /\ p \in Handled(5) <=> point[p].kind = "dir"
           /\ \E n \in 1..5 : p \in Handled(n)
<1>1. point[p].kind \in {"file", "fifo", "link", "dir"} /\ (IsHardLink(p) => point[p].kind = "file")
    BY EntryIs DEF Kinds
<1>2. /\ p \in Handled(1) <=> ~IsHardLink(p) /\ point[p].kind = "file"
      /\ p \in Handled(2) <=> ~IsHardLink(p) /\ point[p].kind = "fifo"
      /\ p \in Handled(3) <=> ~IsHardLink(p) /\ point[p].kind = "link"
      /\ p \in Handled(4) <=> IsHardLink(p)
      /\ p \in Handled(5) <=> ~IsHardLink(p) /\ point[p].kind = "dir"
    BY PassesAre DEF Handled
<1> QED
    BY <1>1, <1>2

LEMMA OneWalk ==
    ASSUME IsBackup(point), NEW p \in DOMAIN point, NEW n \in 1..5, NEW m \in 1..5,
           p \in Handled(n), p \in Handled(m)
    PROVE  n = m
<1>1. point[p].kind \in {"file", "fifo", "link", "dir"} /\ (IsHardLink(p) => point[p].kind = "file")
    BY EntryIs DEF Kinds
<1> QED
    BY <1>1, HandledIs

LEMMA FileOfIs ==
    ASSUME IsBackup(point), NEW p \in DOMAIN point
    PROVE  /\ ~IsHardLink(p) => FileOf(p) = p
           /\ IsHardLink(p) => /\ FileOf(p) = point[p].hard /\ FileOf(p) \in DOMAIN point
                               /\ point[FileOf(p)].kind = "file" /\ ~IsHardLink(FileOf(p))
                               /\ point[FileOf(p)].mtime = point[p].mtime
                               /\ point[FileOf(p)].perm = point[p].perm
           /\ FileOf(p) \in DOMAIN point
           /\ ~IsHardLink(p) => point[p].size = SizeOf[point[p].data]
<1>1. point[p] \in Kept
    BY DEF IsBackup
<1> QED
    BY <1>1, EntryIs DEF IsBackup, FileOf, IsHardLink, Kept

\* The entry in hand is left, and waits if nothing has been done for it.
LEMMA InHandIs ==
    ASSUME IInv, pc # "idle", todo # <<>>, NEW p, p = p_
    PROVE  /\ p \in DOMAIN point /\ p \in Handled(pass) /\ pass \in 1..5
           /\ Left(p) /\ (pc = "next" => Waits(p)) /\ (pc # "next" => ~Waits(p))
<1>1. todo \in Seq(DOMAIN point)
    BY DEF IInv, TypeOK
<1>2. 1 \in DOMAIN todo /\ p = todo[1]
    BY <1>1 DEF p_
<1>3. Left(p)
    BY <1>2 DEF Left
<1>4. p \in DOMAIN point /\ p \in Handled(pass) /\ pass \in 1..5
    BY EntryInHand DEF IInv
<1> QED
    BY <1>3, <1>4 DEF Waits

\* An entry is left if its walk is to come, and is not if its walk is over.
LEMMA LeftIs ==
    ASSUME IInv, pc # "idle", NEW p \in DOMAIN point, NEW n \in 1..5, p \in Handled(n)
    PROVE  (n > pass => Left(p)) /\ (Left(p) => n >= pass) /\ pass \in 1..5
<1>1. \A m \in 1..5 : p \in Handled(m) => m = n
    BY OneWalk DEF IInv, TypeOK
<1>2. pass \in 1..5
    BY PassesAre DEF IInv, TypeOK, WalkInv
<1>3. \A i \in DOMAIN todo : todo[i] \in Handled(pass)
    BY DEF IInv, WalkInv
<1>4. n > pass => Left(p)
    BY DEF Left
<1>5. ASSUME Left(p) PROVE n >= pass
    <2>1. CASE \E i \in DOMAIN todo : p = todo[i]
        BY <1>1, <1>2, <1>3, <2>1
    <2>2. CASE \E m \in 1..5 : m > pass /\ p \in Handled(m)
        BY <1>1, <1>2, <2>2
    <2> QED
        BY <1>5, <2>1, <2>2 DEF Left
<1> QED
    BY <1>2, <1>4, <1>5

\* A step from one entry to the next.
LEMMA TailIs ==
    ASSUME IInv, OrderInv, pc # "idle", todo # <<>>, NEW p, p = p_,
           todo' = Tail(todo), UNCHANGED <<point, pass>>
    PROVE  /\ \A q : Left(q)' <=> Left(q) /\ q # p
           /\ (\A i, j \in DOMAIN todo : todo[i] = todo[j] => i = j)'
           /\ (pass = 5 => \A q \in Handled(5), j \in DOMAIN todo :
                              q \in Above(todo[j]) => \E i \in DOMAIN todo : i > j /\ q = todo[i])'
<1>1. todo \in Seq(DOMAIN point)
    BY DEF IInv, TypeOK
<1>2. /\ Len(todo) \in Nat \ {0} /\ DOMAIN todo = 1..Len(todo) /\ p = todo[1]
      /\ DOMAIN todo' = 1..(Len(todo) - 1)
      /\ \A i \in 1..(Len(todo) - 1) : todo'[i] = todo[i + 1]
    <2>1. /\ Tail(todo) \in Seq(DOMAIN point) /\ Len(Tail(todo)) = Len(todo) - 1
          /\ \A n \in 1..Len(Tail(todo)) : Tail(todo)[n] = todo[n + 1]
        BY <1>1, HeadTailProperties
    <2>2. Len(todo) \in Nat \ {0} /\ DOMAIN todo = 1..Len(todo) /\ p = todo[1]
        BY <1>1 DEF p_
    <2>3. DOMAIN Tail(todo) = 1..Len(Tail(todo))
        BY <2>1
    <2> QED
        BY <2>1, <2>2, <2>3
<1>3. \A i, j \in DOMAIN todo : todo[i] = todo[j] => i = j
    BY DEF OrderInv
<1>4. \A n : Handled(n)' = Handled(n)
    BY DEF Handled, IsHardLink
<1>5. p \in Handled(pass) /\ p \in DOMAIN point /\ pass \in 1..5
    BY InHandIs
<1>6. ASSUME NEW q
      PROVE  (\E i \in DOMAIN todo' : q = todo'[i]) <=> (\E i \in DOMAIN todo : q = todo[i]) /\ q # p
    <2>1. ASSUME NEW i \in DOMAIN todo', q = todo'[i]
          PROVE  (\E j \in DOMAIN todo : q = todo[j]) /\ q # p
        <3>1. i + 1 \in DOMAIN todo /\ q = todo[i + 1] /\ i + 1 # 1 /\ 1 \in DOMAIN todo
            BY <1>2, <2>1
        <3> QED
            BY <1>2, <1>3, <3>1
    <2>2. ASSUME NEW i \in DOMAIN todo, q = todo[i], q # p
          PROVE  \E j \in DOMAIN todo' : q = todo'[j]
        <3>1. i - 1 \in DOMAIN todo' /\ todo'[i - 1] = todo[i - 1 + 1] /\ i - 1 + 1 = i
            BY <1>2, <2>2
        <3> QED
            BY <2>2, <3>1
    <2> QED
        BY <2>1, <2>2
<1>7. ASSUME NEW n \in 1..5, n > pass
      PROVE  p \notin Handled(n)
    BY <1>5, <1>7, OneWalk DEF IInv, TypeOK
<1>8. \A q : Left(q)' <=> Left(q) /\ q # p
    BY <1>4, <1>6, <1>7 DEF Left
<1>9. ASSUME NEW i \in DOMAIN todo', NEW j \in DOMAIN todo', todo'[i] = todo'[j]
      PROVE  i = j
    <2>1. i + 1 \in DOMAIN todo /\ j + 1 \in DOMAIN todo /\ todo[i + 1] = todo[j + 1]
        BY <1>2, <1>9
    <2>2. i + 1 = j + 1
        BY <1>3, <2>1
    <2> QED
        BY <1>2, <2>2
<1>10. ASSUME pass = 5, NEW q \in Handled(5), NEW j \in DOMAIN todo', q \in Above(todo'[j])
       PROVE  \E i \in DOMAIN todo' : i > j /\ q = todo'[i]
    <2>1. j \in 1..(Len(todo) - 1) /\ j + 1 \in DOMAIN todo /\ todo'[j] = todo[j + 1]
        BY <1>2
    <2>2. PICK i \in DOMAIN todo : i > j + 1 /\ q = todo[i]
        BY <1>10, <2>1 DEF OrderInv
    <2>3. i - 1 \in DOMAIN todo' /\ todo'[i - 1] = todo[i - 1 + 1] /\ i - 1 + 1 = i /\ i - 1 > j
        BY <1>2, <2>1, <2>2
    <2> QED
        BY <2>2, <2>3
<1> QED
    BY <1>4, <1>8, <1>9, <1>10

\* What is not touched by the work on p, which is in hand.
LEMMA NotAbove ==
    ASSUME IInv, OrderInv, pc # "idle", todo # <<>>, NEW p, p = p_,
           NEW q \in DOMAIN point, q # p, point[q].kind # "dir" \/ ~Left(q)
    PROVE  q \in Universe \ (Above(p) \cup {p})
<1>1. IsBackup(point) /\ p \in DOMAIN point
    BY InHandIs DEF IInv, TypeOK
<1>2. q \in Universe \ {Root}
    BY <1>1, EntryIs
<1>3. CASE point[q].kind # "dir"
    <2>1. \A a \in Above(p) : a = Root \/ point[a].kind = "dir"
        BY <1>1, EntryIs
    <2> QED
        BY <1>2, <1>3, <2>1
<1>4. CASE point[q].kind = "dir" /\ ~Left(q)
    <2>1. q \in Handled(5)
        BY <1>1, <1>4, HandledIs
    <2>2. pass = 5
        BY <1>4, <2>1, LeftIs
    <2>3. todo \in Seq(DOMAIN point)
        BY DEF IInv, TypeOK
    <2>4. 1 \in DOMAIN todo /\ p = todo[1]
        BY <2>3 DEF p_
    <2>5. q \in Above(p) => Left(q)
        BY <2>1, <2>2, <2>4 DEF OrderInv, Left
    <2> QED
        BY <1>2, <1>4, <2>5
<1> QED
    BY <1>3, <1>4

LEMMA StaysFine ==
    ASSUME UNCHANGED <<point, before, force>>, NEW q, q \in DOMAIN dest', dest'[q] = dest[q], Fine(q)
    PROVE  Fine(q)'
BY DEF Fine, Exists, NewerOfUser, Contents, FileOf, IsHardLink, SamePermissions, Size

\* Names of one file are names of one file in the backup, whatever is done for p.
LEMMA NamesStay ==
    ASSUME IInv, NamesInv, NEW p \in DOMAIN point, Leaves(dest, dest', p), Joins(dest, dest', p),
           IsTree(dest'), point' = point
    PROVE  NamesInv'
<1>1. IsBackup(point) /\ DOMAIN point \subseteq Universe
    BY DEF IInv, TypeOK, IsBackup
<1> SUFFICES ASSUME NEW a \in DOMAIN point, NEW b \in DOMAIN point, a \in DOMAIN dest',
                    b \in Names(dest', a)
             PROVE  FileOf(a) = FileOf(b)
    BY DEF NamesInv, FileOf, IsHardLink
<1>2. \A x \in DOMAIN point : x \in DOMAIN dest' /\ dest'[x].ino # None /\ x # p
          => x \in DOMAIN dest /\ dest'[x].ino = dest[x].ino
    <2> SUFFICES ASSUME NEW x \in DOMAIN point, x \in DOMAIN dest', dest'[x].ino # None, x # p
                 PROVE  x \in DOMAIN dest /\ dest'[x].ino = dest[x].ino
        OBVIOUS
    <2>1. x \notin Above(p)
        BY TreeIs DEF Leaves, IsDir
    <2> QED
        BY <1>1, <2>1 DEF Leaves
<1>3. b \in DOMAIN dest' /\ (b = a \/ (dest'[a].ino # None /\ dest'[b].ino = dest'[a].ino))
    BY DEF Names
<1>4. CASE b = a
    BY <1>4
<1>5. CASE b # a /\ a = p
    <2>1. p \in DOMAIN dest /\ b \in Names(dest, p)
        BY <1>5 DEF Joins
    <2> QED
        BY <1>5, <2>1 DEF NamesInv
<1>6. CASE b # a /\ b = p
    <2>1. a \in Names(dest', p)
        BY <1>3, <1>6 DEF Names
    <2>2. p \in DOMAIN dest /\ a \in Names(dest, p)
        BY <1>3, <1>6, <2>1 DEF Joins
    <2> QED
        BY <1>6, <2>2 DEF NamesInv
<1>7. CASE b # a /\ a # p /\ b # p
    <2>1. a \in DOMAIN dest /\ b \in Names(dest, a)
        BY <1>2, <1>3, <1>7 DEF Names
    <2> QED
        BY <2>1 DEF NamesInv
<1> QED
    BY <1>4, <1>5, <1>6, <1>7

\* The work on p leaves the others as they are.
LEMMA WayStays ==
    ASSUME IInv, OrderInv, WayInv, pc # "idle", todo # <<>>, NEW p, p = p_,
           UNCHANGED <<point, before, force, pass>>,
           Leaves(dest, dest', p), NamesInv', BegunInv',
           pass = 4 => \A q \in DOMAIN point : point[q].kind # "dir" /\ q \in DOMAIN dest
                            => dest'[q] = dest[q],
           pass = 1 /\ pc # "next" => p \in DOMAIN dest' /\ dest'[p].ino = dest[p].ino,
           \A q : Waits(q)' => Waits(q) /\ q # p,
           \A q : ~Left(q)' /\ q # p => ~Left(q),
           ~Left(p)' => Fine(p)'
    PROVE  WayInv'
<1>1. /\ IsBackup(point) /\ p \in DOMAIN point /\ p \in Handled(pass) /\ pass \in 1..5
      /\ pc = "next" => Waits(p)
    BY InHandIs DEF IInv, TypeOK
<1>2. IsTree(dest) /\ NamesInv /\ FineInv /\ FilesWait /\ LinksWait
    BY DEF IInv, TypeOK, WayInv
<1>3. /\ pass = 1 => ~IsHardLink(p) /\ point[p].kind = "file"
      /\ pass \in {2, 3, 5} => ~IsHardLink(p) /\ point[p].kind # "file"
      /\ pass = 4 => IsHardLink(p)
    <2>1. /\ p \in Handled(1) => ~IsHardLink(p) /\ point[p].kind = "file"
          /\ p \in Handled(2) => ~IsHardLink(p) /\ point[p].kind = "fifo"
          /\ p \in Handled(3) => ~IsHardLink(p) /\ point[p].kind = "link"
          /\ p \in Handled(4) => IsHardLink(p)
          /\ p \in Handled(5) => point[p].kind = "dir"
        BY <1>1, HandledIs
    <2>2. IsHardLink(p) => point[p].kind = "file"
        BY <1>1, EntryIs
    <2>3. CASE pass = 1
        BY <1>1, <2>1, <2>3
    <2>4. CASE pass = 4
        BY <1>1, <2>1, <2>4
    <2>5. CASE pass = 2 \/ pass = 3
        BY <1>1, <2>1, <2>5
    <2>6. CASE pass = 5
        BY <1>1, <2>1, <2>2, <2>6
    <2> QED
        BY <1>1, <2>3, <2>4, <2>5, <2>6
<1>4. ASSUME NEW q \in DOMAIN point, q # p, point[q].kind # "dir" \/ ~Left(q)
      PROVE  /\ q \in DOMAIN dest' <=> q \in DOMAIN dest
             /\ q \in DOMAIN dest => /\ dest'[q].ino = dest[q].ino
                                    /\ (dest'[q] = dest[q] \/ (p \in Names(dest, q) /\ p \in Names(dest', q)))
    <2>1. q \in Universe \ (Above(p) \cup {p})
        BY <1>4, NotAbove
    <2> QED
        BY <2>1 DEF Leaves
<1>5. ASSUME NEW q \in DOMAIN point, q \in DOMAIN dest, p \in Names(dest, q)
      PROVE  FileOf(q) = FileOf(p)
    BY <1>1, <1>2, <1>5 DEF NamesInv
<1>6. ASSUME NEW q \in DOMAIN point, q \in DOMAIN dest, p \in Names(dest, q), q # p,
             pass # 4
      PROVE  pass = 1 /\ IsHardLink(q) /\ FileOf(q) = p
    <2>1. ~IsHardLink(p) /\ FileOf(p) = p
        BY <1>1, <1>3, <1>6, FileOfIs
    <2>2. FileOf(q) = p
        BY <1>5, <1>6, <2>1
    <2>3. IsHardLink(q)
        BY <1>1, <1>6, <2>2, FileOfIs
    <2>4. point[p].kind = "file"
        BY <1>1, <2>2, <2>3, FileOfIs
    <2> QED
        BY <1>1, <1>3, <1>6, <2>2, <2>3, <2>4
<1>7. ASSUME NEW q \in DOMAIN point, ~Left(q)'
      PROVE  Fine(q)'
    <2>1. CASE q = p
        BY <1>7, <2>1
    <2>2. CASE q # p
        <3>1. ~Left(q) /\ Fine(q) /\ q \in DOMAIN dest
            BY <1>2, <1>7, <2>2 DEF FineInv, Fine, Exists
        <3>2. q \in DOMAIN dest'
            BY <1>4, <2>2, <3>1
        <3>3. dest'[q] = dest[q]
            <4>1. CASE pass = 4
                <5>1. point[q].kind # "dir"
                    BY <1>1, <3>1, <4>1, HandledIs, LeftIs
                <5> QED
                    BY <3>1, <4>1, <5>1
            <4>2. CASE pass # 4
                <5>1. ASSUME p \in Names(dest, q) PROVE FALSE
                    <6>1. pass = 1 /\ q \in Handled(4)
                        BY <1>1, <1>6, <2>2, <3>1, <4>2, <5>1, HandledIs
                    <6> QED
                        BY <3>1, <6>1, LeftIs
                <5> QED
                    BY <1>4, <2>2, <3>1, <5>1
            <4> QED
                BY <4>1, <4>2
        <3> QED
            BY <3>1, <3>2, <3>3, StaysFine
    <2> QED
        BY <2>1, <2>2
<1>8. FineInv'
    BY <1>7 DEF FineInv
<1>9. \A n : Handled(n)' = Handled(n)
    BY DEF Handled, IsHardLink
<1>10. ASSUME NEW q \in Handled(1), Waits(q)'
       PROVE  (q \in DOMAIN dest' <=> q \in DOMAIN before) /\ (q \in DOMAIN dest' => dest'[q] = before[q])
    <2>1. Waits(q) /\ q # p /\ Left(q)
        BY <1>10 DEF Waits
    <2>2. q \in DOMAIN point
        BY DEF Handled
    <2>3. ~IsHardLink(q) /\ point[q].kind = "file" /\ FileOf(q) = q
        BY <1>1, <2>2, HandledIs, FileOfIs
    <2>4. pass = 1
        BY <2>1, <2>2, LeftIs
    <2>5. (q \in DOMAIN dest <=> q \in DOMAIN before) /\ (q \in DOMAIN dest => dest[q] = before[q])
        BY <1>2, <2>1 DEF FilesWait
    <2>6. q \in DOMAIN dest => dest'[q] = dest[q]
        BY <1>4, <1>6, <2>1, <2>2, <2>3, <2>4
    <2>7. q \in DOMAIN dest' <=> q \in DOMAIN dest
        BY <1>4, <2>1, <2>2, <2>3
    <2> QED
        BY <2>5, <2>6, <2>7
<1>11. FilesWait'
    BY <1>9, <1>10 DEF FilesWait
<1>12. ASSUME NEW q \in Handled(4), Waits(q)', q \in DOMAIN dest', NEW f, f = FileOf(q)
       PROVE  \/ q \in DOMAIN before /\ dest'[q] = before[q]
              \/ f \in DOMAIN dest' /\ q \in Names(dest', f) /\ ~Waits(f)'
    <2>1. Waits(q) /\ q # p /\ Left(q)
        BY <1>12 DEF Waits
    <2>2. q \in DOMAIN point /\ IsHardLink(q)
        BY <1>1, HandledIs DEF Handled
    <2>10. point[q].kind = "file"
        BY <1>1, <2>2, EntryIs
    <2>3. f \in DOMAIN point /\ point[f].kind = "file" /\ ~IsHardLink(f) /\ f # q
        BY <1>1, <1>12, <2>2, FileOfIs
    <2>11. q \in DOMAIN dest
        BY <1>4, <1>12, <2>1, <2>2, <2>10
    <2>4. /\ dest'[q].ino = dest[q].ino
          /\ (dest'[q] = dest[q] \/ (p \in Names(dest, q) /\ p \in Names(dest', q)))
        BY <1>4, <2>1, <2>2, <2>10, <2>11
    <2>5. \/ q \in DOMAIN before /\ dest[q] = before[q]
          \/ f \in DOMAIN dest /\ q \in Names(dest, f) /\ ~Waits(f)
        BY <1>2, <1>12, <2>1, <2>11 DEF LinksWait
    <2>6. CASE q \in DOMAIN before /\ dest[q] = before[q]
        <3>1. CASE dest'[q] = dest[q]
            BY <2>6, <3>1
        <3>2. CASE dest'[q] # dest[q]
            <4>1. p \in Names(dest, q) /\ p \in Names(dest', q)
                BY <2>4, <3>2
            <4>2. pass # 4
                BY <2>2, <2>10, <2>11, <3>2
            <4>3. f = p
                BY <1>6, <1>12, <2>1, <2>2, <2>11, <4>1, <4>2
            <4>4. p \in DOMAIN dest' /\ q \in Names(dest', p)
                BY <1>12, <4>1 DEF Names
            <4>5. ~Waits(f)'
                BY <4>3
            <4> QED
                BY <4>3, <4>4, <4>5
        <3> QED
            BY <3>1, <3>2
    <2>7. CASE f \in DOMAIN dest /\ q \in Names(dest, f) /\ ~Waits(f)
        <3>1. ~Waits(f)'
            BY <2>7
        <3>2. dest[f].ino # None /\ dest[q].ino = dest[f].ino
            BY <2>3, <2>7 DEF Names
        <3>3. f \in DOMAIN dest' /\ dest'[f].ino = dest[f].ino
            <4>1. CASE f # p
                BY <1>4, <2>3, <2>7, <4>1
            <4>2. CASE f = p
                <5>1. pc # "next"
                    BY <1>1, <2>7, <4>2
                <5>3. pass \in {1, 2, 3, 4, 5}
                    BY <1>1
                <5>2. pass = 1
                    BY <1>3, <2>3, <4>2, <5>3
                <5> QED
                    BY <4>2, <5>1, <5>2
            <4> QED
                BY <4>1, <4>2
        <3>4. q \in Names(dest', f)
            BY <1>12, <2>4, <3>2, <3>3 DEF Names
        <3> QED
            BY <3>1, <3>3, <3>4
    <2> QED
        BY <2>5, <2>6, <2>7
<1>13. LinksWait'
    <2>1. ASSUME NEW q \in Handled(4), Waits(q)', q \in DOMAIN dest'
          PROVE  \/ q \in DOMAIN before /\ dest'[q] = before[q]
                 \/ FileOf(q)' \in DOMAIN dest' /\ q \in Names(dest', FileOf(q)') /\ ~Waits(FileOf(q))'
        <3>1. PICK f : f = FileOf(q)
            OBVIOUS
        <3>2. FileOf(q)' = f
            BY <3>1 DEF FileOf, IsHardLink
        <3> QED
            BY <1>12, <2>1, <3>1, <3>2
    <2> QED
        BY <1>9, <2>1 DEF LinksWait
<1> QED
    BY <1>8, <1>11, <1>13 DEF WayInv

\* What the order of the entries and the plan say stays so within a walk.
LEMMA WalkStays ==
    ASSUME IInv, RestInv, pc # "idle", todo # <<>>, pc' # "idle",
           UNCHANGED <<point, before, plan, pass, said>>,
           todo' = todo \/ todo' = Tail(todo),
           LinkedAsInBackup /\ ~failed' => WayInv'
    PROVE  RestInv'
<1>1. OrderInv'
    <2>1. CASE todo' = todo
        <3>1. \A n : Handled(n)' = Handled(n)
            BY DEF Handled, IsHardLink
        <3> QED
            BY <2>1, <3>1 DEF RestInv, OrderInv
    <2>2. CASE todo' = Tail(todo)
        <3>1. PICK p : p = p_
            OBVIOUS
        <3> QED
            BY <2>2, <3>1, TailIs DEF RestInv, OrderInv
    <2> QED
        BY <2>1, <2>2
<1>2. FoundInv'
    <2>1. Handled(1)' = Handled(1)
        BY DEF Handled, IsHardLink
    <2> QED
        BY <2>1 DEF RestInv, FoundInv, Size
<1>3. said # "restored"
    BY DEF RestInv
<1>4. LinkedAsInBackup' => LinkedAsInBackup
    BY DEF LinkedAsInBackup, FileOf, IsHardLink
<1> QED
    BY <1>1, <1>2, <1>3, <1>4 DEF RestInv

\* Work is begun, or goes on.
LEMMA WayGoesOn ==
    ASSUME IInv, OrderInv, WayInv, pc # "idle", todo # <<>>, NEW p, p = p_,
           IsTree(dest'), Leaves(dest, dest', p), Joins(dest, dest', p) \/ NamesInv',
           pass = 4 => \A q \in DOMAIN point : point[q].kind # "dir" /\ q \in DOMAIN dest
                            => dest'[q] = dest[q],
           pass = 1 /\ pc # "next" => p \in DOMAIN dest' /\ dest'[p].ino = dest[p].ino,
           todo' = todo, pc' \in {"write", "stamp", "link"}, BegunInv',
           UNCHANGED <<point, before, force, pass>>
    PROVE  WayInv'
<1>1. p \in DOMAIN point /\ Left(p)
    BY InHandIs
<1>2. NamesInv'
    BY <1>1, NamesStay DEF WayInv
<1>3. \A n : Handled(n)' = Handled(n)
    BY DEF Handled, IsHardLink
<1>4. \A q : Left(q)' <=> Left(q)
    BY <1>3 DEF Left
<1>5. \A q : Waits(q)' => Waits(q) /\ q # p
    BY <1>4 DEF Waits, p_
<1> QED
    BY <1>1, <1>2, <1>4, <1>5, WayStays

\* The work is done.
LEMMA WayMovesOn ==
    ASSUME IInv, OrderInv, WayInv, pc # "idle", todo # <<>>, NEW p, p = p_,
           IsTree(dest'), Leaves(dest, dest', p), Joins(dest, dest', p),
           pass = 4 => \A q \in DOMAIN point : point[q].kind # "dir" /\ q \in DOMAIN dest
                            => dest'[q] = dest[q],
           pass = 1 /\ pc # "next" => p \in DOMAIN dest' /\ dest'[p].ino = dest[p].ino,
           todo' = Tail(todo), pc' = "next", Fine(p)',
           UNCHANGED <<point, before, force, pass>>
    PROVE  WayInv'
<1>1. p \in DOMAIN point
    BY InHandIs
<1>2. NamesInv'
    BY <1>1, NamesStay DEF WayInv
<1>3. \A q : Left(q)' <=> Left(q) /\ q # p
    BY TailIs
<1>4. \A q : Waits(q)' => Waits(q) /\ q # p
    BY <1>3 DEF Waits
<1>5. BegunInv'
    BY DEF BegunInv
<1> QED
    BY <1>2, <1>3, <1>4, <1>5, WayStays

\* An entry that is left as it is.
LEMMA WaySkips ==
    ASSUME IInv, RestInv, pc = "next", todo # <<>>, Skip, Stays, NEW p, p = p_,
           LinkedAsInBackup /\ ~failed /\ WayInv => Fine(p)
    PROVE  RestInv'
<1>1. /\ UNCHANGED <<dest, pc, point, force, before, plan, pass, said, failed>>
      /\ todo' = Tail(todo)
    BY DEF Skip, Stays, commandVars
<1>2. ASSUME LinkedAsInBackup, ~failed
      PROVE  WayInv'
    <2>1. WayInv /\ OrderInv
        BY <1>2 DEF RestInv
    <2>6. Fine(p) /\ p \in DOMAIN dest
        BY <1>2, <2>1 DEF Fine, Exists
    <2>2. Fine(p)'
        BY <1>1, <2>6, StaysFine
    <2>3. Good(dest) /\ IsTree(dest)
        BY DEF IInv, TypeOK, Good
    <2>4. Leaves(dest, dest, p) /\ Joins(dest, dest, p)
        BY <2>3, <2>6, NothingDone DEF Done
    <2>5. IsTree(dest') /\ Leaves(dest, dest', p) /\ Joins(dest, dest', p)
        BY <1>1, <2>3, <2>4
    <2> QED
        BY <1>1, <2>1, <2>2, <2>5, WayMovesOn
<1> QED
    BY <1>1, <1>2, WalkStays

-----------------------------------------------------------------------------
(* The walks of the regular files, the fifos and the symbolic links.       *)

\* What waits of the regular files is as the plan has it.
LEMMA PlannedIs ==
    ASSUME IInv, FoundInv, FilesWait, pc = "next", pass = 1, todo # <<>>, NEW p, p = p_
    PROVE  /\ p \in DOMAIN point /\ point[p].kind = "file" /\ ~IsHardLink(p)
           /\ p \in DOMAIN dest <=> p \in DOMAIN before
           /\ p \in DOMAIN dest => dest[p] = before[p]
           /\ plan[p] \in {"NoUpdateIdentical", "UpdatePermissions"} =>
                 /\ p \in DOMAIN dest /\ dest[p].mtime = point[p].mtime
                 /\ Size(dest[p]) = SizeOf[point[p].data]
           /\ plan[p] = "NoUpdateIdentical" => SamePermissions(p)
           /\ plan[p] = "OtherIsNewer" => p \in DOMAIN dest /\ dest[p].mtime > point[p].mtime
<1>1. IsBackup(point) /\ p \in Handled(1) /\ Waits(p) /\ p \in DOMAIN point
    BY InHandIs DEF IInv, TypeOK
<1>2. point[p].kind = "file" /\ ~IsHardLink(p) /\ point[p].size = SizeOf[point[p].data]
    BY <1>1, HandledIs, FileOfIs
<1>3. (p \in DOMAIN dest <=> p \in DOMAIN before) /\ (p \in DOMAIN dest => dest[p] = before[p])
    BY <1>1 DEF FilesWait
<1> QED
    BY <1>1, <1>2, <1>3 DEF FoundInv, SamePermissions

\* What a restore has found to have the size and the time is taken to be it.
LEMMA TakenIs ==
    ASSUME NEW p \in DOMAIN point, point[p].kind = "file", ~IsHardLink(p), p \in DOMAIN before,
           before[p].mtime = point[p].mtime, Size(before[p]) = SizeOf[point[p].data]
    PROVE  p \in DOMAIN dest /\ dest[p].data = before[p].data => Contents(p)
BY DEF Contents, FileOf

LEMMA SkipFileRests == IInv /\ RestInv /\ SkipFile => RestInv'
<1> SUFFICES ASSUME IInv, RestInv, SkipFile PROVE RestInv'
    OBVIOUS
<1> PICK p : p = p_
    OBVIOUS
<1>1. pc = "next" /\ pass = 1 /\ todo # <<>> /\ Skip /\ Stays
    BY HandlingIs DEF SkipFile, Handling, IInv
<1>2. \/ plan[p] = "NoUpdateIdentical"
      \/ plan[p] = "OtherIsNewer" /\ ~force
    BY DEF SkipFile
<1>3. ASSUME WayInv PROVE Fine(p)
    <2>1. FoundInv /\ FilesWait
        BY <1>1, <1>3 DEF WayInv, RestInv
    <2>2. CASE plan[p] = "NoUpdateIdentical"
        <3>1. Contents(p)
            BY <1>1, <2>1, <2>2, PlannedIs, TakenIs
        <3> QED
            BY <1>1, <2>1, <2>2, <3>1, PlannedIs DEF Fine, Exists
    <2>3. CASE plan[p] = "OtherIsNewer" /\ ~force
        BY <1>1, <2>1, <2>3, PlannedIs DEF Fine, Exists, NewerOfUser
    <2> QED
        BY <1>2, <2>2, <2>3
<1> QED
    BY <1>1, <1>3, WaySkips

\* Work that is begun or goes on in the walks but that of the hard links.
LEMMA RestGoesOn ==
    ASSUME IInv, RestInv, pc # "idle", todo # <<>>, NEW p, p = p_, Done(dest, dest', p), pass # 4,
           pass = 1 /\ pc # "next" => p \in DOMAIN dest' /\ dest'[p].ino = dest[p].ino,
           todo' = todo, pc' \in {"write", "stamp", "link"},
           UNCHANGED <<point, before, force, failed, said, plan, pass>>,
           WayInv => BegunInv'
    PROVE  RestInv'
<1>1. ASSUME LinkedAsInBackup, ~failed
      PROVE  WayInv'
    <2>1. WayInv /\ OrderInv
        BY <1>1 DEF RestInv
    <2>2. IsTree(dest') /\ Leaves(dest, dest', p) /\ Joins(dest, dest', p)
        BY DEF Done, Good
    <2> QED
        BY <2>1, <2>2, WayGoesOn
<1> QED
    BY <1>1, WalkStays

\* Work that is done.
LEMMA RestMovesOn ==
    ASSUME IInv, RestInv, pc # "idle", todo # <<>>, NEW p, p = p_, Done(dest, dest', p),
           pass = 4 /\ WayInv => \A q \in DOMAIN point : point[q].kind # "dir" /\ q \in DOMAIN dest
                            => dest'[q] = dest[q],
           pass = 1 /\ pc # "next" => p \in DOMAIN dest' /\ dest'[p].ino = dest[p].ino,
           todo' = Tail(todo), pc' = "next",
           UNCHANGED <<point, before, force, failed, said, plan, pass>>,
           WayInv /\ LinkedAsInBackup => Fine(p)'
    PROVE  RestInv'
<1>1. ASSUME LinkedAsInBackup, ~failed
      PROVE  WayInv'
    <2>1. WayInv /\ OrderInv
        BY <1>1 DEF RestInv
    <2>2. IsTree(dest') /\ Leaves(dest, dest', p) /\ Joins(dest, dest', p)
        BY DEF Done, Good
    <2>3. Fine(p)'
        BY <1>1, <2>1
    <2> QED
        BY <2>1, <2>2, <2>3, WayMovesOn
<1> QED
    BY <1>1, WalkStays

LEMMA ChmodFileRests == IInv /\ RestInv /\ ChmodFile => RestInv'
<1> SUFFICES ASSUME IInv, RestInv, ChmodFile PROVE RestInv'
    OBVIOUS
<1> PICK p : p = p_
    OBVIOUS
<1>1. TypeOK /\ WalkInv /\ PlanInv /\ Good(dest) /\ IsBackup(point)
    BY GoodDest DEF IInv
<1>2. pass = 1 /\ pc = "next" /\ todo # <<>>
    BY <1>1, HandlingIs DEF ChmodFile, Handling
<1>3. p \in DOMAIN point /\ p \in Handled(1)
    BY <1>1, <1>2, EntryInHand
<1>4. plan[p] = "UpdatePermissions" /\ p \in DOMAIN dest
    BY <1>1, <1>2, <1>3 DEF ChmodFile, PlanInv, Exists
<1>5. PICK e : e = [dest[p] EXCEPT !.perm = point[p].perm]
    OBVIOUS
<1>6. e \in There /\ e.kind = dest[p].kind /\ e.ino = dest[p].ino
      /\ e.perm = point[p].perm /\ e.mtime = dest[p].mtime /\ e.data = dest[p].data
    BY <1>1, <1>3, <1>4, <1>5, ThereOf DEF There
<1>7. dest' = Changed(dest, p, e)
    BY <1>5 DEF ChmodFile
<1>8. Done(dest, dest', p) /\ p \in DOMAIN dest' /\ dest'[p] = e
    BY <1>1, <1>3, <1>4, <1>6, <1>7, Altered
<1>9. todo' = Tail(todo) /\ pc' = "next"
      /\ UNCHANGED <<point, before, force, failed, said, plan, pass>>
    BY <1>2 DEF ChmodFile, Stays, commandVars
<1>10. ASSUME WayInv PROVE Fine(p)'
    <2>1. FoundInv /\ FilesWait
        BY <1>2, <1>10 DEF WayInv, RestInv
    <2>2. /\ point[p].kind = "file" /\ ~IsHardLink(p)
          /\ p \in DOMAIN before /\ dest[p] = before[p]
          /\ dest[p].mtime = point[p].mtime
          /\ Size(dest[p]) = SizeOf[point[p].data]
        BY <1>2, <1>4, <2>1, PlannedIs
    <2>3. Contents(p)
        BY <1>3, <1>4, <2>2, TakenIs
    <2>4. Contents(p)'
        BY <1>6, <1>8, <1>9, <2>3 DEF Contents, FileOf, IsHardLink, Size
    <2>5. SamePermissions(p)'
        BY <1>6, <1>8, <1>9 DEF SamePermissions
    <2>6. Exists(p)' /\ dest'[p].mtime = point'[p].mtime
        BY <1>6, <1>8, <1>9, <2>2 DEF Exists
    <2> QED
        BY <2>4, <2>5, <2>6 DEF Fine
<1> QED
    BY <1>2, <1>8, <1>9, <1>10, RestMovesOn

LEMMA CreateFileRests == IInv /\ RestInv /\ CreateFile => RestInv'
<1> SUFFICES ASSUME IInv, RestInv, CreateFile PROVE RestInv'
    OBVIOUS
<1> PICK p : p = p_
    OBVIOUS
<1>1. TypeOK /\ WalkInv /\ Good(dest) /\ IsBackup(point)
    BY GoodDest DEF IInv
<1>2. pass = 1 /\ pc = "next" /\ todo # <<>>
    BY <1>1, HandlingIs DEF CreateFile, Handling
<1>3. p \in DOMAIN point /\ point[p].kind = "file"
    BY <1>1, <1>2, EntryInHand
<1>4. Done(dest, dest', p) /\ p \in DOMAIN dest' /\ (p \notin DOMAIN dest => dest'[p].perm = point[p].perm)
    BY <1>1, <1>3, OpenedIs DEF CreateFile
<1>5. todo' = todo /\ pc' = "write" /\ UNCHANGED <<point, before, force, failed, said, plan, pass>>
    BY DEF CreateFile, Stays, commandVars
<1>6. ASSUME WayInv PROVE BegunInv'
    <2>1. FoundInv /\ FilesWait
        BY <1>2, <1>6 DEF WayInv, RestInv
    <2>2. p \in DOMAIN dest <=> p \in DOMAIN before
        BY <1>2, <2>1, PlannedIs
    <2>3. p_' = p
        BY <1>5 DEF p_
    <2>4. p \notin DOMAIN before => SamePermissions(p)'
        BY <1>4, <1>5, <2>2 DEF SamePermissions
    <2>5. p_' \notin DOMAIN before' => SamePermissions(p_)'
        BY <1>5, <2>3, <2>4 DEF SamePermissions
    <2> QED
        BY <1>2, <1>5, <2>5 DEF BegunInv
<1> QED
    BY <1>2, <1>4, <1>5, <1>6, RestGoesOn

LEMMA FillFileRests == IInv /\ RestInv /\ FillFile => RestInv'
<1> SUFFICES ASSUME IInv, RestInv, FillFile PROVE RestInv'
    OBVIOUS
<1> PICK p : p = p_
    OBVIOUS
<1>1. TypeOK /\ Good(dest) /\ IsBackup(point)
    BY GoodDest DEF IInv
<1>2. pc = "write" /\ pass = 1 /\ todo # <<>> /\ p \in DOMAIN point /\ p \in DOMAIN dest
      /\ point[p].kind = "file"
    BY BegunIs DEF FillFile
<1>3. PICK e : e = [dest[p] EXCEPT !.data = point[p].data, !.mtime = Now]
    OBVIOUS
<1>4. e \in There /\ e.kind = dest[p].kind /\ e.ino = dest[p].ino
      /\ e.data = point[p].data /\ e.perm = dest[p].perm
    BY <1>1, <1>2, <1>3, ThereOf DEF There
<1>5. dest' = Changed(dest, p, e)
    BY <1>3 DEF FillFile
<1>6. Done(dest, dest', p) /\ p \in DOMAIN dest' /\ dest'[p] = e
    BY <1>1, <1>2, <1>4, <1>5, Altered
<1>7. todo' = todo /\ pc' = "stamp" /\ UNCHANGED <<point, before, force, failed, said, plan, pass>>
    BY DEF FillFile, Stays, commandVars
<1>8. ASSUME WayInv PROVE BegunInv'
    <2>1. p_' = p
        BY <1>7 DEF p_
    <2>2. p \notin DOMAIN before => dest[p].perm = point[p].perm
        BY <1>2, <1>8 DEF WayInv, BegunInv, SamePermissions
    <2>3. p_' \notin DOMAIN before' => SamePermissions(p_)'
        BY <1>4, <1>6, <1>7, <2>1, <2>2 DEF SamePermissions
    <2>4. dest'[p_'].data = point'[p_'].data
        BY <1>4, <1>6, <1>7, <2>1
    <2> QED
        BY <1>2, <1>7, <2>3, <2>4 DEF BegunInv
<1> QED
    BY <1>2, <1>4, <1>6, <1>7, <1>8, RestGoesOn

LEMMA WriteFailsRests == IInv /\ RestInv /\ WriteFails => RestInv'
<1> SUFFICES ASSUME IInv, RestInv, WriteFails PROVE RestInv'
    OBVIOUS
<1>1. pc = "write" /\ todo # <<>>
    BY BegunIs DEF WriteFails
<1> QED
    BY <1>1, WalkStays DEF WriteFails, commandVars

LEMMA CreateFifoRests == IInv /\ RestInv /\ CreateFifo => RestInv'
<1> SUFFICES ASSUME IInv, RestInv, CreateFifo PROVE RestInv'
    OBVIOUS
<1> PICK p : p = p_
    OBVIOUS
<1>1. TypeOK /\ WalkInv /\ Good(dest) /\ IsBackup(point)
    BY GoodDest DEF IInv
<1>2. pass = 2 /\ pc = "next" /\ todo # <<>> /\ p \notin DOMAIN dest
    BY <1>1, HandlingIs DEF CreateFifo, Handling, Exists
<1>3. p \in DOMAIN point /\ point[p].kind = "fifo"
    BY <1>1, <1>2, EntryInHand
<1>4. point[p].perm \in Perms /\ None \in DOMAIN SizeOf
    BY <1>1, <1>3, EntryIs, CutAssumption
<1>5. PICK t : t = mkDirpWriteable(dest, Parent(p))
    OBVIOUS
<1>6. dest' = With(t, p, New(t, point[p].kind, point[p].perm, None))
    BY <1>3, <1>5 DEF CreateFifo
<1>7. Done(dest, dest', p) /\ p \in DOMAIN dest' /\ dest'[p].perm = point[p].perm
    BY <1>1, <1>2, <1>3, <1>4, <1>5, <1>6, CreatedIs
<1>8. todo' = todo /\ pc' = "stamp" /\ UNCHANGED <<point, before, force, failed, said, plan, pass>>
    BY DEF CreateFifo, Stays, commandVars
<1>9. BegunInv'
    <2>1. p_' = p
        BY <1>8 DEF p_
    <2>2. SamePermissions(p_)'
        BY <1>7, <1>8, <2>1 DEF SamePermissions
    <2> QED
        BY <1>2, <1>8, <2>2 DEF BegunInv
<1> QED
    BY <1>2, <1>7, <1>8, <1>9, RestGoesOn

LEMMA DeleteLinkRests == IInv /\ RestInv /\ DeleteLink => RestInv'
<1> SUFFICES ASSUME IInv, RestInv, DeleteLink PROVE RestInv'
    OBVIOUS
<1> PICK p : p = p_
    OBVIOUS
<1>1. TypeOK /\ WalkInv /\ Good(dest) /\ IsBackup(point)
    BY GoodDest DEF IInv
<1>2. pass = 3 /\ pc = "next" /\ todo # <<>> /\ p \in DOMAIN dest
    BY <1>1, HandlingIs DEF DeleteLink, Handling, Exists
<1>3. p \in DOMAIN point /\ point[p].kind = "link"
    BY <1>1, <1>2, EntryInHand
<1>4. Done(dest, dest', p)
    BY <1>1, <1>2, <1>3, DeletedIs DEF DeleteLink
<1>5. todo' = todo /\ pc' = "link" /\ UNCHANGED <<point, before, force, failed, said, plan, pass>>
    BY DEF DeleteLink, Stays, commandVars
<1>6. BegunInv'
    BY <1>5 DEF BegunInv
<1> QED
    BY <1>2, <1>4, <1>5, <1>6, RestGoesOn

LEMMA CreateLinkRests == IInv /\ RestInv /\ CreateLink => RestInv'
<1> SUFFICES ASSUME IInv, RestInv, CreateLink PROVE RestInv'
    OBVIOUS
<1> PICK p : p = p_
    OBVIOUS
<1>1. TypeOK /\ WalkInv /\ Good(dest) /\ IsBackup(point)
    BY GoodDest DEF IInv
<1>2. pass = 3 /\ pc # "idle" /\ todo # <<>> /\ p \notin DOMAIN dest
    BY <1>1, HandlingIs, BegunIs DEF CreateLink, Handling, Exists
<1>3. p \in DOMAIN point /\ point[p].kind = "link"
    BY <1>1, <1>2, EntryInHand
<1>4. point[p].perm \in Perms /\ point[p].data \in DOMAIN SizeOf
    BY <1>1, <1>3, EntryIs
<1>5. PICK t : t = mkDirpWriteable(dest, Parent(p))
    OBVIOUS
<1>6. dest' = With(t, p, New(t, point[p].kind, point[p].perm, point[p].data))
    BY <1>3, <1>5 DEF CreateLink
<1>7. Done(dest, dest', p) /\ p \in DOMAIN dest' /\ dest'[p].perm = point[p].perm
      /\ dest'[p].data = point[p].data
    BY <1>1, <1>2, <1>3, <1>4, <1>5, <1>6, CreatedIs
<1>8. todo' = todo /\ pc' = "stamp" /\ UNCHANGED <<point, before, force, failed, said, plan, pass>>
    BY DEF CreateLink, Stays, commandVars
<1>9. BegunInv'
    <2>1. p_' = p
        BY <1>8 DEF p_
    <2>2. SamePermissions(p_)' /\ dest'[p_'].data = point'[p_'].data
        BY <1>7, <1>8, <2>1 DEF SamePermissions
    <2> QED
        BY <1>2, <1>8, <2>2 DEF BegunInv
<1> QED
    BY <1>2, <1>7, <1>8, <1>9, RestGoesOn

LEMMA SkipFifoRests == IInv /\ RestInv /\ SkipFifo => RestInv'
<1> SUFFICES ASSUME IInv, RestInv, SkipFifo PROVE RestInv'
    OBVIOUS
<1> PICK p : p = p_
    OBVIOUS
<1>1. pc = "next" /\ pass = 2 /\ todo # <<>> /\ Skip /\ Stays
    BY HandlingIs DEF SkipFifo, Handling, IInv
<1>2. point[p].kind = "fifo"
    BY <1>1, EntryInHand DEF IInv
<1>3. Fine(p)
    BY <1>2 DEF SkipFifo, Fine, SamePermissions, SameMTime
<1> QED
    BY <1>1, <1>3, WaySkips

LEMMA SkipLinkRests == IInv /\ RestInv /\ SkipLink => RestInv'
<1> SUFFICES ASSUME IInv, RestInv, SkipLink PROVE RestInv'
    OBVIOUS
<1> PICK p : p = p_
    OBVIOUS
<1>1. pc = "next" /\ pass = 3 /\ todo # <<>> /\ Skip /\ Stays
    BY HandlingIs DEF SkipLink, Handling, IInv
<1>2. ~IsHardLink(p) /\ point[p].kind = "link"
    BY <1>1, EntryInHand DEF IInv
<1>3. Contents(p)
    BY <1>2 DEF SkipLink, SameLink, Contents, FileOf
<1>4. Fine(p)
    BY <1>2, <1>3 DEF SkipLink, SameLink, Fine, SamePermissions, SameMTime
<1> QED
    BY <1>1, <1>4, WaySkips

LEMMA SkipDirRests == IInv /\ RestInv /\ SkipDir => RestInv'
<1> SUFFICES ASSUME IInv, RestInv, SkipDir PROVE RestInv'
    OBVIOUS
<1> PICK p : p = p_
    OBVIOUS
<1>1. pc = "next" /\ pass = 5 /\ todo # <<>> /\ Skip /\ Stays
    BY HandlingIs DEF SkipDir, Handling, IInv
<1>2. point[p].kind = "dir"
    BY <1>1, EntryInHand DEF IInv
<1>3. Fine(p)
    BY <1>2 DEF SkipDir, Fine, SamePermissions, SameMTime
<1> QED
    BY <1>1, <1>3, WaySkips

LEMMA ChmodDirRests == IInv /\ RestInv /\ ChmodDir => RestInv'
<1> SUFFICES ASSUME IInv, RestInv, ChmodDir PROVE RestInv'
    OBVIOUS
<1> PICK p : p = p_
    OBVIOUS
<1>1. TypeOK /\ WalkInv /\ Good(dest) /\ IsBackup(point)
    BY GoodDest DEF IInv
<1>2. pass = 5 /\ pc = "next" /\ todo # <<>>
    BY <1>1, HandlingIs DEF ChmodDir, Handling
<1>3. p \in DOMAIN point /\ point[p].kind = "dir"
    BY <1>1, <1>2, EntryInHand
<1>4. PICK t : t = mkDirpWriteable(dest, p)
    OBVIOUS
<1>5. dest' = Changed(t, p, [t[p] EXCEPT !.perm = point[p].perm])
    BY <1>4 DEF ChmodDir
<1>6. /\ Good(dest') /\ Leaves(dest, dest', p) /\ Joins(dest, dest', p)
      /\ dest'[p].perm = point[p].perm
    BY <1>1, <1>3, <1>4, <1>5, DirIs
<1>7. todo' = todo /\ pc' = "stamp" /\ UNCHANGED <<point, before, force, failed, said, plan, pass>>
    BY DEF ChmodDir, Stays, commandVars
<1>8. BegunInv'
    <2>1. p_' = p
        BY <1>7 DEF p_
    <2>2. SamePermissions(p_)'
        BY <1>6, <1>7, <2>1 DEF SamePermissions
    <2> QED
        BY <1>2, <1>7, <2>2 DEF BegunInv
<1>9. ASSUME LinkedAsInBackup, ~failed
      PROVE  WayInv'
    <2>1. WayInv /\ OrderInv
        BY <1>2, <1>9 DEF RestInv
    <2>2. IsTree(dest')
        BY <1>6 DEF Good
    <2> QED
        BY <1>2, <1>6, <1>7, <1>8, <2>1, <2>2, WayGoesOn
<1> QED
    BY <1>2, <1>7, <1>9, WalkStays

-----------------------------------------------------------------------------
(* The walk of the hard links, and the end of work on an entry.            *)

\* The file of a hard link that is made or left has what is to be in it.
LEMMA TargetIs ==
    ASSUME IInv, WayInv, pc # "idle", pass = 4, todo # <<>>, NEW p, p = p_, TargetFits(p)
    PROVE  /\ p \in DOMAIN point /\ IsHardLink(p) /\ point[p].kind = "file"
           /\ FileOf(p) = point[p].hard /\ FileOf(p) \in DOMAIN point /\ FileOf(p) \in DOMAIN dest
           /\ dest[FileOf(p)].mtime = point[p].mtime /\ dest[FileOf(p)].perm = point[p].perm
           /\ \/ dest[FileOf(p)].data = point[FileOf(p)].data
              \/ /\ FileOf(p) \in DOMAIN before /\ before[FileOf(p)].mtime = point[p].mtime
                 /\ Size(before[FileOf(p)]) = SizeOf[point[FileOf(p)].data]
                 /\ dest[FileOf(p)].data = before[FileOf(p)].data
           /\ Size(dest[FileOf(p)]) = SizeOf[point[FileOf(p)].data]
<1>1. IsBackup(point) /\ p \in DOMAIN point /\ IsHardLink(p)
    BY EntryInHand DEF IInv, TypeOK
<1>2. PICK f : f = FileOf(p)
    OBVIOUS
<1>3. /\ f = point[p].hard /\ f \in DOMAIN point /\ point[f].kind = "file" /\ ~IsHardLink(f)
      /\ point[f].mtime = point[p].mtime /\ FileOf(f) = f
    BY <1>1, <1>2, FileOfIs
<1>4. f \in DOMAIN dest /\ dest[f].mtime = point[p].mtime /\ dest[f].perm = point[p].perm
    BY <1>3 DEF TargetFits, Exists
<1>5. ~Left(f)
    <2>1. f \in Handled(1)
        BY <1>1, <1>3, HandledIs
    <2> QED
        BY <1>3, <2>1, LeftIs
<1>6. Fine(f)
    BY <1>3, <1>5 DEF WayInv, FineInv
<1>7. Contents(f)
    <2>1. dest[f].mtime = point[f].mtime /\ point[f].mtime \in Nat
        BY <1>1, <1>3, <1>4, EntryIs
    <2>2. ~(dest[f].mtime > point[f].mtime)
        BY <2>1
    <2> QED
        BY <1>3, <1>6, <2>2 DEF Fine
<1>8. \/ dest[f].data = point[f].data
      \/ /\ f \in DOMAIN before /\ before[f].mtime = point[p].mtime
         /\ Size(before[f]) = SizeOf[point[f].data]
         /\ dest[f].data = before[f].data
    BY <1>3, <1>7 DEF Contents
<1>9. Size(dest[f]) = SizeOf[point[f].data]
    BY <1>8 DEF Size
<1>10. point[p].kind = "file"
    BY <1>1, EntryIs
<1> QED
    BY <1>1, <1>2, <1>3, <1>4, <1>8, <1>9, <1>10

LEMMA SkipHardLinkRests == IInv /\ RestInv /\ SkipHardLink => RestInv'
<1> SUFFICES ASSUME IInv, RestInv, SkipHardLink PROVE RestInv'
    OBVIOUS
<1> PICK p : p = p_
    OBVIOUS
<1>1. pc = "next" /\ pass = 4 /\ todo # <<>> /\ Skip /\ Stays
    BY HandlingIs DEF SkipHardLink, Handling, IInv
<1>2. /\ TargetFits(p) /\ p \in DOMAIN dest /\ SamePermissions(p)
      /\ dest[p].mtime = point[p].mtime /\ Size(dest[p]) = Size(dest[point[p].hard])
    BY DEF SkipHardLink, LooksLinked, Exists, SameMTime
<1>3. ASSUME WayInv PROVE Fine(p)
    <2>1. PICK f : f = FileOf(p)
        OBVIOUS
    <2>2. /\ p \in DOMAIN point /\ IsHardLink(p) /\ point[p].kind = "file" /\ f = point[p].hard
          /\ \/ dest[f].data = point[f].data
             \/ /\ f \in DOMAIN before /\ before[f].mtime = point[p].mtime
                /\ Size(before[f]) = SizeOf[point[f].data]
                /\ dest[f].data = before[f].data
          /\ Size(dest[f]) = SizeOf[point[f].data]
        BY <1>1, <1>2, <1>3, <2>1, TargetIs
    <2>3. p \in Handled(4) /\ Waits(p)
        BY <1>1, InHandIs
    <2>4. \/ p \in DOMAIN before /\ dest[p] = before[p]
          \/ f \in DOMAIN dest /\ p \in Names(dest, f)
        BY <1>2, <1>3, <2>1, <2>3 DEF WayInv, LinksWait
    <2>5. Contents(p)
        <3>1. CASE p \in DOMAIN before /\ dest[p] = before[p]
            BY <1>2, <2>1, <2>2, <3>1 DEF Contents
        <3>2. CASE f \in DOMAIN dest /\ p \in Names(dest, f)
            <4>1. dest[p] = dest[f]
                BY <3>2 DEF IInv, TypeOK, IsTree
            <4> QED
                BY <2>1, <2>2, <4>1 DEF Contents
        <3> QED
            BY <2>4, <3>1, <3>2
    <2> QED
        BY <1>2, <2>5 DEF Fine, Exists
<1> QED
    BY <1>1, <1>3, WaySkips

LEMMA CreateHardLinkRests == IInv /\ RestInv /\ CreateHardLink => RestInv'
<1> SUFFICES ASSUME IInv, RestInv, CreateHardLink PROVE RestInv'
    OBVIOUS
<1> PICK p : p = p_
    OBVIOUS
<1>1. TypeOK /\ WalkInv /\ Good(dest) /\ IsBackup(point)
    BY GoodDest DEF IInv
<1>2. pass = 4 /\ pc = "next" /\ todo # <<>>
    BY <1>1, HandlingIs DEF CreateHardLink, Handling
<1>3. p \in DOMAIN point /\ IsHardLink(p)
    BY <1>1, <1>2, EntryInHand
<1>4. p \notin DOMAIN dest /\ TargetFits(p) /\ point[p].hard \in DOMAIN dest
    BY DEF CreateHardLink, Exists, TargetFits
<1>5. PICK t : t = mkDirpWriteable(dest, Parent(p))
    OBVIOUS
<1>6. dest' = With(t, p, t[point[p].hard])
    BY <1>5 DEF CreateHardLink
<1>7. /\ Good(dest') /\ p \in DOMAIN dest' /\ dest'[p] = dest[point[p].hard]
      /\ dest'[point[p].hard] = dest[point[p].hard] /\ Leaves(dest, dest', p)
    BY <1>1, <1>3, <1>4, <1>5, <1>6, LinkedIs
<1>8. todo' = todo /\ pc' = "stamp" /\ UNCHANGED <<point, before, force, failed, said, plan, pass>>
    BY DEF CreateHardLink, Stays, commandVars
<1>9. ASSUME NEW q \in DOMAIN point, point[q].kind # "dir", q \in DOMAIN dest
      PROVE  dest'[q] = dest[q]
    <2>1. \A a \in Above(p) : a = Root \/ point[a].kind = "dir"
        BY <1>1, <1>3, EntryIs
    <2>2. q \in Universe \ (Above(p) \cup {p})
        BY <1>1, <1>4, <1>9, <2>1, EntryIs
    <2>3. p \notin Names(dest, q)
        BY <1>4 DEF Names
    <2> QED
        BY <1>7, <1>9, <2>2, <2>3 DEF Leaves
<1>10. ASSUME LinkedAsInBackup, ~failed
       PROVE  WayInv'
    <2>1. WayInv /\ OrderInv
        BY <1>2, <1>10 DEF RestInv
    <2>2. IsTree(dest')
        BY <1>7 DEF Good
    <2>3. PICK f : f = FileOf(p)
        OBVIOUS
    <2>4. /\ f = point[p].hard /\ f \in DOMAIN point /\ f \in DOMAIN dest
          /\ point[p].kind = "file"
          /\ dest[f].mtime = point[p].mtime /\ dest[f].perm = point[p].perm
          /\ \/ dest[f].data = point[f].data
             \/ /\ f \in DOMAIN before /\ before[f].mtime = point[p].mtime
                /\ Size(before[f]) = SizeOf[point[f].data]
                /\ dest[f].data = before[f].data
        BY <1>2, <1>4, <2>1, <2>3, TargetIs
    <2>5. dest'[p] = dest[f]
        BY <1>7, <2>4
    <2>6. Fine(p)'
        <3>1. FileOf(p)' = f
            BY <1>8, <2>3 DEF FileOf, IsHardLink
        <3>2. Contents(p)'
            BY <1>8, <2>4, <2>5, <3>1 DEF Contents, Size
        <3>3. SamePermissions(p)' /\ Exists(p)' /\ dest'[p].mtime = point'[p].mtime
            BY <1>7, <1>8, <2>4, <2>5 DEF SamePermissions, Exists
        <3> QED
            BY <3>2, <3>3 DEF Fine
    <2>7. BegunInv'
        <3>1. p_' = p
            BY <1>8 DEF p_
        <3>2. Fine(p_)'
            BY <2>6, <3>1 DEF Fine, Exists, NewerOfUser, Contents, FileOf, IsHardLink, SamePermissions
        <3> QED
            BY <1>2, <1>8, <3>2 DEF BegunInv
    <2>8. NamesInv'
        <3>1. \A q : FileOf(q)' = FileOf(q)
            BY <1>8 DEF FileOf, IsHardLink
        <3>2. FileOf(f) = f
            BY <1>1, <1>3, <2>3, FileOfIs
        <3>3. f \in Universe /\ f \notin Above(p) /\ f # p
            BY <1>1, <1>3, <1>4, <2>3, <2>4, EntryIs, FileOfIs
        <3>4. ASSUME NEW a \in DOMAIN point, a \in DOMAIN dest', a # p, dest'[a].ino # None
              PROVE  a \in DOMAIN dest /\ dest'[a].ino = dest[a].ino
            <4>1. a \notin Above(p)
                BY <1>7, <2>2, <3>4, TreeIs DEF Leaves, IsDir
            <4>2. a \in Universe
                BY <1>1, EntryIs
            <4> QED
                BY <1>7, <3>4, <4>1, <4>2 DEF Leaves
        <3>5. ASSUME NEW a \in DOMAIN point, a \in DOMAIN dest', a # p, a \in Names(dest', p)
              PROVE  FileOf(a) = f
            <4>1. dest'[a].ino = dest[f].ino /\ dest[f].ino # None
                BY <2>5, <3>5 DEF Names
            <4>2. a \in DOMAIN dest /\ dest[a].ino = dest[f].ino
                BY <3>4, <3>5, <4>1
            <4>3. a \in Names(dest, f)
                BY <4>1, <4>2 DEF Names
            <4> QED
                BY <2>1, <2>4, <3>2, <4>3 DEF WayInv, NamesInv
        <3>6. ASSUME NEW a \in DOMAIN point, NEW b \in DOMAIN point, a \in DOMAIN dest',
                     b \in Names(dest', a)
              PROVE  FileOf(a) = FileOf(b)
            <4>1. b \in DOMAIN dest' /\ (b = a \/ (dest'[a].ino # None /\ dest'[b].ino = dest'[a].ino))
                BY <3>6 DEF Names
            <4>2. CASE b = a
                BY <4>2
            <4>3. CASE b # a /\ a = p
                BY <2>3, <3>5, <3>6, <4>1, <4>3
            <4>4. CASE b # a /\ b = p
                <5>1. a \in Names(dest', p)
                    BY <3>6, <4>1, <4>4 DEF Names
                <5> QED
                    BY <2>3, <3>5, <3>6, <4>4, <5>1
            <4>5. CASE b # a /\ a # p /\ b # p
                <5>1. a \in DOMAIN dest /\ b \in Names(dest, a)
                    BY <3>4, <3>6, <4>1, <4>5 DEF Names
                <5> QED
                    BY <2>1, <5>1 DEF WayInv, NamesInv
            <4> QED
                BY <4>2, <4>3, <4>4, <4>5
        <3> QED
            BY <1>8, <3>1, <3>6 DEF NamesInv
    <2> QED
        BY <1>2, <1>7, <1>8, <1>9, <2>1, <2>2, <2>7, <2>8, WayGoesOn
<1> QED
    BY <1>2, <1>8, <1>10, WalkStays

LEMMA StampRests == IInv /\ RestInv /\ Stamp => RestInv'
<1> SUFFICES ASSUME IInv, RestInv, Stamp PROVE RestInv'
    OBVIOUS
<1> PICK p : p = p_
    OBVIOUS
<1>1. TypeOK /\ WalkInv /\ Good(dest) /\ IsBackup(point)
    BY GoodDest DEF IInv
<1>2. /\ pc = "stamp" /\ pc # "idle" /\ pass \in 1..5 /\ todo # <<>>
      /\ p \in DOMAIN point /\ p \in DOMAIN dest
    BY BegunIs DEF Stamp
<1>3. PICK e : e = [dest[p] EXCEPT !.mtime = point[p].mtime]
    OBVIOUS
<1>4. /\ e \in There /\ e.kind = dest[p].kind /\ e.ino = dest[p].ino
      /\ e.mtime = point[p].mtime /\ e.data = dest[p].data /\ e.perm = dest[p].perm
      /\ dest[p].mtime = point[p].mtime => e = dest[p]
    BY <1>1, <1>2, <1>3, ThereOf DEF There
<1>5. dest' = Changed(dest, p, e)
    BY <1>3 DEF Stamp
<1>6. /\ Done(dest, dest', p) /\ p \in DOMAIN dest' /\ dest'[p] = e
      /\ DOMAIN dest' = DOMAIN dest
      /\ \A q \in Names(dest, p) : dest'[q] = e
      /\ \A q \in DOMAIN dest \ Names(dest, p) : dest'[q] = dest[q]
    BY <1>1, <1>2, <1>4, <1>5, Altered
<1>7. todo' = Tail(todo) /\ pc' = "next"
      /\ UNCHANGED <<point, before, force, failed, said, plan, pass>>
    BY DEF Stamp, Stays, commandVars
<1>8. ASSUME pass = 4, WayInv
      PROVE  Fine(p) /\ \A q \in DOMAIN dest : dest'[q] = dest[q]
    <2>1. Fine(p) /\ IsHardLink(p)
        BY <1>1, <1>2, <1>8, EntryInHand DEF WayInv, BegunInv
    <2>2. e = dest[p]
        BY <1>4, <2>1 DEF Fine
    <2>3. \A q \in Names(dest, p) : dest[q] = dest[p]
        BY <1>1, <1>2 DEF Good, IsTree
    <2> QED
        BY <1>6, <2>1, <2>2, <2>3
<1>9. ASSUME WayInv PROVE Fine(p)'
    <2>1. Exists(p)' /\ dest'[p].mtime = point'[p].mtime
        BY <1>4, <1>6, <1>7 DEF Exists
    <2>2. FileOf(p)' = FileOf(p)
        BY <1>7 DEF FileOf, IsHardLink
    <2>3. SamePermissions(p)' <=> SamePermissions(p)
        BY <1>4, <1>6, <1>7 DEF SamePermissions
    <2>4. CASE pass = 4
        <3>1. Fine(p) /\ dest'[p] = dest[p]
            BY <1>2, <1>8, <1>9, <2>4
        <3> QED
            BY <1>6, <1>7, <3>1, StaysFine
    <2>5. CASE pass = 1
        <3>1. point[p].kind = "file" /\ ~IsHardLink(p)
            BY <1>1, <1>2, <2>5, EntryInHand
        <3>2. dest[p].data = point[p].data /\ (p \notin DOMAIN before => SamePermissions(p))
            BY <1>2, <1>9, <2>5 DEF WayInv, BegunInv
        <3>3. Contents(p)'
            BY <1>4, <1>6, <1>7, <2>2, <3>1, <3>2 DEF Contents, FileOf
        <3>4. ~IsHardLink(p)'
            BY <1>7, <3>1 DEF IsHardLink
        <3> QED
            BY <1>7, <2>1, <2>3, <3>1, <3>2, <3>3, <3>4 DEF Fine
    <2>6. CASE pass = 3
        <3>1. point[p].kind = "link" /\ ~IsHardLink(p)
            BY <1>1, <1>2, <2>6, EntryInHand
        <3>2. dest[p].data = point[p].data /\ SamePermissions(p)
            BY <1>2, <1>9, <2>6 DEF WayInv, BegunInv
        <3>3. Contents(p)'
            BY <1>4, <1>6, <1>7, <2>2, <3>1, <3>2 DEF Contents, FileOf
        <3> QED
            BY <1>7, <2>1, <2>3, <3>1, <3>2, <3>3 DEF Fine
    <2>7. CASE pass = 2 \/ pass = 5
        <3>1. point[p].kind = "fifo" \/ point[p].kind = "dir"
            BY <1>1, <1>2, <2>7, EntryInHand
        <3>2. SamePermissions(p)
            BY <1>2, <1>9, <2>7 DEF WayInv, BegunInv
        <3> QED
            BY <1>7, <2>1, <2>3, <3>1, <3>2 DEF Fine
    <2>8. pass = 1 \/ pass = 2 \/ pass = 3 \/ pass = 4 \/ pass = 5
        BY <1>2
    <2> QED
        BY <2>4, <2>5, <2>6, <2>7, <2>8
<1> QED
    BY <1>2, <1>4, <1>6, <1>7, <1>8, <1>9, RestMovesOn

-----------------------------------------------------------------------------
(* From one walk to the next, and to the end.                              *)

\* A walk begins with each of its entries in order.
LEMMA OrderBegins ==
    ASSUME IsBackup(point), NEW n \in 1..5, NEW s \in Orders(Handled(n))
    PROVE  /\ \A q : q \in Handled(n) <=> \E i \in DOMAIN s : q = s[i]
           /\ \A i, j \in DOMAIN s : s[i] = s[j] => i = j
           /\ n = 5 => \A q \in Handled(5), j \in DOMAIN s :
                           q \in Above(s[j]) => \E i \in DOMAIN s : i > j /\ q = s[i]
<1>1. Cardinality(Handled(n)) \in Nat
    <2>1. Handled(n) \subseteq DOMAIN point /\ DOMAIN point \subseteq Universe
        BY DEF Handled, IsBackup
    <2>2. IsFiniteSet(Handled(n))
        BY <2>1, UniverseAssumption, FS_Subset
    <2> QED
        BY <2>2, FS_CardinalityType
<1>2. /\ DOMAIN s = 1..Cardinality(Handled(n)) /\ \A i \in DOMAIN s : s[i] \in Handled(n)
      /\ \A q \in Handled(n) : \E i \in DOMAIN s : s[i] = q
    BY DEF Orders, Bijection, Injection, Surjection
<1>3. \A i, j \in DOMAIN s : s[i] = s[j] => i = j
    BY DEF Orders, Bijection, Injection, IsInjective
<1>4. \A i, j \in DOMAIN s : i < j => ~After(s[i], s[j])
    BY DEF Orders
<1>5. ASSUME n = 5, NEW q \in Handled(5), NEW j \in DOMAIN s, q \in Above(s[j])
      PROVE  \E i \in DOMAIN s : i > j /\ q = s[i]
    <2>1. PICK i \in DOMAIN s : s[i] = q
        BY <1>2, <1>5
    <2>2. q \in DOMAIN point /\ point[q].kind = "dir" /\ s[j] \in DOMAIN point
        <3>1. q \in DOMAIN point /\ s[j] \in DOMAIN point
            BY <1>2 DEF Handled
        <3> QED
            BY <3>1, HandledIs
    <2>3. After(s[i], s[j])
        BY <1>5, <2>1, <2>2 DEF After
    <2>4. i # j
        <3>1. q \in Universe \ {Root}
            BY <2>2, EntryIs
        <3> QED
            BY <1>5, <2>1, <3>1, ParentIs
    <2>5. i \in Nat /\ j \in Nat
        BY <1>1, <1>2
    <2>6. ~(i < j)
        BY <1>4, <2>3
    <2>7. i > j
        BY <2>4, <2>5, <2>6
    <2> QED
        BY <2>1, <2>7
<1> QED
    BY <1>2, <1>3, <1>5

LEMMA NextPassRests == IInv /\ RestInv /\ NextPass => RestInv'
<1> SUFFICES ASSUME IInv, RestInv, NextPass PROVE RestInv'
    OBVIOUS
<1>1. TypeOK /\ WalkInv /\ IsBackup(point)
    BY DEF IInv, TypeOK
<1>2. pc = "next" /\ todo = <<>> /\ dest' = dest /\ UNCHANGED <<point, before, force, failed>>
    BY DEF NextPass, commandVars
<1>3. pass \in 1..5
    BY <1>1, <1>2, PassesAre DEF TypeOK, WalkInv
<1>4. LinkedAsInBackup' => LinkedAsInBackup
    BY <1>2 DEF LinkedAsInBackup, FileOf, IsHardLink
<1>5. \A n : Handled(n)' = Handled(n)
    BY <1>2 DEF Handled, IsHardLink
<1>6. DOMAIN todo = {}
    BY <1>2
<1>7. ASSUME NEW q \in DOMAIN point, Fine(q)
      PROVE  Fine(q)'
    <2>1. q \in DOMAIN dest' /\ dest'[q] = dest[q]
        BY <1>2, <1>7 DEF Fine, Exists
    <2> QED
        BY <1>2, <1>7, <2>1, StaysFine
<1>8. CASE ~(pass < Len(Passes))
    <2>1. pass' = 0 /\ pc' = "idle" /\ said' = "restored" /\ pass = 5
        BY <1>2, <1>3, <1>8, PassesAre DEF NextPass
    <2>2. ASSUME LinkedAsInBackup, ~failed, NEW q \in DOMAIN point
          PROVE  Fine(q)'
        <3>1. FineInv
            BY <1>2, <2>2 DEF RestInv, WayInv
        <3>2. \A n \in 1..5 : ~(n > pass)
            BY <2>1
        <3>3. ~Left(q)
            BY <1>6, <3>2 DEF Left
        <3> QED
            BY <1>7, <2>2, <3>1, <3>3 DEF FineInv
    <2>3. OrderInv' /\ FoundInv'
        BY <2>1 DEF OrderInv, FoundInv
    <2> QED
        BY <1>2, <1>4, <2>1, <2>2, <2>3 DEF RestInv
<1>9. CASE pass < Len(Passes)
    <2>1. /\ pass' = pass + 1 /\ todo' \in Orders(Handled(pass + 1))
          /\ UNCHANGED <<said, pc, plan>>
        BY <1>9 DEF NextPass
    <2>2. pass + 1 \in 1..5 /\ pass' \in 1..5
        BY <1>3, <1>9, <2>1, PassesAre
    <2>3. /\ \A q : q \in Handled(pass') <=> \E i \in DOMAIN todo' : q = todo'[i]
          /\ \A i, j \in DOMAIN todo' : todo'[i] = todo'[j] => i = j
          /\ pass' = 5 => \A q \in Handled(5), j \in DOMAIN todo' :
                             q \in Above(todo'[j]) => \E i \in DOMAIN todo' : i > j /\ q = todo'[i]
        BY <1>1, <2>1, <2>2, OrderBegins
    <2>4. OrderInv'
        BY <1>5, <2>3 DEF OrderInv
    <2>5. FoundInv'
        BY <1>2, <1>5, <2>1 DEF RestInv, FoundInv, Size
    <2>6. \A q : Left(q)' <=> Left(q)
        <3>1. \A n \in 1..5 : n > pass <=> n = pass' \/ n > pass'
            BY <1>3, <2>1
        <3>2. \A q : Left(q) <=> \E n \in 1..5 : n > pass /\ q \in Handled(n)
            BY <1>6 DEF Left
        <3>3. \A q : Left(q)' <=> q \in Handled(pass') \/ \E n \in 1..5 : n > pass' /\ q \in Handled(n)
            BY <1>5, <2>3 DEF Left
        <3> QED
            BY <2>2, <3>1, <3>2, <3>3
    <2>7. pc' = "next" /\ said # "restored"
        BY <1>2, <2>1 DEF RestInv
    <2>8. \A q : Waits(q)' <=> Waits(q)
        BY <1>2, <2>6, <2>7 DEF Waits
    <2>9. \A q : FileOf(q)' = FileOf(q)
        BY <1>2 DEF FileOf, IsHardLink
    <2>10. ASSUME LinkedAsInBackup, ~failed
           PROVE  WayInv'
        <3>1. WayInv
            BY <1>2, <2>10 DEF RestInv
        <3>2. NamesInv'
            BY <1>2, <2>9, <3>1 DEF WayInv, NamesInv
        <3>3. FineInv'
            BY <1>2, <1>7, <2>6, <3>1 DEF WayInv, FineInv
        <3>4. FilesWait'
            BY <1>2, <1>5, <2>8, <3>1 DEF WayInv, FilesWait
        <3>5. LinksWait'
            <4>1. ASSUME NEW q \in Handled(4), Waits(q), q \in DOMAIN dest
                  PROVE  \/ q \in DOMAIN before /\ dest[q] = before[q]
                         \/ FileOf(q) \in DOMAIN dest /\ q \in Names(dest, FileOf(q)) /\ ~Waits(FileOf(q))'
                <5>1. PICK f : f = FileOf(q) /\ f = FileOf(q)'
                    BY <2>9
                <5>2. \/ q \in DOMAIN before /\ dest[q] = before[q]
                      \/ f \in DOMAIN dest /\ q \in Names(dest, f) /\ ~Waits(f)
                    BY <3>1, <4>1, <5>1 DEF WayInv, LinksWait
                <5> QED
                    BY <2>8, <5>1, <5>2
            <4> QED
                BY <1>2, <1>5, <2>8, <2>9, <4>1 DEF LinksWait
        <3>6. BegunInv'
            BY <2>7 DEF BegunInv
        <3> QED
            BY <3>2, <3>3, <3>4, <3>5, <3>6 DEF WayInv
    <2> QED
        BY <1>2, <1>4, <2>1, <2>4, <2>5, <2>7, <2>10 DEF RestInv
<1> QED
    BY <1>8, <1>9

LEMMA StartRests == IInv /\ StartRestore => RestInv'
<1> SUFFICES ASSUME IInv, StartRestore PROVE RestInv'
    OBVIOUS
<1>1. IsTree(dest) /\ IsBackup(point)
    BY DEF IInv, TypeOK
<1>2. dest' = dest /\ point' = point /\ before' = dest /\ pc = "idle"
    BY DEF StartRestore
<1>3. \/ pc' = "idle" /\ said' \in {"up to date", "declined"}
      \/ /\ plan' = [p \in DOMAIN point |-> checkStat(p)] /\ pass' = 1
         /\ todo' \in Orders(Handled(1)) /\ said' = None /\ pc' = "next"
    BY Zenon DEF StartRestore
<1>4. CASE pc' = "idle" /\ said' \in {"up to date", "declined"}
    <2>1. pc' = "idle" /\ said' # "restored"
        BY <1>4
    <2> QED
        BY <2>1 DEF RestInv, OrderInv, FoundInv
<1>5. CASE /\ plan' = [p \in DOMAIN point |-> checkStat(p)] /\ pass' = 1
           /\ todo' \in Orders(Handled(1)) /\ said' = None /\ pc' = "next"
    <2>1. /\ \A q : q \in Handled(1) <=> \E i \in DOMAIN todo' : q = todo'[i]
          /\ \A i, j \in DOMAIN todo' : todo'[i] = todo'[j] => i = j
        BY <1>1, <1>5, OrderBegins
    <2>2. \A n : Handled(n)' = Handled(n)
        BY <1>2 DEF Handled, IsHardLink
    <2>3. OrderInv'
        BY <1>5, <2>1 DEF OrderInv
    <2>4. FoundInv'
        <3>1. ASSUME NEW p \in Handled(1)
              PROVE  /\ checkStat(p) \in {"Store", "NoUpdateIdentical", "UpdatePermissions", "OtherIsNewer"}
                     /\ checkStat(p) \in {"NoUpdateIdentical", "UpdatePermissions"} =>
                           p \in DOMAIN dest /\ dest[p].mtime = point[p].mtime /\ Size(dest[p]) = point[p].size
                     /\ checkStat(p) = "NoUpdateIdentical" => dest[p].perm = point[p].perm
                     /\ checkStat(p) = "OtherIsNewer" => p \in DOMAIN dest /\ dest[p].mtime > point[p].mtime
            <4>1. p \in DOMAIN point
                BY DEF Handled
            <4>2. ~IsHardLink(p) /\ point[p].mtime \in Nat
                BY <1>1, <4>1, HandledIs, EntryIs
            <4>3. p \in DOMAIN dest => dest[p].mtime \in Nat
                BY <1>1, TreeIs DEF There
            <4>4. CASE ~Exists(p)
                BY <4>4 DEF checkStat
            <4>5. CASE Exists(p) /\ SameSize(p) /\ SameMTime(p)
                BY <4>5 DEF checkStat, Exists, SameSize, SameMTime, SamePermissions
            <4>6. CASE Exists(p) /\ ~(SameSize(p) /\ SameMTime(p))
                <5>1. checkStat(p) = IF point[p].mtime < dest[p].mtime THEN "OtherIsNewer" ELSE "Store"
                    BY <4>2, <4>6 DEF checkStat
                <5>2. p \in DOMAIN dest /\ dest[p].mtime \in Nat
                    BY <4>3, <4>6 DEF Exists
                <5> QED
                    BY <4>2, <5>1, <5>2
            <4> QED
                BY <4>4, <4>5, <4>6
        <3>2. \A p \in Handled(1) : plan'[p] = checkStat(p)
            BY <1>5 DEF Handled
        <3> QED
            BY <1>2, <2>2, <3>1, <3>2 DEF FoundInv, Size
    <2>5. said' # "restored"
        BY <1>5, NoneAssumption DEF Words
    <2>6. ASSUME LinkedAsInBackup'
          PROVE  WayInv'
        <3>1. NamesInv'
            BY <1>2, <2>6 DEF LinkedAsInBackup, NamesInv
        <3>2. \A q \in DOMAIN point : Left(q)'
            <4> SUFFICES ASSUME NEW q \in DOMAIN point PROVE Left(q)'
                OBVIOUS
            <4>1. PICK n \in 1..5 : q \in Handled(n)
                BY <1>1, HandledIs
            <4>2. CASE n = 1
                BY <2>1, <4>1, <4>2 DEF Left
            <4>3. CASE n # 1
                <5>1. n > pass' /\ q \in Handled(n)'
                    BY <1>5, <2>2, <4>1, <4>3
                <5> QED
                    BY <5>1 DEF Left
            <4> QED
                BY <4>2, <4>3
        <3>3. FineInv'
            BY <1>2, <3>2 DEF FineInv
        <3>4. FilesWait' /\ LinksWait'
            BY <1>2 DEF FilesWait, LinksWait
        <3>5. BegunInv'
            BY <1>5 DEF BegunInv
        <3> QED
            BY <3>1, <3>3, <3>4, <3>5 DEF WayInv
    <2> QED
        BY <2>3, <2>4, <2>5, <2>6 DEF RestInv
<1> QED
    BY <1>3, <1>4, <1>5

LEMMA EndRests ==
    ASSUME pc' = "idle", said' # "restored"
    PROVE  RestInv'
BY DEF RestInv, OrderInv, FoundInv

LEMMA RestInit == Init => RestInv
<1> SUFFICES ASSUME Init PROVE RestInv
    OBVIOUS
<1>1. pc = "idle" /\ said # "restored"
    BY NoneAssumption DEF Init, Words
<1> QED
    BY <1>1 DEF RestInv, OrderInv, FoundInv

LEMMA NothingHappens == RestInv /\ UNCHANGED vars => RestInv'
<1> SUFFICES ASSUME RestInv, UNCHANGED vars PROVE RestInv'
    OBVIOUS
<1>1. UNCHANGED <<point, dest, plan, pass, todo, force, said, before, failed, pc>>
    BY DEF vars
<1> QED
    BY <1>1 DEF RestInv, OrderInv, FoundInv, WayInv, NamesInv, FineInv, FilesWait, LinksWait, BegunInv,
                Left, Waits, Fine, Handled, IsHardLink, FileOf, p_, Exists, NewerOfUser, Contents,
                SamePermissions, Size, LinkedAsInBackup

LEMMA RestStep == IInv /\ RestInv /\ [Next]_vars => RestInv'
<1> SUFFICES ASSUME IInv, RestInv, [Next]_vars PROVE RestInv'
    OBVIOUS
<1>1. CASE StartRestore \/ NextPass \/ UNCHANGED vars
    BY <1>1, StartRests, NextPassRests, NothingHappens
<1>2. CASE SkipFile \/ SkipFifo \/ SkipLink \/ SkipHardLink \/ SkipDir
    BY <1>2, SkipFileRests, SkipFifoRests, SkipLinkRests, SkipHardLinkRests, SkipDirRests
<1>3. CASE ChmodFile \/ CreateFile \/ FillFile \/ WriteFails \/ Stamp
    BY <1>3, ChmodFileRests, CreateFileRests, FillFileRests, WriteFailsRests, StampRests
<1>4. CASE CreateFifo \/ DeleteLink \/ CreateLink \/ CreateHardLink \/ ChmodDir
    BY <1>4, CreateFifoRests, DeleteLinkRests, CreateLinkRests, CreateHardLinkRests, ChmodDirRests
<1>5. CASE FifoIsThere \/ HardLinkFails \/ Crash
    <2>1. pc' = "idle" /\ said' # "restored"
        BY <1>5 DEF FifoIsThere, HardLinkFails, Crash, Die
    <2> QED
        BY <2>1, EndRests
<1> QED
    BY <1>1, <1>2, <1>3, <1>4, <1>5 DEF Next, Step

LEMMA RestHoldsAlways == Spec => [](IInv /\ RestInv)
<1>1. Init => IInv /\ RestInv
    BY InvInit, RestInit
<1>2. IInv /\ RestInv /\ [Next]_vars => (IInv /\ RestInv)'
    BY InvStep, RestStep
<1> QED
    BY <1>1, <1>2, PTL DEF Spec

\* A restore that comes to its end has made every entry as the backup has it, in
\* whatever order the directories are walked, with hard links between them and
\* with whatever was there before (restore.cc, the five walks; origintool.cc).
THEOREM RestoreIsComplete == Spec => []FinishedIsRestored
<1>1. IInv /\ RestInv => FinishedIsRestored
    <2> SUFFICES ASSUME IInv, RestInv, Ended, NEW p \in DOMAIN point, ~(NewerOfUser(p) /\ ~force)
                 PROVE  /\ Exists(p)
                        /\ dest[p].kind = point[p].kind \/ (point[p].kind = "dir" /\ dest[p].kind = "file")
                        /\ dest[p].mtime = point[p].mtime
                        /\ point[p].kind \in {"file", "link"} => Contents(p)
                        /\ \/ SamePermissions(p)
                           \/ point[p].kind = "file" /\ p \in DOMAIN before
        BY DEF FinishedIsRestored
    <2>1. Fine(p)
        BY DEF Ended, RestInv
    <2>2. p \in DOMAIN dest /\ dest[p].mtime = point[p].mtime
        BY <2>1 DEF Fine, Exists
    <2>3. dest[p].kind = point[p].kind \/ (point[p].kind = "dir" /\ dest[p].kind = "file")
        BY <2>2 DEF IInv, Fits
    <2> QED
        BY <2>1, <2>3 DEF Fine
<1> QED
    BY <1>1, RestHoldsAlways, PTL

\* A restore that comes to its end leaves nothing for the next one: what the five
\* walks leave is what the comparing walk takes to be up to date (origintool.cc,
\* checkStat; restore.cc).
THEOREM RestoreSettles == Spec => []SecondHasNothingToDo
<1>1. IInv /\ RestInv => SecondHasNothingToDo
    <2> SUFFICES ASSUME IInv, RestInv, Ended, NEW p \in DOMAIN point
                 PROVE  /\ IsHardLink(p) => checkStat(p) = "NoUpdateIdentical"
                        /\ ~IsHardLink(p) /\ point[p].kind # "dir" => checkStat(p) # "Store"
        BY DEF SecondHasNothingToDo, WorkToDo
    <2>1. IsBackup(point) /\ IsTree(dest) /\ Fine(p) /\ p \in DOMAIN dest
        BY DEF Ended, RestInv, IInv, TypeOK, Fine, Exists
    <2>2. ASSUME IsHardLink(p) PROVE checkStat(p) = "NoUpdateIdentical"
        <3>1. SamePermissions(p) /\ SameMTime(p) /\ Exists(p)
            BY <2>1, <2>2 DEF Fine, SameMTime
        <3> QED
            BY <2>2, <3>1 DEF checkStat
    <2>3. ASSUME ~IsHardLink(p), point[p].kind # "dir" PROVE checkStat(p) # "Store"
        <3>1. FileOf(p) = p /\ point[p].size = SizeOf[point[p].data]
            BY <2>1, <2>3, FileOfIs
        <3>2. CASE dest[p].mtime > point[p].mtime
            <4>1. dest[p].mtime \in Nat /\ point[p].mtime \in Nat
                BY <2>1, TreeIs, EntryIs DEF There
            <4>2. point[p].mtime < dest[p].mtime /\ point[p].mtime # dest[p].mtime
                BY <3>2, <4>1
            <4> QED
                BY <2>1, <4>2 DEF checkStat, SameMTime, Exists
        <3>3. CASE dest[p].mtime = point[p].mtime /\ (point[p].kind \in {"file", "link"} => Contents(p))
            <4>1. Size(dest[p]) = SizeOf[point[p].data]
                <5>1. CASE point[p].kind \in {"file", "link"}
                    BY <3>1, <3>3, <5>1 DEF Contents, Size
                <5>2. CASE point[p].kind = "fifo"
                    <6>1. dest[p].kind = "fifo" /\ dest[p] \in There
                        BY <2>1, <5>2, TreeIs DEF IInv, Fits
                    <6>2. dest[p].data = None /\ point[p].data = None
                        BY <2>1, <5>2, <6>1, EntryIs DEF There
                    <6> QED
                        BY <6>2 DEF Size
                <5> QED
                    BY <2>1, <2>3, <5>1, <5>2, EntryIs DEF Kinds
            <4>2. SameSize(p) /\ SameMTime(p)
                BY <3>1, <3>3, <4>1 DEF SameSize, SameMTime
            <4> QED
                BY <2>1, <4>2 DEF checkStat, Exists
        <3> QED
            BY <2>1, <3>2, <3>3 DEF Fine
    <2> QED
        BY <2>2, <2>3
<1> QED
    BY <1>1, RestHoldsAlways, PTL

=============================================================================
