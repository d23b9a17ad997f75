------------------------- MODULE RestoreIndex_proofs -------------------------
(***************************************************************************)
(* For every tree, every choice of storage directories and hard links, and *)
(* any failures: the types are right, what a mount lists is what is in the *)
(* backup, a name that is there is found, and a restore is given           *)
(* everything that can be reached while no directory it is in changes.     *)
(***************************************************************************)
EXTENDS RestoreIndex, FiniteSetTheorems, TLAPS

\* A call is being answered, and a walk is somewhere in the tree.
CallInv ==
    /\ entry[Root] = "listed"
    /\ pc \in {"find", "found", "fill", "list"} =>
           call \in [op : {"getattr", "readdir"}, path : Names]
    /\ pc \in {"find", "found", "fill", "list"} /\ call.op = "readdir" => call.path \in Dirs
    /\ pc \in {"fill", "list"} => call.op = "readdir"
    /\ pc \in {"find", "fill"} => at # None

\* The root index file is read first, and is where the others are known from.
RootInv ==
    /\ pc = "load" => gzRead = {} /\ missed = {}
    /\ pc # "load" => /\ Root \in gzRead
                      /\ Root \notin failed => gz = StorageDirs \ {Root}

\* A plain directory holds what its index file lists once that was read.
LinkInv ==
    \A d \in Dirs : Plain(d) =>
        /\ \A c \in Children(d) :
               linked[c] = IF IndexOf(d) \in gzRead \ failed THEN 1 ELSE 0
        /\ d \in loaded => IndexOf(d) \in gzRead \ failed

\* What is in a directory has been filled from an index file.
ShownInv == \A p \in Names : linked[p] > 0 => entry[p] = "listed"

\* The walk that fills a directory has not passed its index file without trying.
FillInv ==
    Root \notin failed =>
        /\ pc = "fill" => \/ IndexOf(call.path) = IndexOf(at)
                          \/ IndexOf(call.path) \in gzRead \cup missed
        /\ pc = "list" /\ Plain(call.path) =>
               IndexOf(call.path) \in gzRead \cup missed

IInv == TypeOK /\ CallInv /\ RootInv /\ LinkInv /\ ShownInv /\ FillInv

-----------------------------------------------------------------------------
(* Index files                                                             *)

\* How often a path is listed is a number.
LEMMA ListingIsNat == \A s, p : Listing(s, p) \in Nat
<1> SUFFICES ASSUME NEW s, NEW p PROVE Listing(s, p) \in Nat
    OBVIOUS
<1> DEFINE L == {l \in CrossLinks : LinkHome(l) = s /\ p \in CopiedWith(l)}
<1>1. L \subseteq Paths
    BY LinkAssumption DEF CrossLinks
<1>2. Cardinality(L) \in Nat
    BY <1>1, TreeAssumption, FS_Subset, FS_CardinalityType
<1> HIDE DEF L
<1>3. Listing(s, p) = Cardinality(L)
          + IF p \in CrossLinks THEN IF LinkHome(p) = s THEN 1 ELSE 0
            ELSE IF p \in Paths \ {Root} /\ Home[p] = s THEN 1 ELSE 0
    BY DEF Listing, L
<1> QED
    BY <1>2, <1>3

\* The tree above a path that is not the root, and the index file of a directory.
LEMMA UpTheTree ==
    /\ Root \in Names /\ Root \in StorageDirs /\ StorageDirs \subseteq Dirs
    /\ Dirs \subseteq Names /\ Paths \subseteq Names /\ None \notin Names
    /\ \A p \in Names \ {Root} :
         /\ Parent[p] \in Dirs
         /\ p \notin StorageDirs => IndexOf(p) = IndexOf(Parent[p])
    /\ \A d \in Dirs : IndexOf(d) \in StorageDirs
BY TreeAssumption, HomeAssumption, NoneAssumption DEF Names, IndexOf

\* Reading an index file to its end adds what it lists, once each in a plain
\* directory, and marks nothing as loaded that was not listed.
LEMMA ReadIndexKeeps ==
    ASSUME TypeOK, CallInv, LinkInv, ShownInv, NEW s \in StorageDirs, s \notin gzRead,
           ReadIndex(s), gzRead' = gzRead \cup {s}
    PROVE  /\ entry' \in [Names -> {"none", "blank", "listed"}]
           /\ linked' \in [Names -> Nat]
           /\ loaded' \subseteq Dirs
           /\ entry'[Root] = "listed"
           /\ LinkInv' /\ ShownInv'
<1>1. entry' \in [Names -> {"none", "blank", "listed"}] /\ linked' \in [Names -> Nat]
    BY ListingIsNat DEF ReadIndex, TypeOK
<1>2. Listed(s) \subseteq Names \ {Root} /\ loaded' \subseteq Dirs
    BY UpTheTree DEF ReadIndex, TypeOK, Listed
<1>3. entry'[Root] = "listed"
    BY <1>2, UpTheTree DEF ReadIndex, CallInv
<1>4. ShownInv'
  <2> SUFFICES ASSUME NEW p \in Names, linked'[p] > 0 PROVE entry'[p] = "listed"
      BY DEF ShownInv
  <2>1. linked'[p] = linked[p] + Listing(s, p)
      BY DEF ReadIndex
  <2>2. linked[p] \in Nat /\ Listing(s, p) \in Nat
      BY ListingIsNat DEF TypeOK
  <2>3. CASE linked[p] > 0
      BY <2>3 DEF ShownInv, ReadIndex
  <2>4. CASE Listing(s, p) > 0
    <3>1. p \in Listed(s)
        <4>1. CASE p \in Paths \ {Root}
            BY <2>4, <4>1 DEF Listed
        <4>2. CASE p \notin Paths \ {Root}
            <5>1. p \notin CrossLinks
                BY <4>2, LinkAssumption, TreeAssumption DEF CrossLinks
            <5>2. {l \in CrossLinks : LinkHome(l) = s /\ p \in CopiedWith(l)} = {}
                BY <4>2, TreeAssumption, LinkAssumption DEF CopiedWith, CrossLinks, Names
            <5>3. Listing(s, p) = 0
                BY <4>2, <5>1, <5>2, FS_EmptySet DEF Listing
            <5> QED BY <5>3, <2>4
        <4> QED BY <4>1, <4>2
    <3> QED BY <3>1 DEF ReadIndex
  <2> QED BY <2>1, <2>2, <2>3, <2>4
<1>5. LinkInv'
  <2> SUFFICES ASSUME NEW d \in Dirs, Plain(d)
               PROVE  /\ \A c \in Children(d) :
                            linked'[c] = IF IndexOf(d) \in gzRead' \ failed' THEN 1 ELSE 0
                      /\ d \in loaded' => IndexOf(d) \in gzRead' \ failed'
      BY DEF LinkInv, Plain, Listing, Children, IndexOf
  <2>1. failed' = failed /\ s \notin failed
      BY DEF ReadIndex, TypeOK
  <2>2. ASSUME NEW c \in Children(d)
        PROVE  linked'[c] = IF IndexOf(d) \in gzRead' \ failed' THEN 1 ELSE 0
    <3>1. Listing(s, c) = IF s = IndexOf(d) THEN 1 ELSE 0
        BY DEF Plain
    <3>2. linked'[c] = linked[c] + Listing(s, c)
        BY UpTheTree DEF ReadIndex, Children
    <3>3. linked[c] = IF IndexOf(d) \in gzRead \ failed THEN 1 ELSE 0
        BY DEF LinkInv
    <3> QED BY <3>1, <3>2, <3>3, <2>1
  <2>3. ASSUME d \in loaded' PROVE IndexOf(d) \in gzRead' \ failed'
    <3>1. CASE d \in loaded
        BY <3>1, <2>1 DEF LinkInv
    <3>2. CASE d \notin loaded
      <4>1. PICK c \in Listed(s) : Parent[c] = d
          BY <2>3, <3>2 DEF ReadIndex
      <4>2. c \in Children(d) /\ Listing(s, c) > 0
          BY <4>1 DEF Listed, Children
      <4>3. s = IndexOf(d)
          BY <4>2 DEF Plain
      <4> QED BY <4>3, <2>1
    <3> QED BY <3>1, <3>2
  <2> QED BY <2>2, <2>3
<1> QED
    BY <1>1, <1>2, <1>3, <1>4, <1>5

\* An index file that was not read to its end puts nothing into a directory.
LEMMA CutIndexKeeps ==
    ASSUME TypeOK, CallInv, LinkInv, ShownInv, NEW s \in StorageDirs, s \notin gzRead,
           CutIndex(s), gzRead' = gzRead \cup {s}
    PROVE  /\ entry' \in [Names -> {"none", "blank", "listed"}]
           /\ linked' \in [Names -> Nat]
           /\ loaded' \subseteq Dirs
           /\ entry'[Root] = "listed"
           /\ LinkInv' /\ ShownInv'
<1>1. PICK some \in SUBSET Listed(s) :
          entry' = [p \in Names |-> IF p \in some THEN "listed" ELSE entry[p]]
    BY DEF CutIndex
<1>2. linked' = linked /\ loaded' = loaded /\ failed' = failed \cup {s}
    BY DEF CutIndex
<1>3. /\ entry' \in [Names -> {"none", "blank", "listed"}]
      /\ linked' \in [Names -> Nat] /\ loaded' \subseteq Dirs
      /\ entry'[Root] = "listed"
    BY <1>1, <1>2, UpTheTree DEF TypeOK, CallInv
<1>4. ShownInv'
    BY <1>1, <1>2 DEF ShownInv
<1>5. gzRead' \ failed' = gzRead \ failed
    BY <1>2
<1>6. LinkInv'
    BY <1>2, <1>5 DEF LinkInv, Plain, Listing, Children, IndexOf
<1> QED
    BY <1>3, <1>4, <1>6

\* The part of the types that an index file can change.
TreeTyped ==
    /\ entry \in [Names -> {"none", "blank", "listed"}]
    /\ linked \in [Names -> Nat]
    /\ loaded \subseteq Dirs
    /\ gz \subseteq StorageDirs \ {Root}
    /\ gzRead \subseteq gz \cup {Root}
    /\ failed \subseteq gzRead
    /\ missed \subseteq gz

\* Loading what is in a directory keeps the tree as it should be, and leaves a
\* trace: the index file was read before, now, or was not found.
LEMMA LoadKeeps ==
    ASSUME IInv, pc # "load", NEW d, loadDirContents(d)
    PROVE  /\ TreeTyped' /\ entry'[Root] = "listed" /\ LinkInv' /\ ShownInv'
           /\ Root \in gzRead' /\ gz' = gz
           /\ gzRead \subseteq gzRead' /\ missed \subseteq missed'
           /\ failed \subseteq failed'
           /\ HasGz(d) => d \in gzRead' \cup missed'
<1>1. /\ TypeOK /\ TreeTyped /\ entry[Root] = "listed" /\ LinkInv /\ ShownInv
      /\ Root \in gzRead
    BY DEF IInv, CallInv, RootInv, TypeOK, TreeTyped
<1>2. CASE UNCHANGED treeVars /\ (HasGz(d) => d \in gzRead)
    <2>1. LinkInv' /\ ShownInv' /\ TreeTyped'
        BY <1>1, <1>2 DEF treeVars, LinkInv, ShownInv, TreeTyped, Plain, Listing,
           Children, IndexOf
    <2> QED BY <1>1, <1>2, <2>1 DEF treeVars
<1>3. CASE /\ HasGz(d) /\ d \notin gzRead
           /\ ReadIndex(d) \/ CutIndex(d)
           /\ gzRead' = gzRead \cup {d}
    <2>1. d \in StorageDirs /\ d # Root /\ d \in gz
        BY <1>1, <1>3 DEF HasGz, TypeOK
    <2>2. gz' = gz /\ missed' = missed
        BY <1>3, <2>1 DEF ReadIndex, CutIndex, NoteTars
    <2>3. failed' \subseteq failed \cup {d} /\ failed \subseteq failed'
        BY <1>3 DEF ReadIndex, CutIndex
    <2>4. /\ entry' \in [Names -> {"none", "blank", "listed"}]
          /\ linked' \in [Names -> Nat] /\ loaded' \subseteq Dirs
          /\ entry'[Root] = "listed" /\ LinkInv' /\ ShownInv'
        BY <1>1, <1>3, <2>1, ReadIndexKeeps, CutIndexKeeps DEF IInv
    <2>5. TreeTyped'
        BY <1>1, <1>3, <2>1, <2>2, <2>3, <2>4 DEF TreeTyped
    <2> QED BY <1>1, <1>3, <2>2, <2>3, <2>4, <2>5
<1>4. CASE /\ HasGz(d) /\ d \notin gzRead
           /\ missed' = missed \cup {d}
           /\ UNCHANGED <<entry, linked, loaded, gz, gzRead, failed>>
    <2>1. d \in gz
        BY <1>1, <1>4 DEF HasGz
    <2>2. LinkInv' /\ ShownInv' /\ TreeTyped'
        BY <1>1, <1>4, <2>1 DEF LinkInv, ShownInv, TreeTyped, Plain, Listing,
           Children, IndexOf
    <2> QED BY <1>1, <1>4, <2>2
<1> QED
    BY <1>2, <1>3, <1>4 DEF loadDirContents, loadGz

\* The first index file that is read is that of the root.
LEMMA RootLoadKeepsInv == IInv /\ loadBeakFileSystem => IInv'
<1> SUFFICES ASSUME IInv, loadBeakFileSystem PROVE IInv'
    OBVIOUS
<1>1. /\ TypeOK /\ CallInv /\ LinkInv /\ ShownInv /\ Root \in StorageDirs
      /\ pc = "load" /\ pc' = "idle" /\ gzRead = {} /\ failed = {} /\ missed = {}
    BY UpTheTree DEF IInv, RootInv, loadBeakFileSystem, TypeOK
<1>2. (ReadIndex(Root) \/ CutIndex(Root)) /\ gzRead' = gzRead \cup {Root}
    BY <1>1 DEF loadBeakFileSystem, loadGz
<1>3. /\ entry' \in [Names -> {"none", "blank", "listed"}]
      /\ linked' \in [Names -> Nat] /\ loaded' \subseteq Dirs
      /\ entry'[Root] = "listed" /\ LinkInv' /\ ShownInv'
    BY <1>1, <1>2, ReadIndexKeeps, CutIndexKeeps
<1>4. /\ gz' \subseteq StorageDirs \ {Root} /\ missed' = {}
      /\ failed' \subseteq {Root}
      /\ Root \notin failed' => gz' = StorageDirs \ {Root}
    BY <1>1, <1>2 DEF ReadIndex, CutIndex, NoteTars
<1>5. TypeOK'
    BY <1>1, <1>2, <1>3, <1>4 DEF TypeOK, loadBeakFileSystem, callVars, passVars
<1>6. CallInv' /\ RootInv' /\ FillInv'
    BY <1>1, <1>2, <1>3, <1>4 DEF CallInv, RootInv, FillInv
<1> QED
    BY <1>3, <1>5, <1>6 DEF IInv

\* A step that does not touch the tree keeps what is known of it.
LEMMA TreeUnchanged ==
    ASSUME IInv, UNCHANGED <<entry, linked, loaded, gz, gzRead, failed>>
    PROVE  /\ entry'[Root] = "listed" /\ LinkInv' /\ ShownInv'
           /\ pc # "load" /\ pc' # "load" => RootInv'
BY DEF IInv, CallInv, LinkInv, ShownInv, RootInv, Plain, Listing, Children, IndexOf

\* A step up leaves the index file of a directory the same, until it is passed.
LEMMA StepUp ==
    ASSUME IInv, pc # "load", NEW next, at \in Names, loadCache(next)
    PROVE  /\ at' \in Names \cup {None}
           /\ pc' = next \/ (pc' = pc /\ at' \in Dirs)
           /\ Root \notin failed' =>
                \/ pc' = pc /\ IndexOf(at') = IndexOf(at)
                \/ IndexOf(at) \in gzRead' \cup missed'
<1>1. /\ loadDirContents(at) /\ TypeOK /\ entry'[Root] = "listed" /\ gz' = gz
      /\ failed \subseteq failed'
      /\ HasGz(at) => at \in gzRead' \cup missed'
    BY LoadKeeps DEF loadCache, IInv
<1>2. CASE HasGz(at) /\ entry'[at] # "none"
  <2>1. IndexOf(at) = at
      BY <1>1, <1>2, UpTheTree DEF HasGz, IndexOf, TypeOK
  <2> QED BY <1>1, <1>2, <2>1 DEF loadCache
<1>3. CASE ~(HasGz(at) /\ entry'[at] # "none")
  <2>1. at # Root /\ pc' = pc /\ at' = Parent[at] /\ at' \in Dirs
      BY <1>1, <1>3, UpTheTree DEF loadCache, HasGz
  <2>2. CASE HasGz(at)
    <3>1. IndexOf(at) = at
        BY <1>1, <2>2, UpTheTree DEF HasGz, IndexOf, TypeOK
    <3> QED BY <1>1, <2>1, <2>2, <3>1, UpTheTree
  <2>3. CASE ~HasGz(at)
    <3>1. Root \notin failed' => at \notin StorageDirs
        BY <1>1, <2>1, <2>3 DEF HasGz, IInv, RootInv
    <3> QED BY <2>1, <3>1, UpTheTree
  <2> QED BY <2>2, <2>3
<1> QED
    BY <1>2, <1>3

\* Both walks of a call.
LEMMA WalkKeepsInv == IInv /\ (findEntry \/ FillDir) => IInv'
<1> SUFFICES ASSUME IInv, findEntry \/ FillDir PROVE IInv'
    OBVIOUS
<1>1. PICK next \in {"found", "list"} :
          /\ loadCache(next)
          /\ next = "found" => pc = "find"
          /\ next = "list" => pc = "fill"
          /\ UNCHANGED <<use, known, call, passVars>>
    BY DEF findEntry, FillDir
<1>2. TypeOK /\ CallInv /\ pc # "load" /\ at \in Names
    BY <1>1 DEF IInv, CallInv, TypeOK
<1>3. /\ TreeTyped' /\ entry'[Root] = "listed" /\ LinkInv' /\ ShownInv'
      /\ Root \in gzRead' /\ gz' = gz
      /\ gzRead \subseteq gzRead' /\ missed \subseteq missed'
      /\ failed \subseteq failed'
    BY <1>1, <1>2, LoadKeeps DEF loadCache
<1>4. /\ at' \in Names \cup {None}
      /\ pc' = next \/ (pc' = pc /\ at' \in Dirs)
      /\ Root \notin failed' =>
           \/ pc' = pc /\ IndexOf(at') = IndexOf(at)
           \/ IndexOf(at) \in gzRead' \cup missed'
    BY <1>1, <1>2, StepUp
<1>5. TypeOK'
    BY <1>1, <1>2, <1>3, <1>4 DEF TypeOK, TreeTyped, passVars
<1>6. CallInv' /\ RootInv'
    BY <1>1, <1>2, <1>3, <1>4, UpTheTree DEF CallInv, RootInv, IInv
<1>7. IndexOf(call.path)' = IndexOf(call.path) /\ IndexOf(at)' = IndexOf(at')
    BY <1>1 DEF IndexOf
<1>8. FillInv'
    BY <1>1, <1>2, <1>3, <1>4, <1>7 DEF FillInv, IInv
<1> QED
    BY <1>3, <1>5, <1>6, <1>8 DEF IInv

\* The steps of a call that do not touch the tree.
LEMMA CallKeepsInv ==
    IInv /\ (getattrCB \/ readdirCB \/ ListDir
             \/ \E op \in {"getattr", "readdir"}, p \in Names : Call(op, p)) => IInv'
<1> SUFFICES ASSUME IInv,
                    \/ getattrCB \/ readdirCB \/ ListDir
                    \/ \E op \in {"getattr", "readdir"}, p \in Names : Call(op, p)
             PROVE IInv'
    OBVIOUS
<1>1. TypeOK /\ CallInv /\ RootInv /\ LinkInv /\ FillInv
    BY DEF IInv
<1>2. /\ entry'[Root] = "listed" /\ LinkInv' /\ ShownInv'
      /\ pc # "load" /\ pc' # "load" => RootInv'
    BY TreeUnchanged DEF getattrCB, readdirCB, ListDir, Call, treeVars
<1>3. CASE getattrCB
    BY <1>1, <1>2, <1>3 DEF getattrCB, IInv, TypeOK, CallInv, FillInv, treeVars, passVars
<1>4. CASE ListDir
    BY <1>1, <1>2, <1>4 DEF ListDir, IInv, TypeOK, CallInv, FillInv, treeVars, passVars
<1>5. CASE readdirCB
  <2>1. TypeOK' /\ CallInv' /\ RootInv'
      BY <1>1, <1>2, <1>5, UpTheTree
      DEF readdirCB, TypeOK, CallInv, treeVars, passVars
  <2>2. FillInv'
      BY <1>1, <1>5 DEF readdirCB, FillInv, LinkInv, CallInv, IndexOf, treeVars,
         Plain, Listing, Children
  <2> QED BY <1>2, <2>1, <2>2 DEF IInv
<1>6. ASSUME NEW op \in {"getattr", "readdir"}, NEW p \in Names, Call(op, p) PROVE IInv'
  <2>1. /\ call' = [op |-> op, path |-> p]
        /\ op = "readdir" => p \in Dirs
      BY <1>1, <1>6, UpTheTree DEF Call, TypeOK
  <2>5. /\ call'.op = op /\ call'.path = p /\ p # None
        /\ call' \in [op : {"getattr", "readdir"}, path : Names]
      BY <2>1, UpTheTree
  <2>2. \/ pc' = "find" /\ at' = p
        \/ pc' = "found" /\ at' = None
      BY <1>6 DEF Call
  <2>3. TypeOK'
      BY <1>1, <1>6, <2>2, <2>5 DEF Call, TypeOK, passVars
  <2>4. CallInv' /\ FillInv' /\ RootInv'
      BY <1>1, <1>2, <1>6, <2>1, <2>2, <2>5 DEF Call, CallInv, FillInv
  <2> QED BY <1>2, <2>3, <2>4 DEF IInv
<1> QED
    BY <1>3, <1>4, <1>5, <1>6

\* The steps of a restore.
LEMMA PassKeepsInv == IInv /\ (StartRecurse \/ PassStep) => IInv'
<1> SUFFICES ASSUME IInv, StartRecurse \/ PassStep PROVE IInv'
    OBVIOUS
<1>1. TypeOK /\ CallInv /\ RootInv /\ LinkInv /\ FillInv /\ Root \in Dirs
    BY UpTheTree DEF IInv
<1>2. CASE StartRecurse
  <2>1. /\ entry'[Root] = "listed" /\ LinkInv' /\ ShownInv'
        /\ pc # "load" /\ pc' # "load" => RootInv'
      BY <1>2, TreeUnchanged DEF StartRecurse
  <2>2. TypeOK'
      BY <1>1, <1>2 DEF StartRecurse, TypeOK, callVars, Zero
  <2>3. CallInv' /\ FillInv' /\ RootInv'
      BY <1>2, <2>1 DEF StartRecurse, CallInv, FillInv
  <2> QED BY <2>1, <2>2, <2>3 DEF IInv
<1>3. CASE LeaveDir
  <2>1. /\ entry'[Root] = "listed" /\ LinkInv' /\ ShownInv'
        /\ pc # "load" /\ pc' # "load" => RootInv'
      BY <1>3, TreeUnchanged DEF LeaveDir, treeVars
  <2>2. stack' \in Seq(Dirs)
      BY <1>1, <1>3 DEF LeaveDir, TypeOK
  <2>3. seen' \in [Names -> Nat]
      BY <1>1, <1>3 DEF LeaveDir, TypeOK
  <2>4. TypeOK'
      BY <1>1, <1>3, <2>2, <2>3 DEF LeaveDir, TypeOK, callVars, treeVars
  <2>5. CallInv' /\ FillInv' /\ RootInv'
      BY <1>3, <2>1 DEF LeaveDir, CallInv, FillInv
  <2> QED BY <2>1, <2>4, <2>5 DEF IInv
<1>4. ASSUME NEW d \in Dirs, recurseInto(d) PROVE IInv'
  <2>1. pc = "recurse" /\ pc' = "recurse" /\ loadDirContents(d)
      BY <1>4 DEF recurseInto
  <2>2. /\ TreeTyped' /\ entry'[Root] = "listed" /\ LinkInv' /\ ShownInv'
        /\ Root \in gzRead' /\ gz' = gz /\ failed \subseteq failed'
      BY <2>1, LoadKeeps
  <2>3. stack' \in Seq(Dirs) /\ done' \in [Names -> Nat]
      BY <1>1, <1>4 DEF recurseInto, TypeOK
  <2>4. TypeOK'
      BY <1>1, <1>4, <2>2, <2>3 DEF recurseInto, TypeOK, TreeTyped, callVars
  <2>5. CallInv' /\ FillInv' /\ RootInv'
      BY <1>1, <2>1, <2>2 DEF CallInv, FillInv, RootInv
  <2> QED BY <2>2, <2>4, <2>5 DEF IInv
<1> QED
    BY <1>2, <1>3, <1>4 DEF PassStep

LEMMA InvInit == Init => IInv
<1> SUFFICES ASSUME Init PROVE IInv
    OBVIOUS
<1>1. TypeOK /\ ShownInv
    BY UpTheTree DEF Init, TypeOK, ShownInv, Zero
<1>2. CallInv /\ RootInv /\ FillInv
    BY UpTheTree DEF Init, CallInv, RootInv, FillInv
<1>3. LinkInv
    BY UpTheTree DEF Init, LinkInv, Zero, Children, Names
<1> QED
    BY <1>1, <1>2, <1>3 DEF IInv

LEMMA InvStep == IInv /\ [Next]_vars => IInv'
<1> SUFFICES ASSUME IInv, [Next]_vars PROVE IInv'
    OBVIOUS
<1>1. CASE UNCHANGED vars
  <2>1. LinkInv' /\ ShownInv' /\ CallInv' /\ RootInv'
      BY <1>1 DEF vars, treeVars, callVars, IInv, CallInv, RootInv, LinkInv, ShownInv,
         Plain, Listing, Children, IndexOf
  <2>2. TypeOK' /\ FillInv'
      BY <1>1 DEF vars, treeVars, callVars, passVars, IInv, TypeOK, FillInv,
         Plain, Listing, Children, IndexOf
  <2> QED BY <2>1, <2>2 DEF IInv
<1> QED
    BY <1>1, RootLoadKeepsInv, WalkKeepsInv, CallKeepsInv, PassKeepsInv
    DEF Next, CallStep

\* Every variable keeps its type.
THEOREM TypeCorrect == Spec => []TypeOK
<1>1. IInv => TypeOK
    BY DEF IInv
<1> QED
    BY <1>1, InvInit, InvStep, PTL DEF Spec

\* A directory of a mount shows every file and directory in it once, whatever was
\* asked before and whatever could not be read before, if its index file can be
\* read; nothing is shown that cannot be looked up.
THEOREM MountShowsBackup == Spec => []ReaddirIsExact
<1>1. IInv => ReaddirIsExact
  <2> SUFFICES ASSUME IInv, pc = "list", NEW c \in Children(call.path)
               PROVE  /\ linked[c] > 0 => entry[c] = "listed"
                      /\ Plain(call.path) =>
                           /\ linked[c] <= 1
                           /\ {Root, IndexOf(call.path)} \cap Missing = {} => linked[c] = 1
      BY DEF ReaddirIsExact
  <2>1. call.path \in Dirs /\ c \in Names
      BY UpTheTree DEF IInv, CallInv, Children
  <2>2. linked[c] > 0 => entry[c] = "listed"
      BY <2>1 DEF IInv, ShownInv
  <2>3. ASSUME Plain(call.path)
        PROVE  linked[c] = IF IndexOf(call.path) \in gzRead \ failed THEN 1 ELSE 0
      BY <2>1, <2>3 DEF IInv, LinkInv
  <2>4. ASSUME Plain(call.path), {Root, IndexOf(call.path)} \cap Missing = {}
        PROVE  IndexOf(call.path) \in gzRead \ failed
      BY <2>4 DEF IInv, FillInv, Missing
  <2> QED BY <2>2, <2>3, <2>4
<1> QED
    BY <1>1, InvInit, InvStep, PTL DEF Spec

-----------------------------------------------------------------------------
(* The tree                                                                *)

\* Among finite sets there is one with no other inside it.
LEMMA SmallestSet ==
    ASSUME NEW T, T # {}, \A A \in T : IsFiniteSet(A)
    PROVE  \E A \in T : \A B \in T : ~(B \subseteq A /\ B # A)
<1> DEFINE U == UNION T
           R == StrictSubsetOrdering(U)
<1>1. T \subseteq FiniteSubsetsOf(U)
    BY DEF FiniteSubsetsOf
<1>2. IsWellFoundedOn(R, FiniteSubsetsOf(U))
    BY FS_StrictSubsetOrderingWellFounded
<1>3. PICK A \in T : \A B \in T : ~(<<B, A>> \in R)
    <2> DEFINE FS == FiniteSubsetsOf(U)
    <2>1. T \subseteq FS /\ IsWellFoundedOn(R, FS)
        BY <1>1, <1>2
    <2> HIDE DEF R, FS
    <2> QED BY <2>1, WFMin
<1>4. ASSUME NEW B \in T, B \subseteq A, B # A PROVE FALSE
    <2>1. <<B, A>> \in R
        BY <1>4 DEF StrictSubsetOrdering
    <2> QED BY <1>3, <2>1
<1> QED
    BY <1>4

\* What holds of the root, and of a path if it holds of the directory it is in, holds
\* of every path: a counterexample with the fewest directories above it has none.
LEMMA TreeInduction ==
    ASSUME NEW S, Root \in S, \A p \in Names \ {Root} : Parent[p] \in S => p \in S
    PROVE  Names \subseteq S
<1> DEFINE B == Names \ S
           T == {Above[p] : p \in B}
<1> SUFFICES ASSUME B # {} PROVE FALSE
    OBVIOUS
<1>1. \A A \in T : IsFiniteSet(A)
    BY TreeAssumption, FS_Subset
<1>2. T # {}
    OBVIOUS
<1>3. PICK A \in T : \A C \in T : ~(C \subseteq A /\ C # A)
    <2> HIDE DEF T
    <2> QED BY <1>1, <1>2, SmallestSet
<1>4. PICK p \in B : A = Above[p]
    BY <1>3
<1>5. p \in Names \ {Root} /\ Parent[p] \in B
    BY <1>4, TreeAssumption DEF Names
<1>6. Above[Parent[p]] \subseteq A /\ Above[Parent[p]] # A
    BY <1>4, <1>5, TreeAssumption
<1> QED
    BY <1>3, <1>5, <1>6

\* What is above a directory is above all that is below it.
LEMMA AboveIsTransitive ==
    \A p \in Names : \A q \in Above[p] : Above[q] \subseteq Above[p]
<1> DEFINE S == {p \in Names : \A q \in Above[p] : Above[q] \subseteq Above[p]}
<1>1. Root \in S
    BY TreeAssumption DEF Names
<1>2. \A p \in Names \ {Root} : Parent[p] \in S => p \in S
    BY TreeAssumption
<1> HIDE DEF S
<1>3. Names \subseteq S
    BY <1>1, <1>2, TreeInduction
<1> QED
    BY <1>3 DEF S

\* Two directories above a path are one above the other.
LEMMA AboveIsAChain ==
    \A p \in Names : \A a, b \in Above[p] : a = b \/ a \in Above[b] \/ b \in Above[a]
<1> DEFINE S == {p \in Names : \A a, b \in Above[p] : a = b \/ a \in Above[b] \/ b \in Above[a]}
<1>1. Root \in S
    BY TreeAssumption DEF Names
<1>2. \A p \in Names \ {Root} : Parent[p] \in S => p \in S
    BY TreeAssumption
<1> HIDE DEF S
<1>3. Names \subseteq S
    BY <1>1, <1>2, TreeInduction
<1> QED
    BY <1>3 DEF S

\* The root is above every other path.
LEMMA RootIsAbove == \A p \in Names \ {Root} : Root \in Above[p]
<1> DEFINE S == {p \in Names : p # Root => Root \in Above[p]}
<1>1. Root \in S
    BY TreeAssumption DEF Names
<1>2. \A p \in Names \ {Root} : Parent[p] \in S => p \in S
    BY TreeAssumption
<1> HIDE DEF S
<1>3. Names \subseteq S
    BY <1>1, <1>2, TreeInduction
<1> QED
    BY <1>3 DEF S

\* The nearest storage directory above a path: no other is nearer.
LEMMA HomeIsNearest ==
    \A p \in Names \ {Root} :
        /\ Home[p] \in StorageDirs \cap Above[p]
        /\ StorageDirs \cap Above[p] \subseteq {Home[p]} \cup Above[Home[p]]
<1> DEFINE S == {p \in Names : p # Root =>
                    /\ Home[p] \in StorageDirs \cap Above[p]
                    /\ StorageDirs \cap Above[p] \subseteq {Home[p]} \cup Above[Home[p]]}
<1>1. Root \in S
    BY TreeAssumption DEF Names
<1>2. ASSUME NEW p \in Names \ {Root}, Parent[p] \in S PROVE p \in S
  <2>1. Above[p] = {Parent[p]} \cup Above[Parent[p]]
      BY TreeAssumption
  <2>2. CASE Parent[p] \in StorageDirs
      BY <2>1, <2>2, HomeAssumption
  <2>3. CASE Parent[p] \notin StorageDirs
      BY <1>2, <2>1, <2>3, TreeAssumption, HomeAssumption
  <2> QED BY <2>2, <2>3
<1> HIDE DEF S
<1>3. Names \subseteq S
    BY <1>1, <1>2, TreeInduction
<1> QED
    BY <1>3 DEF S

\* The way down from a directory to a path below it starts at one of its children.
LEMMA WayDown ==
    \A p \in Names : \A d \in Above[p] :
        \E c \in {p} \cup Above[p] : c # Root /\ Parent[c] = d
<1> DEFINE S == {p \in Names : \A d \in Above[p] :
                    \E c \in {p} \cup Above[p] : c # Root /\ Parent[c] = d}
<1>1. Root \in S
    BY TreeAssumption DEF Names
<1>2. \A p \in Names \ {Root} : Parent[p] \in S => p \in S
    BY TreeAssumption
<1> HIDE DEF S
<1>3. Names \subseteq S
    BY <1>1, <1>2, TreeInduction
<1> QED
    BY <1>3 DEF S

-----------------------------------------------------------------------------
(* What is listed where                                                    *)

\* There is a nearest storage directory above both ends of a hard link.
LEMMA LinkHomeIsAbove ==
    \A l \in CrossLinks : LinkHome(l) \in StorageDirs \cap Above[l] \cap Above[LinkTarget[l]]
<1> SUFFICES ASSUME NEW l \in CrossLinks
             PROVE LinkHome(l) \in StorageDirs \cap Above[l] \cap Above[LinkTarget[l]]
    OBVIOUS
<1> DEFINE common == StorageDirs \cap Above[l] \cap Above[LinkTarget[l]]
           T == {Dirs \ Above[s] : s \in common}
<1>1. l \in Names \ {Root} /\ LinkTarget[l] \in Names \ {Root}
    BY LinkAssumption, TreeAssumption DEF CrossLinks, Names
<1>2. Root \in common
    BY <1>1, RootIsAbove, TreeAssumption
<1>3. \A A \in T : IsFiniteSet(A)
    BY TreeAssumption, FS_Subset
<1>4. PICK A \in T : \A B \in T : ~(B \subseteq A /\ B # A)
    <2>1. T # {}
        BY <1>2
    <2> HIDE DEF T
    <2> QED BY <1>3, <2>1, SmallestSet
<1>5. PICK s \in common : A = Dirs \ Above[s]
    BY <1>4
<1>6. ASSUME NEW t \in common PROVE t \in Above[s] \cup {s}
  <2>1. t = s \/ t \in Above[s] \/ s \in Above[t]
      BY <1>1, AboveIsAChain
  <2>2. ASSUME s \in Above[t] PROVE FALSE
    <3>1. s \in Dirs /\ s \in Names /\ t \in Names
        BY TreeAssumption, UpTheTree
    <3>2. Above[s] \subseteq Above[t] /\ s \notin Above[s]
        BY <2>2, <3>1, AboveIsTransitive, TreeAssumption
    <3>3. Dirs \ Above[t] \subseteq A /\ Dirs \ Above[t] # A
        BY <1>5, <2>2, <3>1, <3>2
    <3> QED BY <1>4, <3>3
  <2> QED BY <2>1, <2>2
<1>7. \E t \in common : \A u \in common : u \in Above[t] \cup {t}
    BY <1>6
<1> HIDE DEF common
<1>8. LinkHome(l) = CHOOSE t \in common : \A u \in common : u \in Above[t] \cup {t}
    BY DEF LinkHome, common
<1>9. LinkHome(l) \in common
    BY <1>7, <1>8
<1> QED
    BY <1>9 DEF common

\* How a path comes to be in an index file.
LEMMA ReasonsToList ==
    ASSUME NEW s, NEW p, Listing(s, p) > 0
    PROVE  /\ p \in Paths \ {Root}
           /\ \/ p \in CrossLinks /\ LinkHome(p) = s
              \/ Home[p] = s
              \/ \E l \in CrossLinks : LinkHome(l) = s /\ p \in CopiedWith(l)
<1> DEFINE L == {l \in CrossLinks : LinkHome(l) = s /\ p \in CopiedWith(l)}
<1>1. CASE L = {}
  <2>1. Cardinality(L) = 0
      BY <1>1, FS_EmptySet
  <2>2. Listing(s, p) = 0 + IF p \in CrossLinks THEN IF LinkHome(p) = s THEN 1 ELSE 0
                            ELSE IF p \in Paths \ {Root} /\ Home[p] = s THEN 1 ELSE 0
      BY <2>1 DEF Listing
  <2> QED BY <2>2, LinkAssumption, TreeAssumption DEF CrossLinks
<1>2. CASE L # {}
    BY <1>2, LinkAssumption, TreeAssumption DEF CopiedWith, CrossLinks, Names
<1> QED
    BY <1>1, <1>2

\* A directory that is copied with a hard link is below the index file it left.
LEMMA CopiedIsBelow ==
    ASSUME NEW l \in CrossLinks, NEW p \in CopiedWith(l)
    PROVE  /\ p \in Dirs /\ p \notin StorageDirs
           /\ LinkHome(l) \in Above[p]
<1>1. l \in Names \ {Root} /\ p \in Above[l] /\ p \in Dirs
    BY LinkAssumption, TreeAssumption DEF CrossLinks, CopiedWith, Names
<1>2. /\ Home[l] \in StorageDirs \cap Above[l]
      /\ StorageDirs \cap Above[l] \subseteq {Home[l]} \cup Above[Home[l]]
    BY <1>1, HomeIsNearest
<1>3. p \notin {Home[l]} \cup Above[Home[l]]
    BY DEF CopiedWith
<1>4. Home[l] \in Above[p]
    BY <1>1, <1>2, <1>3, AboveIsAChain
<1>5. LinkHome(l) \in Above[Home[l]]
    BY <1>2, LinkHomeIsAbove DEF CrossLinks
<1>6. Above[Home[l]] \subseteq Above[p]
    BY <1>1, <1>4, AboveIsTransitive, UpTheTree
<1> QED
    BY <1>1, <1>2, <1>3, <1>5, <1>6

\* An index file lists what is below it only.
LEMMA ListedIsBelow ==
    ASSUME NEW s, NEW p, Listing(s, p) > 0
    PROVE  p \in Paths \ {Root} /\ s \in StorageDirs /\ s \in Above[p]
<1>1. p \in Paths \ {Root} /\ p \in Names \ {Root}
    BY ReasonsToList DEF Names
<1>2. CASE p \in CrossLinks /\ LinkHome(p) = s
    BY <1>1, <1>2, LinkHomeIsAbove
<1>3. CASE Home[p] = s
    BY <1>1, <1>3, HomeIsNearest
<1>4. ASSUME NEW l \in CrossLinks, LinkHome(l) = s, p \in CopiedWith(l)
      PROVE  s \in StorageDirs /\ s \in Above[p]
    BY <1>4, CopiedIsBelow, LinkHomeIsAbove
<1> QED
    BY <1>1, <1>2, <1>3, <1>4, ReasonsToList

\* A storage directory is listed by the next one above it alone.
LEMMA StorageDirListing ==
    ASSUME NEW s, NEW d \in StorageDirs, Listing(s, d) > 0
    PROVE  Home[d] = s
BY ReasonsToList, CopiedIsBelow, LinkAssumption, TreeAssumption DEF CrossLinks

-----------------------------------------------------------------------------
(* Looking a name up                                                       *)

\* What the tree has of a path, and which index files that came from: one that was
\* read to its end leaves an entry for all that it lists, and a storage directory
\* is listed by the next one above it alone.
EntryInv ==
    /\ \A p \in Absent : entry[p] = "none"
    /\ \A p \in Paths : entry[p] = "none" => \A s \in gzRead \ failed : Listing(s, p) = 0
    /\ \A d \in StorageDirs \ {Root} : entry[d] = "listed" => Home[d] \in gzRead

\* Above a storage directory the kernel has found every index file was tried.
KnownInv ==
    \A d \in known :
        /\ entry[d] = "listed" /\ Above[d] \subseteq known
        /\ d \in StorageDirs => StorageDirs \cap Above[d] \subseteq gzRead

\* The walk that looks a name up has not passed the nearest storage directory
\* above it without trying its index file.
LookupInv ==
    /\ pc \in {"find", "found"} =>
           IF call.op = "getattr" THEN call.path # Root /\ Parent[call.path] \in known
                                  ELSE pc = "found" /\ call.path \in known
    /\ Root \notin failed =>
        /\ pc = "find" => \/ at = call.path \/ IndexOf(at) = Home[call.path]
                          \/ Home[call.path] \in gzRead \cup missed
        /\ pc = "found" /\ call.op = "getattr" =>
               \/ entry[call.path] # "none"
               \/ Home[call.path] \in gzRead \cup missed

\* One index file lists the path, and lists it once.
ListedOnce(p) ==
    \A s, t \in StorageDirs :
        Listing(s, p) > 0 /\ Listing(t, p) > 0 => s = t /\ Listing(s, p) = 1

\* A directory has what the index files that were read list.
LinkedInv ==
    \A p \in Paths \ {Root} :
        /\ \A s \in gzRead \ failed : Listing(s, p) > 0 => linked[p] > 0
        /\ ListedOnce(p) =>
             /\ linked[p] <= 1
             /\ linked[p] > 0 => \E s \in gzRead \ failed : Listing(s, p) > 0

\* What an index file leaves, read to its end or not.
LEMMA IndexKeepsEntries ==
    ASSUME TypeOK, entry[Root] = "listed", EntryInv, LinkedInv,
           NEW s \in StorageDirs, s \notin gzRead,
           ReadIndex(s) \/ CutIndex(s), gzRead' = gzRead \cup {s}
    PROVE  /\ EntryInv' /\ LinkedInv'
           /\ \A p \in Names : /\ entry[p] # "none" => entry'[p] # "none"
                               /\ entry[p] = "listed" => entry'[p] = "listed"
<1>1. /\ \A p \in Listed(s) : p \in Paths \ {Root} /\ p \in Names /\ p \notin Absent
                              /\ Parent[p] \in Dirs
      /\ Dirs \cap Absent = {}
    BY TreeAssumption DEF Listed, Names
<1>2. /\ StorageDirs \subseteq Paths /\ Paths \subseteq Names /\ Absent \subseteq Names
      /\ StorageDirs \subseteq Names
    BY TreeAssumption, UpTheTree DEF Names
<1>3. \A p \in Names : Listing(s, p) > 0 <=> p \in Listed(s)
    BY ListedIsBelow DEF Listed
<1>4. \A t, p : Listing(t, p) \in Nat
    BY ListingIsNat
<1>5. CASE ReadIndex(s)
  <2>1. \A p \in Names :
            entry'[p] = IF p \in Listed(s) THEN "listed"
                        ELSE IF entry[p] = "none" /\ \E c \in Listed(s) : Parent[c] = p
                             THEN "blank" ELSE entry[p]
      BY <1>5 DEF ReadIndex
  <2>2. \A p \in Names : linked'[p] = linked[p] + Listing(s, p)
      BY <1>5 DEF ReadIndex
  <2>3. failed' = failed /\ s \notin failed
      BY <1>5 DEF ReadIndex, TypeOK
  <2>4. \A p \in Absent : entry'[p] = "none"
      BY <1>1, <1>2, <2>1 DEF EntryInv
  <2>5. ASSUME NEW p \in Paths, entry'[p] = "none", NEW t \in gzRead' \ failed'
        PROVE  Listing(t, p) = 0
    <3>1. entry[p] = "none" /\ p \notin Listed(s) /\ p \in Names
        BY <1>2, <2>1, <2>5
    <3> QED BY <1>3, <1>4, <2>3, <2>5, <3>1 DEF EntryInv
  <2>6. ASSUME NEW d \in StorageDirs \ {Root}, entry'[d] = "listed"
        PROVE  Home[d] \in gzRead'
    <3>1. CASE d \in Listed(s)
        BY <3>1, <1>2, <1>3, StorageDirListing
    <3>2. CASE d \notin Listed(s)
        BY <3>2, <1>2, <2>1, <2>6 DEF EntryInv
    <3> QED BY <3>1, <3>2
  <2>7. EntryInv'
      BY <2>4, <2>5, <2>6 DEF EntryInv, Listing, CrossLinks, LinkHome, CopiedWith
  <2>8. ASSUME NEW p \in Paths \ {Root}
        PROVE  /\ \A t \in gzRead' \ failed' : Listing(t, p) > 0 => linked'[p] > 0
               /\ ListedOnce(p) =>
                    /\ linked'[p] <= 1
                    /\ linked'[p] > 0 => \E t \in gzRead' \ failed' : Listing(t, p) > 0
    <3>1. linked[p] \in Nat /\ linked'[p] = linked[p] + Listing(s, p) /\ Listing(s, p) \in Nat
        BY <1>2, <1>4, <2>2 DEF TypeOK
    <3>2. \A t \in gzRead' \ failed' : Listing(t, p) > 0 => linked'[p] > 0
        BY <3>1, <2>3 DEF LinkedInv
    <3>3. ASSUME ListedOnce(p), Listing(s, p) > 0 PROVE linked[p] = 0 /\ Listing(s, p) = 1
      <4>1. \A t \in StorageDirs : Listing(t, p) > 0 => t = s
          BY <3>3 DEF ListedOnce
      <4>2. \A t \in gzRead \ failed : ~(Listing(t, p) > 0)
          BY <4>1, UpTheTree DEF TypeOK
      <4> QED BY <3>1, <3>3, <4>2 DEF LinkedInv, ListedOnce
    <3>4. ASSUME ListedOnce(p)
          PROVE  /\ linked'[p] <= 1
                 /\ linked'[p] > 0 => \E t \in gzRead' \ failed' : Listing(t, p) > 0
      <4>1. CASE Listing(s, p) > 0
          BY <4>1, <3>1, <3>3, <3>4, <2>3
      <4>2. CASE ~(Listing(s, p) > 0)
          BY <4>2, <3>1, <3>4, <2>3 DEF LinkedInv
      <4> QED BY <4>1, <4>2
    <3> QED BY <3>2, <3>4
  <2>9. LinkedInv'
      BY <2>8 DEF LinkedInv, ListedOnce, Listing, CrossLinks, LinkHome, CopiedWith
  <2> QED BY <2>1, <2>7, <2>9 DEF TypeOK
<1>6. CASE CutIndex(s)
  <2>1. PICK some \in SUBSET Listed(s) :
            entry' = [p \in Names |-> IF p \in some THEN "listed" ELSE entry[p]]
      BY <1>6 DEF CutIndex
  <2>2. linked' = linked /\ gzRead' \ failed' = gzRead \ failed
      BY <1>6 DEF CutIndex
  <2>3. \A p \in Absent : entry'[p] = "none"
      BY <1>1, <1>2, <2>1 DEF EntryInv
  <2>4. ASSUME NEW p \in Paths, entry'[p] = "none" PROVE entry[p] = "none"
      BY <1>2, <2>1, <2>4
  <2>5. ASSUME NEW d \in StorageDirs \ {Root}, entry'[d] = "listed"
        PROVE  Home[d] \in gzRead'
    <3>1. CASE d \in Listed(s)
        BY <3>1, <1>2, <1>3, StorageDirListing
    <3>2. CASE d \notin Listed(s)
        BY <3>2, <1>2, <2>1, <2>5 DEF EntryInv
    <3> QED BY <3>1, <3>2
  <2>6. EntryInv'
      BY <2>2, <2>3, <2>4, <2>5 DEF EntryInv, Listing, CrossLinks, LinkHome, CopiedWith
  <2>7. ASSUME NEW p \in Paths \ {Root}
        PROVE  /\ \A t \in gzRead' \ failed' : Listing(t, p) > 0 => linked'[p] > 0
               /\ ListedOnce(p) =>
                    /\ linked'[p] <= 1
                    /\ linked'[p] > 0 => \E t \in gzRead' \ failed' : Listing(t, p) > 0
      BY <2>2 DEF LinkedInv
  <2>8. LinkedInv'
      BY <2>7 DEF LinkedInv, ListedOnce, Listing, CrossLinks, LinkHome, CopiedWith
  <2> QED BY <2>1, <2>6, <2>8
<1> QED
    BY <1>5, <1>6

\* Loading what is in a directory takes no entry away.
LEMMA LoadKeepsEntries ==
    ASSUME IInv, EntryInv, LinkedInv, NEW d, loadDirContents(d)
    PROVE  /\ EntryInv' /\ LinkedInv'
           /\ \A p \in Names : /\ entry[p] # "none" => entry'[p] # "none"
                               /\ entry[p] = "listed" => entry'[p] = "listed"
<1>1. TypeOK /\ entry[Root] = "listed"
    BY DEF IInv, CallInv
<1>2. CASE UNCHANGED <<entry, linked, gzRead, failed>>
    BY <1>2 DEF EntryInv, LinkedInv, ListedOnce, Listing, CrossLinks, LinkHome, CopiedWith
<1>3. CASE HasGz(d) /\ d \notin gzRead /\ (ReadIndex(d) \/ CutIndex(d)) /\ gzRead' = gzRead \cup {d}
  <2>1. d \in StorageDirs
      BY <1>1, <1>3, UpTheTree DEF HasGz, TypeOK
  <2> QED BY <1>1, <1>3, <2>1, IndexKeepsEntries
<1> QED
    BY <1>2, <1>3 DEF loadDirContents, loadGz, treeVars

\* What is known of the tree when a call is answered.
CallsInv == EntryInv /\ LinkedInv /\ KnownInv /\ LookupInv

\* The kernel does not forget a directory, and its entry stays as it is.
LEMMA KnownKept ==
    ASSUME KnownInv, known' = known, gzRead \subseteq gzRead', known \subseteq Names,
           \A p \in Names : entry[p] = "listed" => entry'[p] = "listed"
    PROVE  KnownInv'
BY DEF KnownInv

\* Nothing is read and nothing is being looked up afterwards.
LEMMA NothingRead ==
    ASSUME CallsInv, UNCHANGED <<entry, linked, gzRead, failed, known>>,
           pc' \notin {"find", "found"}
    PROVE  CallsInv'
<1>1. EntryInv' /\ LinkedInv'
    BY DEF CallsInv, EntryInv, LinkedInv, ListedOnce, Listing, CrossLinks, LinkHome, CopiedWith
<1>2. KnownInv' /\ LookupInv'
    BY DEF CallsInv, KnownInv, LookupInv
<1> QED
    BY <1>1, <1>2 DEF CallsInv

\* The walk up from a name that has no entry.
LEMMA FindKeepsCalls == IInv /\ CallsInv /\ findEntry => CallsInv'
<1> SUFFICES ASSUME IInv, CallsInv, findEntry PROVE CallsInv'
    OBVIOUS
<1>1. /\ pc = "find" /\ loadCache("found") /\ loadDirContents(at)
      /\ call' = call /\ known' = known
    BY DEF findEntry, loadCache
<1>2. TypeOK /\ at \in Names /\ known \subseteq Names
    BY <1>1, UpTheTree DEF IInv, CallInv, TypeOK
<1>3. /\ EntryInv' /\ LinkedInv'
      /\ \A p \in Names : /\ entry[p] # "none" => entry'[p] # "none"
                          /\ entry[p] = "listed" => entry'[p] = "listed"
    BY <1>1, LoadKeepsEntries DEF CallsInv
<1>4. /\ gzRead \subseteq gzRead' /\ missed \subseteq missed' /\ failed \subseteq failed'
    BY <1>1, LoadKeeps
<1>5. KnownInv'
    BY <1>1, <1>2, <1>3, <1>4, KnownKept DEF CallsInv
<1>6. call.op = "getattr" /\ call.path \in Names \ {Root} /\ Parent[call.path] \in known
    BY <1>1 DEF CallsInv, LookupInv, IInv, CallInv
<1>7. Home[call.path] = IndexOf(Parent[call.path])
    BY <1>6, HomeAssumption DEF IndexOf
<1>8. /\ pc' = "found" \/ (pc' = pc /\ at' \in Dirs)
      /\ Root \notin failed' =>
           \/ pc' = pc /\ IndexOf(at') = IndexOf(at)
           \/ IndexOf(at) \in gzRead' \cup missed'
    BY <1>1, <1>2, StepUp
<1>9. ASSUME Root \notin failed'
      PROVE  /\ pc' = "find" => \/ at' = call.path \/ IndexOf(at') = Home[call.path]
                                \/ Home[call.path] \in gzRead' \cup missed'
             /\ pc' = "found" => \/ entry'[call.path] # "none"
                                 \/ Home[call.path] \in gzRead' \cup missed'
  <2>1. \/ at = call.path \/ IndexOf(at) = Home[call.path]
        \/ Home[call.path] \in gzRead \cup missed
      BY <1>1, <1>4, <1>9 DEF CallsInv, LookupInv
  <2>2. CASE Home[call.path] \in gzRead \cup missed
      BY <2>2, <1>4
  <2>3. CASE IndexOf(at) = Home[call.path]
      BY <2>3, <1>1, <1>8, <1>9
  <2>4. CASE at = call.path
      BY <2>4, <1>1, <1>7 DEF loadCache
  <2> QED BY <2>1, <2>2, <2>3, <2>4
<1>10. IndexOf(at)' = IndexOf(at')
    BY DEF IndexOf
<1>11. LookupInv'
    BY <1>1, <1>6, <1>9, <1>10 DEF LookupInv
<1> QED
    BY <1>3, <1>5, <1>11 DEF CallsInv

\* Every step that reads an index file other than to look a name up.
LEMMA LoadKeepsCalls ==
    ASSUME IInv, CallsInv, pc # "load", NEW d, loadDirContents(d), known' = known,
           pc' \notin {"find", "found"}
    PROVE  CallsInv'
<1>1. /\ EntryInv' /\ LinkedInv'
      /\ \A p \in Names : entry[p] = "listed" => entry'[p] = "listed"
    BY LoadKeepsEntries DEF CallsInv
<1>2. gzRead \subseteq gzRead' /\ known \subseteq Names
    BY LoadKeeps, UpTheTree DEF IInv, TypeOK
<1>3. KnownInv' /\ LookupInv'
    BY <1>1, <1>2, KnownKept DEF CallsInv, LookupInv
<1> QED
    BY <1>1, <1>3 DEF CallsInv

\* The root index file, at the start.
LEMMA RootLoadKeepsCalls == IInv /\ CallsInv /\ loadBeakFileSystem => CallsInv'
<1> SUFFICES ASSUME IInv, CallsInv, loadBeakFileSystem PROVE CallsInv'
    OBVIOUS
<1>1. /\ pc = "load" /\ pc' = "idle" /\ gzRead = {} /\ known' = known
      /\ TypeOK /\ entry[Root] = "listed" /\ known \subseteq Names
    BY UpTheTree DEF IInv, CallInv, RootInv, TypeOK, loadBeakFileSystem, callVars
<1>2. (ReadIndex(Root) \/ CutIndex(Root)) /\ gzRead' = gzRead \cup {Root}
    BY <1>1 DEF loadBeakFileSystem, loadGz
<1>3. /\ EntryInv' /\ LinkedInv'
      /\ \A p \in Names : entry[p] = "listed" => entry'[p] = "listed"
    BY <1>1, <1>2, IndexKeepsEntries, UpTheTree DEF CallsInv
<1>4. KnownInv' /\ LookupInv'
    BY <1>1, <1>2, <1>3, KnownKept DEF CallsInv, LookupInv
<1> QED
    BY <1>3, <1>4 DEF CallsInv

\* A directory the kernel finds is in one it has found.
LEMMA GetattrKeepsCalls == IInv /\ CallsInv /\ getattrCB => CallsInv'
<1> SUFFICES ASSUME IInv, CallsInv, getattrCB PROVE CallsInv'
    OBVIOUS
<1>1. /\ pc = "found" /\ pc' = "idle" /\ call.op = "getattr"
      /\ UNCHANGED <<entry, linked, gzRead, failed>>
      /\ known' = IF call.path \in Dirs /\ entry[call.path] = "listed"
                  THEN known \cup {call.path} ELSE known
    BY DEF getattrCB, treeVars
<1>2. call.path \in Names \ {Root} /\ Parent[call.path] \in known
    BY <1>1 DEF CallsInv, LookupInv, IInv, CallInv
<1>3. EntryInv' /\ LinkedInv' /\ LookupInv'
    BY <1>1 DEF CallsInv, EntryInv, LinkedInv, LookupInv, ListedOnce, Listing, CrossLinks,
       LinkHome, CopiedWith
<1>4. ASSUME call.path \in Dirs, entry[call.path] = "listed"
      PROVE  /\ Above[call.path] \subseteq known
             /\ call.path \in StorageDirs => StorageDirs \cap Above[call.path] \subseteq gzRead
  <2>1. Above[call.path] \subseteq known
      BY <1>2, TreeAssumption DEF CallsInv, KnownInv
  <2>2. ASSUME call.path \in StorageDirs
        PROVE  StorageDirs \cap Above[call.path] \subseteq gzRead
    <3>1. /\ Home[call.path] \in StorageDirs \cap Above[call.path]
          /\ StorageDirs \cap Above[call.path]
                 \subseteq {Home[call.path]} \cup Above[Home[call.path]]
        BY <1>2, HomeIsNearest
    <3>2. Home[call.path] \in gzRead
        BY <1>2, <1>4, <2>2 DEF CallsInv, EntryInv
    <3>3. StorageDirs \cap Above[Home[call.path]] \subseteq gzRead
        BY <2>1, <3>1 DEF CallsInv, KnownInv
    <3> QED BY <3>1, <3>2, <3>3
  <2> QED BY <2>1, <2>2
<1>5. KnownInv'
    BY <1>1, <1>4 DEF CallsInv, KnownInv
<1> QED
    BY <1>3, <1>5 DEF CallsInv

\* A call is about a name in a directory the kernel has found.
LEMMA CallKeepsCalls ==
    ASSUME IInv, CallsInv, NEW op \in {"getattr", "readdir"}, NEW p \in Names, Call(op, p)
    PROVE  CallsInv'
<1>1. /\ pc = "idle" /\ call'.op = op /\ call'.path = p
      /\ UNCHANGED <<entry, linked, gzRead, failed, known>>
    BY DEF Call
<1>2. EntryInv' /\ LinkedInv' /\ KnownInv'
    BY <1>1 DEF CallsInv, EntryInv, LinkedInv, KnownInv, ListedOnce, Listing, CrossLinks,
       LinkHome, CopiedWith
<1>3. /\ op = "getattr" => p # Root /\ Parent[p] \in known
      /\ op = "readdir" => p \in known /\ entry[p] = "listed"
    BY DEF Call, CallsInv, KnownInv
<1>4. \/ entry[p] = "none" /\ pc' = "find" /\ at' = p
      \/ entry[p] # "none" /\ pc' = "found"
    BY DEF Call
<1>5. LookupInv'
    BY <1>1, <1>3, <1>4 DEF LookupInv
<1> QED
    BY <1>2, <1>5 DEF CallsInv

LEMMA CallsInit == Init => CallsInv
<1> SUFFICES ASSUME Init PROVE CallsInv
    OBVIOUS
<1>1. EntryInv
    BY TreeAssumption, UpTheTree DEF Init, EntryInv, Names
<1>2. LinkedInv
    BY UpTheTree DEF Init, LinkedInv, Zero
<1>3. KnownInv /\ LookupInv
    BY TreeAssumption, UpTheTree DEF Init, KnownInv, LookupInv
<1> QED
    BY <1>1, <1>2, <1>3 DEF CallsInv

LEMMA CallsStep == IInv /\ CallsInv /\ [Next]_vars => CallsInv'
<1> SUFFICES ASSUME IInv, CallsInv, [Next]_vars PROVE CallsInv'
    OBVIOUS
<1>1. CASE UNCHANGED vars
  <2>1. EntryInv' /\ LinkedInv'
      BY <1>1 DEF CallsInv, EntryInv, LinkedInv, ListedOnce, Listing, CrossLinks, LinkHome,
         CopiedWith, vars, treeVars
  <2>2. KnownInv' /\ LookupInv'
      BY <1>1 DEF CallsInv, KnownInv, LookupInv, IndexOf, vars, treeVars, callVars
  <2> QED BY <2>1, <2>2 DEF CallsInv
<1>2. CASE readdirCB \/ ListDir \/ StartRecurse \/ LeaveDir
  <2>1. /\ UNCHANGED <<entry, linked, gzRead, failed, known>>
        /\ pc' \notin {"find", "found"}
      BY <1>2 DEF readdirCB, ListDir, StartRecurse, LeaveDir, treeVars, callVars
  <2> QED BY <2>1, NothingRead
<1>3. CASE FillDir
  <2>1. /\ pc = "fill" /\ loadDirContents(at) /\ known' = known
        /\ pc' \notin {"find", "found"}
      BY <1>3 DEF FillDir, loadCache
  <2> QED BY <2>1, LoadKeepsCalls
<1>4. ASSUME NEW d \in Dirs, recurseInto(d) PROVE CallsInv'
  <2>1. /\ pc = "recurse" /\ pc' = "recurse" /\ loadDirContents(d) /\ known' = known
      BY <1>4 DEF recurseInto, callVars
  <2> QED BY <2>1, LoadKeepsCalls
<1> QED
    BY <1>1, <1>2, <1>3, <1>4, RootLoadKeepsCalls, FindKeepsCalls, GetattrKeepsCalls,
       CallKeepsCalls DEF Next, CallStep, PassStep

\* A mount says of no file that is in the backup that there is none, if its index
\* file and that of the root can be read, whatever was asked before and whatever
\* other index files could not be read.
THEOREM LookupIsHonest == Spec => []NoFalseAbsence
<1>1. IInv /\ CallsInv => NoFalseAbsence
  <2> SUFFICES ASSUME IInv, CallsInv, pc = "found"
               PROVE  /\ call.path \in Absent => entry[call.path] = "none"
                      /\ call.path \in Paths /\ Root \notin Missing =>
                           \A s \in StorageDirs \ Missing :
                               Listing(s, call.path) > 0 => entry[call.path] # "none"
      BY DEF NoFalseAbsence
  <2>1. call.path \in Absent => entry[call.path] = "none"
      BY DEF CallsInv, EntryInv
  <2>2. ASSUME call.path \in Paths, Root \notin Missing, NEW s \in StorageDirs \ Missing,
               Listing(s, call.path) > 0, entry[call.path] = "none"
        PROVE  FALSE
    <3>1. TypeOK /\ call.op \in {"getattr", "readdir"} /\ call.path \in Names
        BY DEF IInv, CallInv
    <3>2. call.op = "getattr" /\ call.path # Root /\ Parent[call.path] \in known
        BY <2>2, <3>1 DEF CallsInv, LookupInv, KnownInv
    <3>3. s \in StorageDirs \cap Above[call.path]
        BY <2>2, ListedIsBelow
    <3>4. /\ Home[call.path] \in StorageDirs \cap Above[call.path]
          /\ s = Home[call.path] \/ s \in Above[Home[call.path]]
        BY <3>1, <3>2, <3>3, HomeIsNearest
    <3>5. Home[call.path] \in known
        BY <3>1, <3>2, <3>4, TreeAssumption DEF CallsInv, KnownInv
    <3>6. Home[call.path] \in gzRead \cup missed
        BY <2>2, <3>2 DEF CallsInv, LookupInv, Missing
    <3>7. s \in gzRead \ failed
        BY <2>2, <3>3, <3>4, <3>5, <3>6 DEF CallsInv, KnownInv, Missing
    <3>8. Listing(s, call.path) = 0
        BY <2>2, <3>7 DEF CallsInv, EntryInv
    <3> QED BY <2>2, <3>8
  <2> QED BY <2>1, <2>2
<1> QED
    BY <1>1, InvInit, InvStep, CallsInit, CallsStep, PTL DEF Spec

-----------------------------------------------------------------------------
(* The passes of a restore                                                 *)

OnStack == {stack[i] : i \in DOMAIN stack}

\* The restore is in one directory and in those above it, and has tried the index
\* files of all of them.
StackInv ==
    pc = "recurse" =>
        /\ stack # <<>>
        /\ \A i \in DOMAIN stack : Above[stack[i]] = {stack[j] : j \in 1..(i - 1)}
        /\ \A d \in OnStack \ {Root} : done[d] > 0
        /\ Root \notin failed => StorageDirs \cap OnStack \subseteq gzRead \cup missed

\* It has been given everything in a directory it has left.
GivenInv ==
    /\ pc = "recurse" =>
         \A d \in Dirs \ ({Root} \cup OnStack), p \in Paths \ {Root} :
             done[d] > 0 /\ d \in {p} \cup Above[p] /\ Reachable(p) => seen[p] > 0
    /\ pc = "recursed" => \A p \in Paths \ {Root} : Reachable(p) => seen[p] > 0

\* It has not been given a path before it has entered every directory above it,
\* nor before it has left the one that it is in, or that it is.
OnceInv ==
    pc \in {"recurse", "recursed"} =>
        \A p \in Paths \ {Root} : Single(p) =>
            /\ seen[p] <= 1
            /\ seen[p] > 0 => \A q \in (({p} \cup Above[p]) \cap Dirs) \ {Root} : done[q] > 0
            /\ pc = "recurse" /\ (p \in OnStack \/ (p \notin Dirs /\ Parent[p] \in OnStack))
                 => seen[p] = 0
\* What a restore has been given.
PassInv == StackInv /\ GivenInv /\ OnceInv

\* The directories on the stack are the one the restore is in and those above it.
LEMMA StackIsAPath ==
    ASSUME TypeOK, StackInv, pc = "recurse"
    PROVE  /\ Len(stack) \in Nat \ {0} /\ DOMAIN stack = 1..Len(stack)
           /\ OnStack \subseteq Dirs
           /\ OnStack = {Top} \cup Above[Top] /\ Top \notin Above[Top]
           /\ \A i \in 1..(Len(stack) - 1) : stack[i] # Top
           /\ \A c \in Children(Top) : Above[c] = OnStack /\ c \notin OnStack
<1>1. stack \in Seq(Dirs) /\ stack # <<>>
    BY DEF TypeOK, StackInv
<1>2. Len(stack) \in Nat \ {0} /\ DOMAIN stack = 1..Len(stack)
    BY <1>1
<1>3. Top \in Dirs /\ OnStack \subseteq Dirs /\ Len(stack) \in DOMAIN stack
    BY <1>1, <1>2 DEF OnStack, Top
<1>4. Above[Top] = {stack[j] : j \in 1..(Len(stack) - 1)}
    BY <1>3 DEF StackInv, Top
<1>5. OnStack = {Top} \cup Above[Top]
  <2>1. 1..Len(stack) = {Len(stack)} \cup 1..(Len(stack) - 1)
      BY <1>2
  <2> QED BY <1>2, <1>4, <2>1 DEF OnStack, Top
<1>6. Top \notin Above[Top]
    BY <1>3, TreeAssumption, UpTheTree
<1>7. \A c \in Children(Top) : Above[c] = OnStack /\ c \notin OnStack
    BY <1>5, TreeAssumption DEF Children, Names
<1> QED
    BY <1>2, <1>3, <1>4, <1>5, <1>6, <1>7

\* Index files that cannot be read only take something away.
LEMMA ReachableBefore ==
    ASSUME failed \subseteq failed', missed \subseteq missed', NEW p, Reachable(p)'
    PROVE  Reachable(p)
BY DEF Reachable, Missing, Listing, CrossLinks, LinkHome, CopiedWith

\* What is listed once, in directories that are, has each of them listed once.
LEMMA SingleAbove ==
    ASSUME NEW p \in Names, Single(p), NEW q \in ({p} \cup Above[p]) \ {Root}
    PROVE  ListedOnce(q)
BY DEF Single, ListedOnce

\* Going down.
LEMMA RecurseKeepsPass ==
    ASSUME IInv, CallsInv, PassInv, NEW d \in Dirs, recurseInto(d)
    PROVE  PassInv'
<1>1. /\ pc = "recurse" /\ pc' = "recurse" /\ loadDirContents(d)
      /\ d \in Children(Top) /\ done[d] < linked[d] /\ d # Root /\ d \in Names
      /\ stack' = Append(stack, d) /\ seen' = seen /\ TypeOK
    BY UpTheTree DEF recurseInto, Children, IInv
<1>2. \A p \in Names : done'[p] = IF p = d THEN done[p] + 1
                                  ELSE IF d \in Above[p] THEN 0 ELSE done[p]
    BY DEF recurseInto
<1>3. /\ failed \subseteq failed' /\ missed \subseteq missed' /\ gzRead \subseteq gzRead'
      /\ HasGz(d) => d \in gzRead' \cup missed'
    BY <1>1, LoadKeeps
<1>4. /\ Len(stack) \in Nat \ {0} /\ DOMAIN stack = 1..Len(stack)
      /\ OnStack \subseteq Dirs /\ OnStack \subseteq Names
      /\ Above[d] = OnStack /\ d \notin OnStack
    BY <1>1, StackIsAPath, UpTheTree DEF PassInv
<1>5. /\ Len(stack') = Len(stack) + 1 /\ stack' \in Seq(Dirs)
      /\ \A i \in 1..Len(stack) : stack'[i] = stack[i]
      /\ stack'[Len(stack) + 1] = d
      /\ DOMAIN stack' = 1..(Len(stack) + 1)
    BY <1>1 DEF TypeOK
<1>6. OnStack' = OnStack \cup {d}
  <2>1. 1..(Len(stack) + 1) = 1..Len(stack) \cup {Len(stack) + 1}
      BY <1>4
  <2> QED BY <1>4, <1>5, <2>1 DEF OnStack
<1>7. \A q \in Names : d \in {q} \cup Above[q] \/ done'[q] = done[q]
    BY <1>2
<1>8. done'[d] > 0
    BY <1>1, <1>2 DEF TypeOK
<1>9. StackInv'
  <2>1. stack' # <<>>
      BY <1>4, <1>5
  <2>2. ASSUME NEW i \in DOMAIN stack'
        PROVE  Above[stack'[i]] = {stack'[j] : j \in 1..(i - 1)}
    <3>1. CASE i = Len(stack) + 1
        BY <3>1, <1>4, <1>5 DEF OnStack
    <3>2. CASE i # Len(stack) + 1
      <4>1. i \in 1..Len(stack)
          BY <3>2, <1>4, <1>5
      <4>2. Above[stack[i]] = {stack[j] : j \in 1..(i - 1)}
          BY <4>1, <1>1, <1>4 DEF PassInv, StackInv
      <4> QED BY <4>1, <4>2, <1>4, <1>5
    <3> QED BY <3>1, <3>2
  <2>3. ASSUME NEW q \in OnStack' \ {Root} PROVE done'[q] > 0
    <3>1. CASE q = d
        BY <3>1, <1>8
    <3>2. CASE q # d
      <4>1. q \in OnStack \ {Root} /\ q \in Names /\ Above[q] \subseteq OnStack
          BY <3>2, <1>1, <1>4, <1>6, AboveIsTransitive
      <4> QED BY <3>2, <4>1, <1>1, <1>4, <1>7 DEF PassInv, StackInv
    <3> QED BY <3>1, <3>2
  <2>4. ASSUME Root \notin failed' PROVE StorageDirs \cap OnStack' \subseteq gzRead' \cup missed'
    <3>1. Root \notin failed /\ gz = StorageDirs \ {Root}
        BY <1>1, <1>3, <2>4 DEF IInv, RootInv
    <3>2. StorageDirs \cap OnStack \subseteq gzRead \cup missed
        BY <1>1, <3>1 DEF PassInv, StackInv
    <3>3. d \in StorageDirs => d \in gzRead' \cup missed'
        BY <1>1, <1>3, <3>1 DEF HasGz
    <3> QED BY <1>3, <1>6, <3>2, <3>3
  <2> QED BY <1>1, <2>1, <2>2, <2>3, <2>4 DEF StackInv
<1>10. GivenInv'
  <2> SUFFICES ASSUME NEW e \in Dirs \ ({Root} \cup OnStack'), NEW p \in Paths \ {Root},
                      done'[e] > 0, e \in {p} \cup Above[p], Reachable(p)'
               PROVE  seen'[p] > 0
      BY <1>1 DEF GivenInv
  <2>1. Reachable(p)
      BY <1>3, ReachableBefore
  <2>2. e \in Names /\ e # d /\ done[e] > 0 /\ e \notin OnStack
      BY <1>2, <1>6, UpTheTree
  <2> QED BY <1>1, <2>1, <2>2 DEF PassInv, GivenInv
<1>11. OnceInv'
  <2> SUFFICES ASSUME NEW p \in Paths \ {Root}, Single(p)
               PROVE  /\ seen[p] <= 1
                      /\ seen[p] > 0 =>
                            \A q \in (({p} \cup Above[p]) \cap Dirs) \ {Root} : done'[q] > 0
                      /\ (p \in OnStack' \/ (p \notin Dirs /\ Parent[p] \in OnStack'))
                            => seen[p] = 0
      BY <1>1 DEF OnceInv, Single, Listing, CrossLinks, LinkHome, CopiedWith
  <2>1. /\ seen[p] <= 1
        /\ seen[p] > 0 => \A q \in (({p} \cup Above[p]) \cap Dirs) \ {Root} : done[q] > 0
        /\ (p \in OnStack \/ (p \notin Dirs /\ Parent[p] \in OnStack)) => seen[p] = 0
      BY <1>1 DEF PassInv, OnceInv
  <2>2. p \in Names /\ seen[p] \in Nat /\ done[d] \in Nat /\ linked[d] \in Nat
      BY <1>1, UpTheTree DEF TypeOK
  <2>3. ASSUME d \in {p} \cup Above[p] PROVE seen[p] = 0
    <3>1. ListedOnce(d) /\ d \in Paths \ {Root}
        BY <1>1, <2>2, <2>3, SingleAbove, TreeAssumption
    <3>2. linked[d] <= 1
        BY <3>1 DEF CallsInv, LinkedInv
    <3>3. done[d] = 0
        BY <1>1, <2>2, <3>2
    <3> QED BY <1>1, <2>1, <2>2, <2>3, <3>3
  <2>4. ASSUME d \notin {p} \cup Above[p], NEW q \in (({p} \cup Above[p]) \cap Dirs) \ {Root}
        PROVE  done'[q] = done[q]
      BY <1>7, <2>2, <2>4, AboveIsTransitive, UpTheTree
  <2>5. Parent[p] \in Above[p]
      BY <2>2, TreeAssumption
  <2>6. seen[p] > 0 => \A q \in (({p} \cup Above[p]) \cap Dirs) \ {Root} : done'[q] > 0
      BY <2>1, <2>3, <2>4
  <2>7. (p \in OnStack' \/ (p \notin Dirs /\ Parent[p] \in OnStack')) => seen[p] = 0
      BY <1>6, <2>1, <2>3, <2>5
  <2> QED BY <2>1, <2>6, <2>7
<1> QED
    BY <1>9, <1>10, <1>11 DEF PassInv

\* Everything in a directory has been given when it is left.
LEMMA LeaveGivesAll ==
    ASSUME IInv, CallsInv, PassInv, LeaveDir, NEW p \in Paths \ {Root},
           Top \in Above[p], Reachable(p)
    PROVE  seen'[p] > 0
<1>1. /\ pc = "recurse" /\ TypeOK /\ p \in Names
      /\ \A d \in Children(Top) \cap Dirs : done[d] >= linked[d]
      /\ seen'[p] = seen[p] + (IF p \in Children(Top) \ Dirs THEN linked[p]
                               ELSE IF p = Top /\ p # Root THEN 1 ELSE 0)
    BY UpTheTree DEF LeaveDir, IInv
<1>2. PICK c \in {p} \cup Above[p] : c # Root /\ Parent[c] = Top
    BY <1>1, WayDown
<1>3. c \in Paths \ {Root} /\ c \in Children(Top) /\ c \in Names
    BY <1>1, <1>2, TreeAssumption, UpTheTree DEF Children
<1>4. Above[c] = OnStack /\ c \notin OnStack
    BY <1>1, <1>3, StackIsAPath DEF PassInv
<1>5. PICK s \in StorageDirs \ Missing : Listing(s, c) > 0
    BY <1>2, <1>3 DEF Reachable
<1>6. s \in OnStack
    BY <1>4, <1>5, ListedIsBelow
<1>7. s \in gzRead \ failed
    BY <1>1, <1>5, <1>6 DEF PassInv, StackInv, Reachable, Missing
<1>8. linked[c] > 0
    BY <1>3, <1>5, <1>7 DEF CallsInv, LinkedInv
<1>9. seen[p] \in Nat /\ seen'[p] \in Nat /\ seen'[p] >= seen[p] /\ linked[c] \in Nat /\ done[c] \in Nat
    BY <1>1, <1>3 DEF TypeOK
<1>10. CASE c \in Dirs
  <2>1. done[c] > 0
      BY <1>1, <1>3, <1>8, <1>9, <1>10
  <2>2. pc = "recurse" /\ c \in Dirs \ ({Root} \cup OnStack) /\ c \in {p} \cup Above[p]
      BY <1>1, <1>2, <1>4, <1>10
  <2>3. seen[p] > 0
      BY <2>1, <2>2 DEF PassInv, GivenInv
  <2> QED BY <1>9, <2>3
<1>11. CASE c \notin Dirs
  <2>1. c = p
      BY <1>1, <1>2, <1>11, TreeAssumption
  <2> QED BY <1>1, <1>3, <1>8, <1>9, <1>11, <2>1
<1> QED
    BY <1>10, <1>11

\* Going up.
LEMMA LeaveKeepsPass == IInv /\ CallsInv /\ PassInv /\ LeaveDir => PassInv'
<1> SUFFICES ASSUME IInv, CallsInv, PassInv, LeaveDir PROVE PassInv'
    OBVIOUS
<1>1. /\ pc = "recurse" /\ TypeOK /\ done' = done
      /\ UNCHANGED <<gzRead, failed, missed>>
      /\ stack' = SubSeq(stack, 1, Len(stack) - 1)
      /\ pc' = IF Len(stack) = 1 THEN "recursed" ELSE "recurse"
    BY DEF LeaveDir, IInv, treeVars
<1>2. \A p \in Names : seen'[p] = seen[p] + (IF p \in Children(Top) \ Dirs THEN linked[p]
                                             ELSE IF p = Top /\ p # Root THEN 1 ELSE 0)
    BY DEF LeaveDir
<1>3. /\ Len(stack) \in Nat \ {0} /\ DOMAIN stack = 1..Len(stack)
      /\ OnStack \subseteq Dirs /\ OnStack \subseteq Names
      /\ OnStack = {Top} \cup Above[Top] /\ Top \notin Above[Top]
      /\ \A i \in 1..(Len(stack) - 1) : stack[i] # Top
      /\ \A c \in Children(Top) : Above[c] = OnStack /\ c \notin OnStack
    BY <1>1, StackIsAPath, UpTheTree DEF PassInv
<1>4. /\ Len(stack') = Len(stack) - 1 /\ DOMAIN stack' = 1..(Len(stack) - 1)
      /\ \A i \in 1..(Len(stack) - 1) : stack'[i] = stack[i]
    BY <1>1, <1>3 DEF TypeOK
<1>5. OnStack' = OnStack \ {Top}
  <2>1. 1..Len(stack) = {Len(stack)} \cup 1..(Len(stack) - 1)
      BY <1>3
  <2>2. OnStack' = {stack[i] : i \in 1..(Len(stack) - 1)}
      BY <1>4 DEF OnStack
  <2>3. OnStack = {Top} \cup {stack[i] : i \in 1..(Len(stack) - 1)}
      BY <1>3, <2>1 DEF OnStack, Top
  <2> QED BY <1>3, <2>2, <2>3
<1>6. StackInv'
  <2> SUFFICES ASSUME Len(stack) # 1 PROVE StackInv'
      BY <1>1 DEF StackInv
  <2>1. stack' # <<>>
      BY <1>3, <1>4
  <2>2. ASSUME NEW i \in DOMAIN stack'
        PROVE  Above[stack'[i]] = {stack'[j] : j \in 1..(i - 1)}
    <3>1. i \in DOMAIN stack /\ i \in 1..(Len(stack) - 1)
        BY <1>3, <1>4
    <3>2. Above[stack[i]] = {stack[j] : j \in 1..(i - 1)}
        BY <3>1, <1>1 DEF PassInv, StackInv
    <3> QED BY <1>3, <1>4, <3>1, <3>2
  <2>3. /\ \A d \in OnStack' \ {Root} : done'[d] > 0
        /\ Root \notin failed' => StorageDirs \cap OnStack' \subseteq gzRead' \cup missed'
      BY <1>1, <1>5 DEF PassInv, StackInv
  <2> QED BY <2>1, <2>2, <2>3 DEF StackInv
<1>7. \A p \in Names : seen[p] \in Nat /\ seen'[p] \in Nat /\ seen'[p] >= seen[p]
  <2>1. \A p \in Names : seen[p] \in Nat /\ linked[p] \in Nat
      BY <1>1 DEF TypeOK
  <2> QED BY <1>2, <2>1
<1>8. ASSUME NEW p, Reachable(p)' PROVE Reachable(p)
    BY <1>1, <1>8, ReachableBefore
<1>9. GivenInv'
  <2>1. ASSUME pc' = "recurse", NEW d \in Dirs \ ({Root} \cup OnStack'), NEW p \in Paths \ {Root},
               done[d] > 0, d \in {p} \cup Above[p], Reachable(p)
        PROVE  seen'[p] > 0
    <3>1. CASE d # Top
        <4>1. seen[p] > 0
            BY <1>1, <1>5, <2>1, <3>1 DEF PassInv, GivenInv
        <4> QED BY <1>7, <4>1, UpTheTree
    <3>2. CASE d = Top /\ p = Top
        BY <3>2, <1>2, <1>7, UpTheTree DEF Children
    <3>3. CASE d = Top /\ p # Top
        BY <2>1, <3>3, LeaveGivesAll
    <3> QED BY <3>1, <3>2, <3>3
  <2>2. ASSUME pc' = "recursed", NEW p \in Paths \ {Root}, Reachable(p)
        PROVE  seen'[p] > 0
    <3>1. Len(stack) = 1
        BY <1>1, <2>2
    <3>2. Top = stack[1] /\ 1 \in DOMAIN stack
        BY <3>1, <1>3 DEF Top
    <3>3. Above[Top] = {}
        BY <1>1, <3>2 DEF PassInv, StackInv
    <3>4. Top = Root
        BY <1>3, <3>3, RootIsAbove
    <3>5. Root \in Above[p]
        BY RootIsAbove, UpTheTree
    <3> QED BY <2>2, <3>4, <3>5, LeaveGivesAll
  <2> QED BY <1>1, <1>8, <2>1, <2>2 DEF GivenInv
<1>10. OnceInv'
  <2> SUFFICES ASSUME NEW p \in Paths \ {Root}, Single(p)
               PROVE  /\ seen'[p] <= 1
                      /\ seen'[p] > 0 =>
                            \A q \in (({p} \cup Above[p]) \cap Dirs) \ {Root} : done[q] > 0
                      /\ (p \in OnStack' \/ (p \notin Dirs /\ Parent[p] \in OnStack'))
                            => seen'[p] = 0
      BY <1>1 DEF OnceInv, Single, Listing, CrossLinks, LinkHome, CopiedWith
  <2>1. /\ seen[p] <= 1
        /\ seen[p] > 0 => \A q \in (({p} \cup Above[p]) \cap Dirs) \ {Root} : done[q] > 0
        /\ (p \in OnStack \/ (p \notin Dirs /\ Parent[p] \in OnStack)) => seen[p] = 0
      BY <1>1 DEF PassInv, OnceInv
  <2>2. p \in Names /\ seen[p] \in Nat /\ linked[p] \in Nat
      BY <1>1, UpTheTree DEF TypeOK
  <2>3. \A q \in OnStack \ {Root} : done[q] > 0
      BY <1>1 DEF PassInv, StackInv
  <2>4. CASE p \in Children(Top) \ Dirs
    <3>1. Parent[p] = Top /\ Top \in OnStack /\ Above[p] = OnStack
        BY <2>4, <1>3 DEF Children
    <3>2. ListedOnce(p)
        BY <2>2, SingleAbove
    <3>3. linked[p] <= 1
        BY <3>2 DEF CallsInv, LinkedInv
    <3>4. seen'[p] = linked[p]
        BY <1>2, <2>1, <2>2, <2>4, <3>1
    <3>5. p \notin OnStack' /\ Parent[p] \notin OnStack'
        BY <2>4, <1>3, <1>5, <3>1
    <3> QED BY <2>3, <2>4, <3>1, <3>3, <3>4, <3>5
  <2>5. CASE p = Top
    <3>1. seen'[p] = 1 /\ p \in OnStack /\ p \in Dirs
        BY <1>2, <1>3, <2>1, <2>2, <2>5
    <3>2. {p} \cup Above[p] = OnStack
        BY <2>5, <1>3
    <3> QED BY <1>5, <2>3, <2>5, <3>1, <3>2
  <2>6. CASE p \notin Children(Top) \ Dirs /\ p # Top
    <3>1. seen'[p] = seen[p]
        BY <1>2, <2>2, <2>6
    <3> QED BY <1>5, <2>1, <3>1
  <2> QED BY <2>4, <2>5, <2>6
<1> QED
    BY <1>6, <1>9, <1>10 DEF PassInv

\* At the root nothing has been given yet.
LEMMA StartKeepsPass == IInv /\ StartRecurse => PassInv'
<1> SUFFICES ASSUME IInv, StartRecurse PROVE PassInv'
    OBVIOUS
<1>1. /\ stack' = <<Root>> /\ done' = Zero /\ seen' = Zero /\ pc' = "recurse"
      /\ gzRead' = gzRead /\ Root \in gzRead
    BY DEF StartRecurse, IInv, RootInv
<1>2. Len(stack') = 1 /\ DOMAIN stack' = {1} /\ stack'[1] = Root
    BY <1>1
<1>3. OnStack' = {Root}
    BY <1>2 DEF OnStack
<1>4. 1..(1 - 1) = {}
    OBVIOUS
<1>5. StackInv'
    BY <1>1, <1>2, <1>3, <1>4, TreeAssumption DEF StackInv
<1>6. GivenInv' /\ OnceInv'
    BY <1>1, UpTheTree DEF GivenInv, OnceInv, Zero
<1> QED
    BY <1>5, <1>6 DEF PassInv

LEMMA PassInit == Init => PassInv
BY DEF Init, PassInv, StackInv, GivenInv, OnceInv

LEMMA PassStepKeeps == IInv /\ CallsInv /\ PassInv /\ [Next]_vars => PassInv'
<1> SUFFICES ASSUME IInv, CallsInv, PassInv, [Next]_vars PROVE PassInv'
    OBVIOUS
<1>1. CASE UNCHANGED vars
  <2>1. StackInv'
      BY <1>1 DEF PassInv, StackInv, OnStack, vars, treeVars, callVars, passVars
  <2>2. GivenInv'
      BY <1>1, ReachableBefore
      DEF PassInv, GivenInv, OnStack, vars, treeVars, callVars, passVars
  <2>3. OnceInv'
      BY <1>1 DEF PassInv, OnceInv, OnStack, Single, Listing, CrossLinks, LinkHome, CopiedWith,
         vars, treeVars, callVars, passVars
  <2> QED BY <2>1, <2>2, <2>3 DEF PassInv
<1>2. ASSUME \/ loadBeakFileSystem \/ CallStep
             \/ \E op \in {"getattr", "readdir"}, p \in Names : Call(op, p)
      PROVE  PassInv'
  <2>1. pc' \notin {"recurse", "recursed"}
      BY <1>2 DEF loadBeakFileSystem, CallStep, Call, findEntry, getattrCB, readdirCB, FillDir,
         ListDir, loadCache
  <2> QED BY <2>1 DEF PassInv, StackInv, GivenInv, OnceInv
<1> QED
    BY <1>1, <1>2, StartKeepsPass, LeaveKeepsPass, RecurseKeepsPass DEF Next, PassStep

\* A pass of the restore is given every path that can be reached through index files
\* that can be read, and none twice that one index file lists once.
THEOREM RestoreSeesBackup == Spec => []PassIsComplete
<1>1. IInv /\ PassInv => PassIsComplete
    BY UpTheTree DEF IInv, TypeOK, PassInv, GivenInv, OnceInv, PassIsComplete
<1> QED
    BY <1>1, InvInit, InvStep, CallsInit, CallsStep, PassInit, PassStepKeeps, PTL DEF Spec

\* No directory the restore iterates over changes while what is below it is loaded.
THEOREM IterationIsSafe == Spec => DirOnStackIsFixed
<1>1. ASSUME IInv, PassInv, [Next]_vars, pc = "recurse",
             NEW i \in DOMAIN stack, NEW c \in Children(stack[i])
      PROVE  linked'[c] = linked[c]
  <2>1. CASE LeaveDir \/ UNCHANGED vars
      BY <2>1 DEF LeaveDir, vars, treeVars
  <2>2. ASSUME NEW d \in Dirs, recurseInto(d) PROVE linked'[c] = linked[c]
    <3>1. /\ TypeOK /\ d \in Children(Top) /\ loadDirContents(d)
          /\ c \in Names \ {Root} /\ Parent[c] = stack[i]
        BY <1>1, <2>2, UpTheTree DEF recurseInto, IInv, Children
    <3>2. Above[d] = OnStack /\ d \notin OnStack /\ stack[i] \in OnStack
        BY <1>1, <3>1, StackIsAPath DEF PassInv, OnStack
    <3>3. d \notin Above[c]
        BY <3>1, <3>2, AboveIsTransitive, TreeAssumption, UpTheTree
    <3>4. ~(Listing(d, c) > 0)
        BY <3>3, ListedIsBelow
    <3>5. Listing(d, c) = 0 /\ linked[c] \in Nat
        BY <3>1, <3>4, ListingIsNat DEF TypeOK
    <3>6. linked' = linked \/ linked'[c] = linked[c] + Listing(d, c)
        BY <3>1 DEF loadDirContents, loadGz, ReadIndex, CutIndex, treeVars
    <3> QED BY <3>5, <3>6
  <2>3. ~loadBeakFileSystem /\ ~CallStep /\ ~StartRecurse
        /\ ~\E op \in {"getattr", "readdir"}, p \in Names : Call(op, p)
      BY <1>1 DEF loadBeakFileSystem, CallStep, findEntry, getattrCB, readdirCB, FillDir,
         ListDir, StartRecurse, Call
  <2> QED BY <1>1, <2>1, <2>2, <2>3 DEF Next, PassStep
<1>2. IInv /\ PassInv /\ [Next]_vars =>
        (pc = "recurse" =>
            \A i \in DOMAIN stack : \A c \in Children(stack[i]) : linked'[c] = linked[c])
    BY <1>1
<1> QED
    BY <1>2, InvInit, InvStep, CallsInit, CallsStep, PassInit, PassStepKeeps, PTL
    DEF Spec, DirOnStackIsFixed
=============================================================================
