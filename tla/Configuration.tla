--------------------------- MODULE Configuration ---------------------------
(***************************************************************************)
(* The rules of the configuration file and the menus of beak config that   *)
(* edit them.  The program holds the rules in a map by their names, and    *)
(* the storages of a rule in a map by their locations; an edit changes the *)
(* name or location in the entry and leaves its key.  Saving writes all    *)
(* rules, line by line, and reads the file back.                           *)
(*                                                                         *)
(* Of a rule there are its type, local storage and storages, of a storage  *)
(* its location and keep rule.  The order in which rules and storages are  *)
(* written is some order.                                                  *)
(***************************************************************************)
EXTENDS Integers, SequencesExt

CONSTANTS
    Names, Locations,
    Real,      \* location -> where it is, behind symbolic links
    Locals,    \* the directories the user may choose for local storages
    StdDir,    \* the one a new rule has
    Keeps,     \* keep rules the user may enter
    StdKeep,   \* the one a new rule has
    ZeroKeep,  \* the one that keeps nothing, and whose text is empty
    Files,     \* the configuration files there are to begin with
    MaxEdits,  \* bound: what the user chooses
    None

ASSUME KeepAssumption == StdKeep \in Keeps
ASSUME FilesAssumption == \A lines \in Files : Len(lines) \in Nat

VARIABLES
    file,     \* the lines of the configuration file
    rules,    \* key -> rule
    unsaved,  \* needs_saving_
    cur,      \* the key of the rule that is edited
    pc,
    back,     \* where the user is after the save
    edits     \* the number of choices made

vars == <<file, rules, unsaved, cur, pc, back, edits>>

NoRules == [n \in {} |-> None]

\* The map with one more entry, or another in its place.
Put(map, key, value) == [k \in DOMAIN map \cup {key} |-> IF k = key THEN value ELSE map[k]]

Rule(name, type, local, storages) ==
    [name |-> name, type |-> type, local |-> local, storages |-> storages]
Storage(at, keep) == [at |-> at, keep |-> keep]

StdLocal == Storage(StdDir, StdKeep)
NoLocal == Storage(None, ZeroKeep)

\* The rules that have a storage at a location: what is asked for is the real
\* path, and what is compared with it is the path as it was given.
UsedBy(rs, at) ==
    {k \in DOMAIN rs : \E s \in DOMAIN rs[k].storages : rs[k].storages[s].at = at}

-----------------------------------------------------------------------------
(* Loading and saving                                                      *)

Line(key, value) == [key |-> key, value |-> value]

Failed(l) == [l EXCEPT !.ok = FALSE]

\* The new rule has no storage yet, and the storage the last rule had is still
\* the current one.
parseRule(l, name) ==
    IF name \in DOMAIN l.rules THEN Failed(l)
    ELSE [l EXCEPT !.rules = Put(@, name, Rule(name, "local", NoLocal, NoRules)), !.rule = name]

\* A location that is a link may be there already, with its keep rule.
Entry(storages, at) ==
    Storage(at, IF at \in DOMAIN storages THEN storages[at].keep ELSE ZeroKeep)

\* Mutant: the first storage stays the current one.
ParseRemoteOnce(l, at) ==
    IF UsedBy(l.rules, Real[at]) # {} THEN Failed(l)
    ELSE [l EXCEPT !.rules[l.rule].storages = Put(@, at, Entry(@, at)),
                   !.storage = IF @ = <<>> THEN <<l.rule, at>> ELSE @]

parseRemote(l, at) ==
    IF UsedBy(l.rules, Real[at]) # {} THEN Failed(l)
    ELSE [l EXCEPT !.rules[l.rule].storages = Put(@, at, Entry(@, at)),
                   !.storage = <<l.rule, at>>]

\* An unknown key, an empty keep rule, a rule or a location that is there
\* already, and a keep rule of no storage end the program, and so does a line
\* before the first rule.
Keys == {"rule", "origin", "type", "local", "local_keep", "remote", "remote_keep"}

Rejected(l, line) ==
    \/ ~l.ok \/ line.key \notin Keys
    \/ line.key \in {"local_keep", "remote_keep"} /\ line.value = ZeroKeep
    \/ line.key # "rule" /\ l.rule \notin DOMAIN l.rules
    \/ line.key = "local_keep" /\ l.rules[l.rule].local = NoLocal
    \/ line.key = "remote_keep" /\ l.storage = <<>>

parseRow(l, line) ==
    IF Rejected(l, line) THEN Failed(l)
    ELSE CASE line.key = "rule"   -> parseRule(l, line.value)
           [] line.key = "origin" -> [l EXCEPT !.rules[l.rule].local = StdLocal]
           [] line.key = "type"   -> [l EXCEPT !.rules[l.rule].type = line.value]
           [] line.key = "local"  -> [l EXCEPT !.rules[l.rule].local.at = line.value]
           [] line.key = "local_keep" -> [l EXCEPT !.rules[l.rule].local.keep = line.value]
           [] line.key = "remote" -> parseRemote(l, line.value)
           [] line.key = "remote_keep" ->
                [l EXCEPT !.rules[l.storage[1]].storages[l.storage[2]].keep = line.value]

NothingRead == [ok |-> TRUE, rules |-> NoRules, rule |-> None, storage |-> <<>>]

load(lines) ==
    LET read[i \in 0..Len(lines)] ==
            IF i = 0 THEN NothingRead ELSE parseRow(read[i - 1], lines[i])
    IN  read[Len(lines)]

Written(rs) ==
    LET OfStorage(s) == <<Line("remote", s.at), Line("remote_keep", s.keep)>>
        OfRule(r) ==
          <<Line("rule", r.name), Line("origin", None), Line("type", r.type)>>
          \o (IF r.type = "local"
              THEN <<Line("local", r.local.at), Line("local_keep", r.local.keep)>> ELSE <<>>)
          \o FlattenSeq([i \in 1..Cardinality(DOMAIN r.storages) |->
                           OfStorage(r.storages[SetToSeq(DOMAIN r.storages)[i]])])
    IN  FlattenSeq([i \in 1..Cardinality(DOMAIN rs) |-> OfRule(rs[SetToSeq(DOMAIN rs)[i]])])

\* Some choice of the user saves, and puts him back where he was or in the menu.
Save(then) == pc' = "saving" /\ back' = then

Off == rules' = NoRules /\ pc' = "off" /\ back' = None /\ unsaved' = FALSE /\ cur' = None

\* What a write that fails may leave: the file as it was, or its beginning; and
\* one that was short begins anew.
Leaves(written) ==
    LET begun == {SubSeq(written, 1, n) : n \in 0..Len(written)}
    IN  {file} \cup begun \cup {part \o written : part \in begun}

\* A rule that was cut off before its origin ends the program when it is shown or
\* written.
HaveOrigins(rs) == \A k \in DOMAIN rs : rs[k].local # NoLocal

\* The file is truncated and written, or the write fails and nobody is told, and
\* whatever is there is read back.  What cannot be read ends the program, and so
\* does a rule that is edited and is no longer there.
FinishSave ==
    /\ pc = "saving"
    /\ file' \in {Written(rules)} \cup Leaves(Written(rules))
    /\ LET l == load(file')
       IN  IF l.ok /\ HaveOrigins(l.rules) /\ (back = "edit" => cur \in DOMAIN l.rules)
           THEN /\ rules' = l.rules /\ pc' = back /\ back' = None
                /\ UNCHANGED <<unsaved, cur>>
           ELSE Off
    /\ UNCHANGED edits

\* Killed: the file ends somewhere, between two lines.
Crash ==
    /\ pc # "off"
    /\ IF pc = "saving"
       THEN \E n \in 0..Len(Written(rules)) : file' = SubSeq(Written(rules), 1, n)
       ELSE UNCHANGED file
    /\ Off
    /\ UNCHANGED edits

-----------------------------------------------------------------------------
(* The menus                                                               *)

Chooses == edits < MaxEdits /\ edits' = edits + 1

\* beak config begins, if the file can be read.
Launch ==
    /\ pc = "off"
    /\ load(file).ok
    /\ IF HaveOrigins(load(file).rules)
       THEN rules' = load(file).rules /\ pc' = "menu"
       ELSE UNCHANGED <<rules, pc>>
    /\ UNCHANGED <<file, unsaved, cur, back, edits>>

Quit == pc = "menu" /\ Off /\ UNCHANGED <<file, edits>>

ShownNames == {rules[k].name : k \in DOMAIN rules}

okRuleName(n) == n \in Names \ DOMAIN rules

\* Mutant: any location will do.
OkAnyLocation(at) == at \in Locations

okLocation(at) == at \in Locations /\ UsedBy(rules, Real[at]) = {}

\* Rules are shown by name and looked up by key: a rule that was renamed but
\* not saved is not found, and an empty one is made, without an origin, which
\* ends the program as soon as it is shown or written.
LostRule ==
    /\ pc = "menu" /\ Chooses
    /\ ShownNames \ DOMAIN rules # {}
    /\ Off
    /\ UNCHANGED file

EditRule ==
    /\ pc = "menu" /\ Chooses
    /\ cur' \in ShownNames \cap DOMAIN rules
    /\ pc' = "edit"
    /\ UNCHANGED <<file, rules, unsaved, back>>

NewRule ==
    /\ pc = "menu" /\ Chooses
    /\ \E n \in Names, type \in {"local", "remote"} :
         \E storages \in {NoRules} \cup
              {Put(NoRules, at, Storage(at, keep)) : at \in {l \in Locations : okLocation(l)}, keep \in Keeps} :
            /\ okRuleName(n)
            /\ rules' = Put(rules, n, Rule(n, type, StdLocal, storages))
    /\ Save("menu")
    /\ unsaved' = TRUE
    /\ UNCHANGED <<file, cur>>

\* A proposed rule is given up; its name was an edit all the same.
DiscardNewRule ==
    /\ pc = "menu" /\ ~unsaved /\ Chooses
    /\ \E n \in Names : okRuleName(n)
    /\ unsaved' = TRUE
    /\ UNCHANGED <<file, rules, cur, pc, back>>

\* By its name again: an unsaved new name deletes nothing.
DeleteRule ==
    /\ pc = "menu" /\ Chooses
    /\ \E n \in ShownNames : rules' = [k \in DOMAIN rules \ {n} |-> rules[k]]
    /\ Save("menu")
    /\ UNCHANGED <<file, unsaved, cur>>

RenameRule ==
    /\ pc = "menu" /\ Chooses
    /\ \E k \in ShownNames \cap DOMAIN rules, n \in Names :
         okRuleName(n) /\ rules' = [rules EXCEPT ![k].name = n]
    /\ Save("menu")
    /\ unsaved' = TRUE
    /\ UNCHANGED <<file, cur>>

\* The storages are copied, too.
CopyRule ==
    /\ pc = "menu" /\ Chooses
    /\ \E k \in ShownNames \cap DOMAIN rules, n \in Names :
         okRuleName(n) /\ rules' = Put(rules, n, [rules[k] EXCEPT !.name = n])
    /\ Save("menu")
    /\ unsaved' = TRUE
    /\ UNCHANGED <<file, cur>>

\* The name, the type or the local storage of the rule is changed in memory.
\* A keep rule that names no known interval is taken, too: it keeps nothing.
EditField ==
    /\ pc = "edit" /\ Chooses
    /\ \/ \E n \in Names : okRuleName(n) /\ rules' = [rules EXCEPT ![cur].name = n]
       \/ \E t \in {"local", "remote"} : rules' = [rules EXCEPT ![cur].type = t]
       \/ /\ rules[cur].type = "local"
          /\ \/ \E d \in Locals : rules' = [rules EXCEPT ![cur].local.at = d]
             \/ \E k \in Keeps : rules' = [rules EXCEPT ![cur].local.keep = k]
    /\ unsaved' = (unsaved \/ rules' # rules)
    /\ UNCHANGED <<file, cur, pc, back>>

\* One that is kept under the key of this location is replaced.
AddStorage ==
    /\ pc = "edit" /\ Chooses
    /\ \E at \in Locations, keep \in Keeps :
         /\ okLocation(at)
         /\ rules' = [rules EXCEPT ![cur].storages = Put(@, at, Storage(at, keep))]
    /\ unsaved' = TRUE
    /\ UNCHANGED <<file, cur, pc, back>>

EditStorage ==
    /\ pc = "edit" /\ Chooses
    /\ \E s \in DOMAIN rules[cur].storages :
         \/ \E at \in Locations :
              okLocation(at) /\ rules' = [rules EXCEPT ![cur].storages[s].at = at]
         \/ \E keep \in Keeps : rules' = [rules EXCEPT ![cur].storages[s].keep = keep]
    /\ unsaved' = (unsaved \/ rules' # rules)
    /\ UNCHANGED <<file, cur, pc, back>>

\* By its location, as it is now.  The rule is looked up by its name afterwards.
EraseStorage ==
    /\ pc = "edit" /\ Chooses
    /\ \E s \in DOMAIN rules[cur].storages :
         rules' = [rules EXCEPT ![cur].storages =
                      [t \in DOMAIN @ \ {rules[cur].storages[s].at} |-> @[t]]]
    /\ Save("edit")
    /\ cur' = rules[cur].name
    /\ UNCHANGED <<file, unsaved>>

SaveRule ==
    /\ pc = "edit" /\ unsaved /\ Chooses
    /\ Save("menu")
    /\ cur' = None
    /\ UNCHANGED <<file, rules, unsaved>>

\* To discard changes and to go back to the menu are the same: the changes stay
\* in memory.
LeaveRule ==
    /\ pc = "edit" /\ Chooses
    /\ pc' = "menu" /\ cur' = None
    /\ UNCHANGED <<file, rules, unsaved, back>>

-----------------------------------------------------------------------------

Init ==
    /\ file \in Files
    /\ rules = NoRules /\ unsaved = FALSE /\ cur = None /\ pc = "off" /\ back = None
    /\ edits = 0

Menus ==
    \/ Quit \/ FinishSave \/ Crash
    \/ LostRule \/ EditRule \/ NewRule \/ DiscardNewRule \/ DeleteRule \/ RenameRule
    \/ CopyRule
    \/ EditField \/ AddStorage \/ EditStorage \/ EraseStorage \/ SaveRule \/ LeaveRule

Next == Launch \/ Menus

Spec == Init /\ [][Next]_vars

-----------------------------------------------------------------------------
(* Properties                                                              *)

\* Whatever was edited, saved, discarded or cut short by a crash or a write that
\* failed, no storage location that is its own real path is in two rules, nor
\* twice in one, while the user is in a menu: two backups would be pruned as one
\* (parseRow, editRemoteTarget).
OneRulePerLocation ==
    pc \in {"menu", "edit"} =>
        \A at \in {l \in Locations : Real[l] = l} : \A k, l \in UsedBy(rules, at) :
            /\ k = l
            /\ \A s, t \in DOMAIN rules[k].storages :
                 (rules[k].storages[s].at = at /\ rules[k].storages[t].at = at) => s = t

\* A rule without what is not written, and its storages by their locations; the
\* ones that are given by links may have become one.
Plain(r) ==
    [type |-> r.type, local |-> IF r.type = "local" THEN r.local ELSE StdLocal,
     storages |-> {x \in {r.storages[s] : s \in DOMAIN r.storages} : Real[x.at] = x.at}]

\* A save that has written the file and ends in a menu again has lost and mixed
\* up nothing: the rules read back are the rules that were in memory, by their
\* names.
SaveIsLossless ==
    [][pc = "saving" /\ pc' # "off" /\ file' = Written(rules) =>
          /\ DOMAIN rules' = ShownNames
          /\ \A k \in DOMAIN rules : Plain(rules'[rules[k].name]) = Plain(rules[k])]_vars

=============================================================================
