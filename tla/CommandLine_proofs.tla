------------------------ MODULE CommandLine_proofs ------------------------
(***************************************************************************)
(* Proofs about the configuration and the command line.                    *)
(*                                                                         *)
(* Of the configuration: whatever the file says, the rules that are read   *)
(* have no two storages at the same real place (LoadKeeps, by induction    *)
(* over the lines), and the menus keep them apart until the next save,     *)
(* which reads them anew.  What is written is read back, part by part:     *)
(* where the parts of a flattened sequence begin (FlattenParts), what each *)
(* row does to the rules (NameRead to KeepRead), what a rule leaves        *)
(* (RuleRead).                                                             *)
(*                                                                         *)
(* Of the command line: a line that is obeyed knows its arguments: what    *)
(* store, prune, fsck or push write to is at a remote location, or where   *)
(* no file of the user's is, or the storage of a rule.  What deletes or    *)
(* overwrites has obeyed every option of its line (OptionsInv).            *)
(***************************************************************************)
EXTENDS CommandLine, FiniteSetTheorems, WellFoundedInduction, TLAPS

-----------------------------------------------------------------------------
(* The rules                                                               *)

RuleFields == {"name", "type", "local", "storages"}

IsStorage(x) == x = Storage(x.at, x.keep)

RuleShape(r) ==
    /\ DOMAIN r = RuleFields
    /\ IsStorage(r.local)
    /\ IsFiniteSet(DOMAIN r.storages)
    /\ \A s \in DOMAIN r.storages : IsStorage(r.storages[s])

Shape(rs) == IsFiniteSet(DOMAIN rs) /\ \A k \in DOMAIN rs : RuleShape(rs[k])

\* No two storages, of one rule or of two, are at the same real place.
Apart(rs) ==
    \A k, m \in DOMAIN rs : \A s \in DOMAIN rs[k].storages, t \in DOMAIN rs[m].storages :
        /\ Real[rs[k].storages[s].at] = rs[k].storages[s].at
        /\ rs[k].storages[s].at = rs[m].storages[t].at
        => k = m /\ s = t

LEMMA StorageIs ==
    ASSUME NEW at, NEW keep
    PROVE  /\ IsStorage(Storage(at, keep)) /\ DOMAIN Storage(at, keep) = {"at", "keep"}
           /\ Storage(at, keep).at = at /\ Storage(at, keep).keep = keep
BY DEF IsStorage, Storage

LEMMA StorageFieldIs ==
    ASSUME NEW x, IsStorage(x), NEW v
    PROVE  /\ [x EXCEPT !.at = v] = Storage(v, x.keep)
           /\ [x EXCEPT !.keep = v] = Storage(x.at, v)
<1> DEFINE a == x.at
           k == x.keep
<1>1. x = [at |-> a, keep |-> k]
    BY DEF IsStorage, Storage
<1> HIDE DEF a, k
<1>2. [x EXCEPT !.at = v] = [at |-> v, keep |-> k] /\ [x EXCEPT !.keep = v] = [at |-> a, keep |-> v]
    BY <1>1
<1> QED
    BY <1>2 DEF Storage, a, k

LEMMA StorageFieldWas ==
    ASSUME NEW x, IsStorage(x), NEW v
    PROVE  IsStorage([x EXCEPT !.keep = v]) /\ [x EXCEPT !.keep = v].at = x.at
<1>1. [x EXCEPT !.keep = v] = Storage(x.at, v)
    BY StorageFieldIs
<1> QED
    BY <1>1, StorageIs

LEMMA PutIs ==
    ASSUME NEW map, NEW key, NEW value
    PROVE  /\ DOMAIN Put(map, key, value) = DOMAIN map \cup {key}
           /\ Put(map, key, value)[key] = value
           /\ \A k \in DOMAIN map : k # key => Put(map, key, value)[k] = map[k]
           /\ IsFiniteSet(DOMAIN map) => IsFiniteSet(DOMAIN Put(map, key, value))
<1>1. DOMAIN Put(map, key, value) = DOMAIN map \cup {key}
    BY DEF Put
<1>2. IsFiniteSet(DOMAIN map) => IsFiniteSet(DOMAIN map \cup {key})
    BY FS_AddElement
<1> QED
    BY <1>1, <1>2 DEF Put

LEMMA PutShape ==
    ASSUME NEW rs, Shape(rs), NEW k, NEW r, RuleShape(r)
    PROVE  Shape(Put(rs, k, r))
<1>1. DOMAIN Put(rs, k, r) = DOMAIN rs \cup {k} /\ IsFiniteSet(DOMAIN Put(rs, k, r))
    BY PutIs DEF Shape
<1>2. ASSUME NEW m \in DOMAIN rs \cup {k} PROVE RuleShape(Put(rs, k, r)[m])
    <2>1. Put(rs, k, r)[k] = r /\ \A n \in DOMAIN rs : n # k => Put(rs, k, r)[n] = rs[n]
        BY DEF Put
    <2>2. CASE m = k
        BY <2>1, <2>2
    <2>3. CASE m # k
        <3>1. m \in DOMAIN rs /\ Put(rs, k, r)[m] = rs[m]
            BY <1>2, <2>1, <2>3
        <3> QED
            BY <3>1 DEF Shape
    <2> QED
        BY <2>2, <2>3
<1> QED
    BY <1>1, <1>2 DEF Shape

LEMMA ExceptShape ==
    ASSUME NEW rs, Shape(rs), NEW k, NEW r, k \in DOMAIN rs => RuleShape(r)
    PROVE  Shape([rs EXCEPT ![k] = r])
<1> DEFINE q == [rs EXCEPT ![k] = r]
<1>1. DOMAIN q = DOMAIN rs
    OBVIOUS
<1>2. ASSUME NEW m \in DOMAIN rs PROVE RuleShape(q[m])
    <2>1. q[m] = IF m = k THEN r ELSE rs[m]
        OBVIOUS
    <2> HIDE DEF q
    <2> QED
        BY <2>1 DEF Shape
<1> HIDE DEF q
<1>3. Shape(q)
    BY <1>1, <1>2 DEF Shape
<1> QED
    BY <1>3 DEF q

LEMMA NewRuleShape ==
    ASSUME NEW n, NEW t, NEW k, IsStorage(k), NEW ss, IsFiniteSet(DOMAIN ss),
           \A s \in DOMAIN ss : IsStorage(ss[s])
    PROVE  RuleShape(Rule(n, t, k, ss))
<1> DEFINE r == Rule(n, t, k, ss)
<1>1. DOMAIN r = RuleFields /\ r.local = k /\ r.storages = ss
    BY DEF Rule, RuleFields
<1> HIDE DEF r
<1>2. RuleShape(r)
    BY <1>1 DEF RuleShape
<1> QED
    BY <1>2 DEF r

LEMMA StorageShape ==
    ASSUME NEW r, RuleShape(r), NEW at, NEW keep
    PROVE  /\ RuleShape([r EXCEPT !.storages = Put(r.storages, at, Storage(at, keep))])
           /\ Storage(at, keep).at = at
<1> DEFINE ss == Put(r.storages, at, Storage(at, keep))
<1>1. IsStorage(Storage(at, keep)) /\ Storage(at, keep).at = at
    BY StorageIs
<1>2. /\ DOMAIN ss = DOMAIN r.storages \cup {at} /\ ss[at] = Storage(at, keep)
      /\ \A s \in DOMAIN r.storages : s # at => ss[s] = r.storages[s]
      /\ IsFiniteSet(DOMAIN ss)
    <2>1. IsFiniteSet(DOMAIN r.storages)
        BY DEF RuleShape
    <2>2. IsFiniteSet(DOMAIN Put(r.storages, at, Storage(at, keep)))
        BY <2>1, PutIs
    <2> QED
        BY <2>2 DEF Put
<1> HIDE DEF ss
<1>3. \A s \in DOMAIN ss : IsStorage(ss[s])
    BY <1>1, <1>2 DEF RuleShape
<1> DEFINE q == [r EXCEPT !.storages = ss]
<1>4. q.storages = ss /\ DOMAIN q = RuleFields /\ q.local = r.local
    BY DEF RuleShape, RuleFields
<1> HIDE DEF q
<1>5. RuleShape(q)
    BY <1>2, <1>3, <1>4 DEF RuleShape
<1> QED
    BY <1>1, <1>5 DEF ss, q

\* The place or the keep rule of a storage is changed.
LEMMA StorageFieldShape ==
    ASSUME NEW r, RuleShape(r), NEW s, NEW x, IsStorage(r.storages[s]) => IsStorage(x)
    PROVE  RuleShape([r EXCEPT !.storages = [r.storages EXCEPT ![s] = x]])
<1> DEFINE ss == [r.storages EXCEPT ![s] = x]
<1>1. DOMAIN ss = DOMAIN r.storages
    OBVIOUS
<1>2. ASSUME NEW t \in DOMAIN ss PROVE IsStorage(ss[t])
    <2>1. IsStorage(r.storages[t])
        BY <1>1, <1>2 DEF RuleShape
    <2>2. ss[t] = IF t = s THEN x ELSE r.storages[t]
        BY <1>1, <1>2
    <2> HIDE DEF ss
    <2> QED
        BY <2>1, <2>2
<1> HIDE DEF ss
<1> DEFINE q == [r EXCEPT !.storages = ss]
<1>3. q.storages = ss /\ DOMAIN q = RuleFields /\ q.local = r.local
    BY DEF RuleShape, RuleFields
<1> HIDE DEF q
<1>4. RuleShape(q)
    BY <1>1, <1>2, <1>3 DEF RuleShape
<1> QED
    BY <1>4 DEF ss, q

LEMMA FieldShape ==
    ASSUME NEW r, RuleShape(r), NEW v
    PROVE  /\ RuleShape([r EXCEPT !.name = v]) /\ [r EXCEPT !.name = v].storages = r.storages
           /\ RuleShape([r EXCEPT !.type = v]) /\ [r EXCEPT !.type = v].storages = r.storages
           /\ IsStorage(v) => RuleShape([r EXCEPT !.local = v])
           /\ [r EXCEPT !.local = v].storages = r.storages
<1> DEFINE F(f) == [r EXCEPT ![f] = v]
<1>1. ASSUME NEW f \in {"name", "type", "local"}
      PROVE  /\ F(f).storages = r.storages /\ DOMAIN F(f) = RuleFields
             /\ F(f).local = IF f = "local" THEN v ELSE r.local
    BY DEF RuleShape, RuleFields
<1> HIDE DEF F
<1>2. ASSUME NEW f \in {"name", "type", "local"}, f = "local" => IsStorage(v)
      PROVE  RuleShape(F(f))
    BY <1>1, <1>2 DEF RuleShape
<1>3. /\ RuleShape(F("name")) /\ F("name").storages = r.storages
      /\ RuleShape(F("type")) /\ F("type").storages = r.storages
      /\ IsStorage(v) => RuleShape(F("local"))
      /\ F("local").storages = r.storages
    BY <1>1, <1>2
<1> QED
    BY <1>3 DEF F

\* Storages that stay where they are stay apart.
LEMMA SamePlaces ==
    ASSUME NEW rs, Apart(rs), NEW k, NEW r,
           k \in DOMAIN rs => /\ DOMAIN r.storages = DOMAIN rs[k].storages
                              /\ \A s \in DOMAIN r.storages : r.storages[s].at = rs[k].storages[s].at
    PROVE  Apart([rs EXCEPT ![k] = r])
<1> DEFINE q == [rs EXCEPT ![k] = r]
<1>1. DOMAIN q = DOMAIN rs /\ \A m \in DOMAIN rs : q[m] = IF m = k THEN r ELSE rs[m]
    OBVIOUS
<1> HIDE DEF q
<1>2. \A m \in DOMAIN rs : /\ DOMAIN q[m].storages = DOMAIN rs[m].storages
                           /\ \A s \in DOMAIN q[m].storages : q[m].storages[s].at = rs[m].storages[s].at
    BY <1>1
<1>3. Apart(q)
    BY <1>1, <1>2 DEF Apart
<1> QED
    BY <1>3 DEF q

\* One storage goes where there was none.
LEMMA FreePlace ==
    ASSUME NEW rs, Apart(rs), NEW k, NEW r, NEW at, NEW t, UsedBy(rs, Real[at]) = {},
           k \in DOMAIN rs =>
               /\ t \in DOMAIN r.storages /\ r.storages[t].at = at
               /\ \A s \in DOMAIN r.storages : s # t =>
                     s \in DOMAIN rs[k].storages /\ r.storages[s].at = rs[k].storages[s].at
    PROVE  Apart([rs EXCEPT ![k] = r])
<1> DEFINE q == [rs EXCEPT ![k] = r]
<1>1. DOMAIN q = DOMAIN rs /\ \A m \in DOMAIN rs : q[m] = IF m = k THEN r ELSE rs[m]
    OBVIOUS
<1>2. Real[at] = at => \A m \in DOMAIN rs : \A s \in DOMAIN rs[m].storages :
                           rs[m].storages[s].at # at
    BY DEF UsedBy
<1> HIDE DEF q
<1>3. ASSUME NEW m \in DOMAIN rs, NEW s \in DOMAIN q[m].storages
      PROVE  IF m = k /\ s = t THEN q[m].storages[s].at = at
             ELSE /\ s \in DOMAIN rs[m].storages
                  /\ q[m].storages[s].at = rs[m].storages[s].at
                  /\ Real[at] = at => q[m].storages[s].at # at
    BY <1>1, <1>2, <1>3
<1>4. ASSUME NEW m \in DOMAIN rs, NEW n \in DOMAIN rs,
             NEW s \in DOMAIN q[m].storages, NEW u \in DOMAIN q[n].storages,
             Real[q[m].storages[s].at] = q[m].storages[s].at,
             q[m].storages[s].at = q[n].storages[u].at
      PROVE  m = n /\ s = u
    <2>1. CASE (m = k /\ s = t) \/ (n = k /\ u = t)
        BY <1>3, <1>4, <2>1
    <2>2. CASE ~((m = k /\ s = t) \/ (n = k /\ u = t))
        <3>1. /\ s \in DOMAIN rs[m].storages /\ u \in DOMAIN rs[n].storages
              /\ rs[m].storages[s].at = rs[n].storages[u].at
              /\ Real[rs[m].storages[s].at] = rs[m].storages[s].at
            BY <1>3, <1>4, <2>2
        <3> QED
            BY <3>1 DEF Apart
    <2> QED
        BY <2>1, <2>2
<1>5. Apart(q)
    BY <1>1, <1>4 DEF Apart
<1> QED
    BY <1>5 DEF q

-----------------------------------------------------------------------------
(* Reading the file                                                        *)

ReadShape(l) ==
    DOMAIN l = {"ok", "rules", "rule", "storage"} /\ Shape(l.rules) /\ Apart(l.rules)

LEMMA NewRuleKeeps ==
    ASSUME NEW l, ReadShape(l), NEW name
    PROVE  ReadShape(parseRule(l, name))
<1> DEFINE r == Rule(name, "local", NoLocal, NoRules)
           rs == Put(l.rules, name, r)
<1>1. CASE name \in DOMAIN l.rules
    <2>1. parseRule(l, name) = [l EXCEPT !.ok = FALSE]
        BY <1>1 DEF parseRule, Failed
    <2>2. DOMAIN parseRule(l, name) = DOMAIN l /\ parseRule(l, name).rules = l.rules
        BY <2>1 DEF ReadShape
    <2> QED
        BY <2>2 DEF ReadShape
<1>2. CASE name \notin DOMAIN l.rules
    <2>1. DOMAIN NoRules = {} /\ IsFiniteSet({})
        BY FS_EmptySet DEF NoRules
    <2>2. RuleShape(r) /\ r.storages = NoRules
        <3>0. IsStorage(NoLocal)
            BY StorageIs DEF NoLocal
        <3>1. RuleShape(r)
            BY <2>1, <3>0, NewRuleShape
        <3> QED
            BY <3>1 DEF Rule
    <2>3. /\ DOMAIN rs = DOMAIN l.rules \cup {name} /\ rs[name] = r
          /\ \A k \in DOMAIN l.rules : k # name => rs[k] = l.rules[k]
        BY DEF Put
    <2>4. parseRule(l, name) = [l EXCEPT !.rules = rs, !.rule = name]
        BY <1>2 DEF parseRule
    <2> HIDE DEF r
    <2>5. Shape(rs)
        BY <2>2, PutShape DEF ReadShape
    <2> HIDE DEF rs
    <2>6. \A k \in DOMAIN rs : DOMAIN rs[k].storages # {} => k \in DOMAIN l.rules /\ rs[k] = l.rules[k]
        BY <2>1, <2>2, <2>3
    <2>7. Apart(rs)
        <3> SUFFICES ASSUME NEW k \in DOMAIN rs, NEW m \in DOMAIN rs,
                            NEW s \in DOMAIN rs[k].storages, NEW t \in DOMAIN rs[m].storages,
                            Real[rs[k].storages[s].at] = rs[k].storages[s].at,
                            rs[k].storages[s].at = rs[m].storages[t].at
                     PROVE  k = m /\ s = t
            BY DEF Apart
        <3>1. /\ k \in DOMAIN l.rules /\ rs[k] = l.rules[k]
              /\ m \in DOMAIN l.rules /\ rs[m] = l.rules[m]
            BY <2>6
        <3> QED
            BY <3>1 DEF ReadShape, Apart
    <2>8. DOMAIN parseRule(l, name) = DOMAIN l /\ parseRule(l, name).rules = rs
        BY <2>4 DEF ReadShape
    <2> QED
        BY <2>5, <2>7, <2>8 DEF ReadShape
<1> QED
    BY <1>1, <1>2

\* Only a rule that is there is changed.
LEMMA RuleKeeps ==
    ASSUME NEW l, ReadShape(l), NEW k, NEW r, NEW q,
           DOMAIN q = DOMAIN l, q.rules = [l.rules EXCEPT ![k] = r],
           k \in DOMAIN l.rules => RuleShape(r),
           Apart([l.rules EXCEPT ![k] = r])
    PROVE  ReadShape(q)
<1>1. Shape([l.rules EXCEPT ![k] = r])
    BY ExceptShape DEF ReadShape
<1> QED
    BY <1>1 DEF ReadShape

LEMMA NewStorageKeeps ==
    ASSUME NEW l, ReadShape(l), NEW at
    PROVE  ReadShape(parseRemote(l, at))
<1> DEFINE k == l.rule
           x == Entry(l.rules[k].storages, at)
           r == [l.rules[k] EXCEPT !.storages = Put(l.rules[k].storages, at, x)]
<1>0. PICK keep : x = Storage(at, keep)
    BY DEF Entry
<1>1. CASE UsedBy(l.rules, Real[at]) # {}
    <2>1. parseRemote(l, at) = [l EXCEPT !.ok = FALSE]
        BY <1>1 DEF parseRemote, Failed
    <2>2. DOMAIN parseRemote(l, at) = DOMAIN l /\ parseRemote(l, at).rules = l.rules
        BY <2>1 DEF ReadShape
    <2> QED
        BY <2>2 DEF ReadShape
<1>2. CASE UsedBy(l.rules, Real[at]) = {}
    <2>1. parseRemote(l, at) = [l EXCEPT !.rules = [l.rules EXCEPT ![k] = r], !.storage = <<k, at>>]
        BY <1>2 DEF parseRemote
    <2>2. /\ DOMAIN parseRemote(l, at) = DOMAIN l
          /\ parseRemote(l, at).rules = [l.rules EXCEPT ![k] = r]
        <3> HIDE DEF r
        <3> QED BY <2>1 DEF ReadShape
    <2>3. ASSUME k \in DOMAIN l.rules
          PROVE  /\ RuleShape(r)
                 /\ at \in DOMAIN r.storages /\ r.storages[at].at = at
                 /\ \A s \in DOMAIN r.storages : s # at =>
                       s \in DOMAIN l.rules[k].storages /\ r.storages[s].at = l.rules[k].storages[s].at
        <3>1. RuleShape(l.rules[k])
            BY <2>3 DEF ReadShape, Shape
        <3> HIDE DEF x
        <3>2. RuleShape(r) /\ x.at = at
            BY <1>0, <3>1, StorageShape
        <3>3. r.storages = Put(l.rules[k].storages, at, x)
            BY <3>1 DEF RuleShape, RuleFields
        <3> HIDE DEF r
        <3> QED
            BY <3>2, <3>3 DEF Put
    <2> HIDE DEF r, k
    <2>4. Apart([l.rules EXCEPT ![k] = r])
        BY <1>2, <2>3, FreePlace DEF ReadShape
    <2> QED
        BY <2>2, <2>3, <2>4, RuleKeeps
<1> QED
    BY <1>1, <1>2

\* A line that changes the type or the local storage of the last rule.
LEMMA FieldKeeps ==
    ASSUME NEW l, ReadShape(l), NEW v, l.rule \in DOMAIN l.rules
    PROVE  /\ ReadShape([l EXCEPT !.rules[l.rule].type = v])
           /\ ReadShape([l EXCEPT !.rules[l.rule].local = StdLocal])
           /\ ReadShape([l EXCEPT !.rules[l.rule].local.at = v])
           /\ ReadShape([l EXCEPT !.rules[l.rule].local.keep = v])
<1> DEFINE k == l.rule
           With(x) == [l.rules[k] EXCEPT !.local = x]
           At == [l.rules[k].local EXCEPT !.at = v]
           Keep == [l.rules[k].local EXCEPT !.keep = v]
           q == [l.rules[k] EXCEPT !.type = v]
           New(r) == [l EXCEPT !.rules = [l.rules EXCEPT ![k] = r]]
<1>1. RuleShape(l.rules[k])
    BY DEF ReadShape, Shape
<1>2. IsStorage(StdLocal) /\ IsStorage(At) /\ IsStorage(Keep)
    <2>1. IsStorage(l.rules[k].local)
        BY <1>1 DEF RuleShape
    <2>2. IsStorage(At) /\ IsStorage(Keep)
        BY <2>1, StorageFieldIs, StorageIs
    <2> QED
        BY <2>2, StorageIs DEF StdLocal
<1>3. /\ [l EXCEPT !.rules[l.rule].type = v] = New(q)
      /\ [l EXCEPT !.rules[l.rule].local = StdLocal] = New(With(StdLocal))
      /\ [l EXCEPT !.rules[l.rule].local.at = v] = New(With(At))
      /\ [l EXCEPT !.rules[l.rule].local.keep = v] = New(With(Keep))
    OBVIOUS
<1>4. RuleShape(q) /\ q.storages = l.rules[k].storages
    BY <1>1, FieldShape
<1> HIDE DEF At, Keep
<1>5. \A x \in {StdLocal, At, Keep} :
         RuleShape(With(x)) /\ With(x).storages = l.rules[k].storages
    BY <1>1, <1>2, FieldShape
<1>6. ASSUME NEW r, RuleShape(r), r.storages = l.rules[k].storages
      PROVE  ReadShape(New(r))
    <2> HIDE DEF k
    <2>1. Apart([l.rules EXCEPT ![k] = r])
        BY <1>6, SamePlaces DEF ReadShape
    <2>2. DOMAIN New(r) = DOMAIN l /\ New(r).rules = [l.rules EXCEPT ![k] = r]
        BY DEF ReadShape
    <2> QED
        BY <1>6, <2>1, <2>2, RuleKeeps
<1> HIDE DEF New, With, q, k
<1>7. ReadShape(New(q)) /\ \A x \in {StdLocal, At, Keep} : ReadShape(New(With(x)))
    BY <1>4, <1>5, <1>6
<1> QED
    BY <1>3, <1>7

LEMMA StorageKeepKeeps ==
    ASSUME NEW l, ReadShape(l), NEW v
    PROVE  ReadShape([l EXCEPT !.rules[l.storage[1]].storages[l.storage[2]].keep = v])
<1> DEFINE k == l.storage[1]
           s == l.storage[2]
           x == [l.rules[k].storages[s] EXCEPT !.keep = v]
           r == [l.rules[k] EXCEPT !.storages = [l.rules[k].storages EXCEPT ![s] = x]]
<1>1. [l EXCEPT !.rules[l.storage[1]].storages[l.storage[2]].keep = v]
        = [l EXCEPT !.rules = [l.rules EXCEPT ![k] = r]]
    OBVIOUS
<1>2. ASSUME k \in DOMAIN l.rules
      PROVE  /\ RuleShape(r)
             /\ DOMAIN r.storages = DOMAIN l.rules[k].storages
             /\ \A t \in DOMAIN r.storages : r.storages[t].at = l.rules[k].storages[t].at
    <2>1. RuleShape(l.rules[k])
        BY <1>2 DEF ReadShape, Shape
    <2>2. IsStorage(l.rules[k].storages[s]) => IsStorage(x) /\ x.at = l.rules[k].storages[s].at
        BY StorageFieldWas
    <2>3. \A t \in DOMAIN l.rules[k].storages : IsStorage(l.rules[k].storages[t])
        BY <2>1 DEF RuleShape
    <2> HIDE DEF x, s
    <2>4. RuleShape(r)
        BY <2>1, <2>2, StorageFieldShape
    <2>5. r.storages = [l.rules[k].storages EXCEPT ![s] = x]
        BY <2>1 DEF RuleShape, RuleFields
    <2> HIDE DEF r, k
    <2>6. DOMAIN r.storages = DOMAIN l.rules[k].storages
        BY <2>5
    <2>7. ASSUME NEW t \in DOMAIN r.storages
          PROVE  r.storages[t].at = l.rules[k].storages[t].at
        <3>1. r.storages[t] = IF t = s THEN x ELSE l.rules[k].storages[t]
            BY <2>5, <2>6, <2>7
        <3> QED
            BY <2>2, <2>3, <2>6, <2>7, <3>1
    <2> QED
        BY <2>4, <2>6, <2>7
<1> HIDE DEF r, k, s
<1>3. Apart([l.rules EXCEPT ![k] = r])
    BY <1>2, SamePlaces DEF ReadShape
<1>4. ASSUME NEW rs
      PROVE  DOMAIN [l EXCEPT !.rules = rs] = DOMAIN l /\ [l EXCEPT !.rules = rs].rules = rs
    BY DEF ReadShape
<1>5. ReadShape([l EXCEPT !.rules = [l.rules EXCEPT ![k] = r]])
    BY <1>2, <1>3, <1>4, RuleKeeps
<1> QED
    BY <1>1, <1>5

LEMMA RowKeeps ==
    ASSUME NEW l, ReadShape(l), NEW row
    PROVE  ReadShape(parseRow(l, row))
<1> DEFINE Bad == Rejected(l, row)
           A == parseRule(l, row.value)
           B == [l EXCEPT !.rules[l.rule].local = StdLocal]
           C == [l EXCEPT !.rules[l.rule].type = row.value]
           D == [l EXCEPT !.rules[l.rule].local.at = row.value]
           K == [l EXCEPT !.rules[l.rule].local.keep = row.value]
           E == parseRemote(l, row.value)
           F == [l EXCEPT !.rules[l.storage[1]].storages[l.storage[2]].keep = row.value]
<1>1. parseRow(l, row) =
        IF Bad THEN Failed(l)
        ELSE CASE row.key = "rule"   -> A
               [] row.key = "origin" -> B
               [] row.key = "type"   -> C
               [] row.key = "local"  -> D
               [] row.key = "local_keep" -> K
               [] row.key = "remote" -> E
               [] row.key = "remote_keep" -> F
    BY Zenon DEF parseRow
<1>2. ReadShape(Failed(l))
    BY DEF Failed, ReadShape
<1>3. /\ ReadShape(A) /\ ReadShape(E) /\ ReadShape(F)
      /\ l.rule \in DOMAIN l.rules => ReadShape(B) /\ ReadShape(C) /\ ReadShape(D) /\ ReadShape(K)
    BY NewRuleKeeps, FieldKeeps, NewStorageKeeps, StorageKeepKeeps
<1>4. ~Bad => row.key \in Keys /\ (row.key # "rule" => l.rule \in DOMAIN l.rules)
    BY DEF Rejected
<1> HIDE DEF Bad, A, B, C, D, E, F, K
<1>5. ~Bad => \/ parseRow(l, row) \in {A, E, F}
              \/ parseRow(l, row) \in {B, C, D, K} /\ l.rule \in DOMAIN l.rules
    BY <1>1, <1>4 DEF Keys
<1> QED
    BY <1>1, <1>2, <1>3, <1>5

\* A set of numbers has a least one.
LEMMA SmallestOf ==
    ASSUME NEW D, D # {}, D \subseteq Nat
    PROVE  \E i \in D : \A j \in D : i <= j
<1> DEFINE R == OpToRel(<, Nat)
<1>1. IsWellFoundedOn(R, Nat)
    BY NatLessThanWellFounded
<1>2. ASSUME NEW i \in Nat, NEW j \in Nat, j < i PROVE <<j, i>> \in R
    <2>1. R = {ss \in Nat \X Nat : ss[1] < ss[2]}
        BY DEF OpToRel
    <2> HIDE DEF R
    <2>2. <<j, i>> \in Nat \X Nat /\ <<j, i>>[1] < <<j, i>>[2]
        BY <1>2
    <2> QED
        BY <2>1, <2>2
<1> HIDE DEF R
<1>3. PICK i \in D : \A j \in D : ~(<<j, i>> \in R)
    BY <1>1, WFMin
<1>4. ASSUME NEW j \in D PROVE i <= j
    <2>1. i \in Nat /\ j \in Nat /\ ~(j < i)
        BY <1>2, <1>3
    <2> QED
        BY <2>1
<1> QED
    BY <1>4

\* What has been read after every line, one function of the line.
ReadBy(F, rows, n) ==
    F = [i \in 0..n |-> IF i = 0 THEN NothingRead ELSE parseRow(F[i - 1], rows[i])]

LEMMA ReadingExists ==
    ASSUME NEW rows, NEW n \in Nat
    PROVE  \E F : ReadBy(F, rows, n)
<1> DEFINE D == {m \in Nat : ~\E F : ReadBy(F, rows, m)}
<1> SUFFICES ASSUME D # {} PROVE FALSE
    OBVIOUS
<1>1. PICK m \in D : \A j \in D : m <= j
    BY SmallestOf
<1>2. m \in Nat /\ ~\E F : ReadBy(F, rows, m)
    BY <1>1
<1>3. CASE m = 0
    <2> DEFINE F == [i \in 0..0 |-> NothingRead]
    <2>1. F = [i \in 0..0 |-> IF i = 0 THEN NothingRead ELSE parseRow(F[i - 1], rows[i])]
        OBVIOUS
    <2> HIDE DEF F
    <2> QED
        BY <1>2, <1>3, <2>1 DEF ReadBy
<1>4. CASE m > 0
    <2>1. m - 1 \in Nat /\ m - 1 \notin D
        BY <1>1, <1>2, <1>4
    <2>2. PICK G : ReadBy(G, rows, m - 1)
        BY <2>1
    <2> DEFINE F == [i \in 0..m |-> IF i = m THEN parseRow(G[m - 1], rows[m]) ELSE G[i]]
    <2>3. \A i \in 0..(m - 1) : F[i] = G[i]
        BY <1>2
    <2>4. F[m] = parseRow(G[m - 1], rows[m]) /\ DOMAIN F = 0..m
        BY <1>2
    <2>5. \A i \in 0..(m - 1) : G[i] = IF i = 0 THEN NothingRead ELSE parseRow(G[i - 1], rows[i])
        BY <2>2 DEF ReadBy
    <2>6. F = [i \in 0..m |-> F[i]]
        OBVIOUS
    <2> HIDE DEF F
    <2>7. ASSUME NEW i \in 0..m
          PROVE  F[i] = IF i = 0 THEN NothingRead ELSE parseRow(F[i - 1], rows[i])
        <3>1. CASE i = m
            <4>1. i # 0 /\ m - 1 \in 0..(m - 1) /\ F[m - 1] = G[m - 1]
                BY <1>2, <1>4, <2>3, <3>1
            <4> QED
                BY <2>4, <3>1, <4>1
        <3>2. CASE i # m /\ i # 0
            <4>1. i \in 0..(m - 1) /\ i - 1 \in 0..(m - 1)
                BY <1>2, <2>7, <3>2
            <4>2. F[i] = G[i] /\ F[i - 1] = G[i - 1]
                BY <2>3, <4>1
            <4> QED
                BY <2>5, <3>2, <4>1, <4>2
        <3>3. CASE i # m /\ i = 0
            <4>1. i \in 0..(m - 1)
                BY <1>2, <2>7, <3>3
            <4> QED
                BY <2>3, <2>5, <3>3, <4>1
        <3> QED
            BY <3>1, <3>2, <3>3
    <2>8. F = [i \in 0..m |-> IF i = 0 THEN NothingRead ELSE parseRow(F[i - 1], rows[i])]
        BY <2>6, <2>7, Zenon
    <2> QED
        BY <1>2, <2>8 DEF ReadBy
<1> QED
    BY <1>2, <1>3, <1>4

LEMMA RowsKeep ==
    ASSUME NEW rows, NEW n \in Nat, NEW R, R[0] = NothingRead,
           \A i \in 1..n : R[i] = parseRow(R[i - 1], rows[i])
    PROVE  \A i \in 0..n : ReadShape(R[i])
<1>1. ReadShape(NothingRead)
    <2>1. DOMAIN NoRules = {} /\ IsFiniteSet({})
        BY FS_EmptySet DEF NoRules
    <2>2. NothingRead.rules = NoRules /\ DOMAIN NothingRead = {"ok", "rules", "rule", "storage"}
        BY DEF NothingRead
    <2> QED
        BY <2>1, <2>2 DEF ReadShape, Shape, Apart
<1> DEFINE D == {i \in 0..n : ~ReadShape(R[i])}
<1>2. D = {}
    <2> SUFFICES ASSUME D # {} PROVE FALSE
        OBVIOUS
    <2>1. D \subseteq Nat
        OBVIOUS
    <2>2. PICK i \in D : \A j \in D : i <= j
        <3> HIDE DEF D
        <3> QED BY <2>1, SmallestOf
    <2>3. i \in 0..n /\ ~ReadShape(R[i])
        BY <2>2
    <2>4. i # 0
        BY <1>1, <2>3
    <2>5. i \in 1..n /\ i - 1 \in 0..n /\ i - 1 < i
        BY <2>3, <2>4
    <2>6. i - 1 \notin D
        BY <2>2, <2>5
    <2>7. ReadShape(R[i - 1])
        BY <2>5, <2>6
    <2> QED
        BY <2>3, <2>5, <2>7, RowKeeps
<1> QED
    BY <1>2

\* Whatever the file says, no two storages that are read are at the same place.
LEMMA LoadKeeps ==
    ASSUME NEW rows, Len(rows) \in Nat
    PROVE  ReadShape(load(rows))
<1> DEFINE n == Len(rows)
           Is(F) == ReadBy(F, rows, n)
           R == CHOOSE F : Is(F)
<1>1. load(rows) = R[n]
    BY DEF load, ReadBy
<1>2. \E F : Is(F)
    BY ReadingExists
<1> HIDE DEF Is
<1>3. Is(R)
    BY <1>2
<1> HIDE DEF R
<1>4. /\ R[0] = NothingRead
      /\ \A i \in 1..n : R[i] = parseRow(R[i - 1], rows[i])
    BY <1>3 DEF Is, ReadBy
<1>5. \A i \in 0..n : ReadShape(R[i])
    BY <1>4, RowsKeep
<1>6. n \in 0..n
    OBVIOUS
<1> QED
    BY <1>1, <1>5, <1>6

-----------------------------------------------------------------------------
(* Writing the file                                                        *)

FlattenBy(F, seqs, n) ==
    F = [i \in 1..n |-> IF i = 1 THEN seqs[i] ELSE F[i - 1] \o seqs[i]]

LEMMA FlattenExists ==
    ASSUME NEW seqs, NEW n \in Nat \ {0}
    PROVE  \E F : FlattenBy(F, seqs, n)
<1> DEFINE D == {m \in Nat \ {0} : ~\E F : FlattenBy(F, seqs, m)}
<1> SUFFICES ASSUME D # {} PROVE FALSE
    OBVIOUS
<1>1. PICK m \in D : \A j \in D : m <= j
    BY SmallestOf
<1>2. m \in Nat \ {0} /\ ~\E F : FlattenBy(F, seqs, m)
    BY <1>1
<1>3. CASE m = 1
    <2> DEFINE F == [i \in 1..1 |-> seqs[1]]
    <2>1. F = [i \in 1..1 |-> IF i = 1 THEN seqs[i] ELSE F[i - 1] \o seqs[i]]
        OBVIOUS
    <2> HIDE DEF F
    <2> QED
        BY <1>2, <1>3, <2>1 DEF FlattenBy
<1>4. CASE m > 1
    <2>1. m - 1 \in Nat \ {0} /\ m - 1 \notin D
        BY <1>1, <1>2, <1>4
    <2>2. PICK G : FlattenBy(G, seqs, m - 1)
        BY <2>1
    <2> DEFINE last == G[m - 1] \o seqs[m]
               F == [i \in 1..m |-> IF i = m THEN last ELSE G[i]]
    <2> HIDE DEF last
    <2>3. \A i \in 1..(m - 1) : F[i] = G[i]
        BY <1>2
    <2>4. F[m] = last
        BY <1>2
    <2>5. \A i \in 1..(m - 1) : G[i] = IF i = 1 THEN seqs[i] ELSE G[i - 1] \o seqs[i]
        BY <2>2 DEF FlattenBy
    <2>6. F = [i \in 1..m |-> F[i]]
        OBVIOUS
    <2> HIDE DEF F
    <2>7. ASSUME NEW i \in 1..m
          PROVE  F[i] = IF i = 1 THEN seqs[i] ELSE F[i - 1] \o seqs[i]
        <3>1. CASE i = m
            <4>1. i # 1 /\ m - 1 \in 1..(m - 1) /\ F[m - 1] = G[m - 1]
                BY <1>2, <1>4, <2>3, <3>1
            <4> QED
                BY <2>4, <3>1, <4>1 DEF last
        <3>2. CASE i # m /\ i # 1
            <4>1. i \in 1..(m - 1) /\ i - 1 \in 1..(m - 1)
                BY <1>2, <2>7, <3>2
            <4>2. F[i] = G[i] /\ F[i - 1] = G[i - 1]
                BY <2>3, <4>1
            <4> QED
                BY <2>5, <3>2, <4>1, <4>2
        <3>3. CASE i # m /\ i = 1
            <4>1. i \in 1..(m - 1)
                BY <1>2, <2>7, <3>3
            <4> QED
                BY <2>3, <2>5, <3>3, <4>1
        <3> QED
            BY <3>1, <3>2, <3>3
    <2>8. F = [i \in 1..m |-> IF i = 1 THEN seqs[i] ELSE F[i - 1] \o seqs[i]]
        BY <2>6, <2>7, Zenon
    <2> QED
        BY <1>2, <2>8 DEF FlattenBy
<1> QED
    BY <1>2, <1>3, <1>4

\* A flattened sequence, part by part.
Steps(R, T, seqs, n) ==
    /\ R[0] = <<>> /\ R[n] = FlattenSeq(seqs)
    /\ \A i \in 1..n : R[i] = R[i - 1] \o seqs[i]
    /\ \A i \in 0..n : R[i] \in Seq(T)

LEMMA FlattenSteps ==
    ASSUME NEW T, NEW n \in Nat, NEW seqs, seqs \in Seq(Seq(T)), Len(seqs) = n
    PROVE  \E R : Steps(R, T, seqs, n)
<1>1. \A i \in 1..n : seqs[i] \in Seq(T)
    OBVIOUS
<1>2. CASE n = 0
    <2>1. FlattenSeq(seqs) = seqs
        BY <1>2 DEF FlattenSeq
    <2>2. seqs = <<>>
        BY <1>2
    <2> DEFINE R == [i \in 0..0 |-> <<>>]
    <2>3. R[0] = <<>>
        OBVIOUS
    <2> HIDE DEF R
    <2>4. 1..n = {} /\ 0..n = {0} /\ <<>> \in Seq(T)
        BY <1>2
    <2>5. Steps(R, T, seqs, n)
        BY <1>2, <2>1, <2>2, <2>3, <2>4 DEF Steps
    <2> QED
        BY <2>5
<1>3. CASE n > 0
    <2> DEFINE Is(F) == FlattenBy(F, seqs, n)
               G == CHOOSE F : Is(F)
    <2>1. FlattenSeq(seqs) = G[n]
        BY <1>3 DEF FlattenSeq, FlattenBy
    <2>2. \E F : Is(F)
        <3>1. n \in Nat \ {0}
            BY <1>3
        <3> QED
            BY <3>1, FlattenExists
    <2> HIDE DEF Is
    <2>3. Is(G)
        BY <2>2
    <2> HIDE DEF G
    <2>4. \A i \in 1..n : G[i] = IF i = 1 THEN seqs[i] ELSE G[i - 1] \o seqs[i]
        BY <2>3 DEF Is, FlattenBy
    <2> DEFINE R == [i \in 0..n |-> IF i = 0 THEN <<>> ELSE G[i]]
    <2>5. R[0] = <<>> /\ \A i \in 1..n : R[i] = G[i]
        OBVIOUS
    <2> HIDE DEF R
    <2>6. ASSUME NEW i \in 1..n PROVE R[i] = R[i - 1] \o seqs[i]
        <3>1. CASE i = 1
            <4>1. R[i] = seqs[i] /\ R[i - 1] = <<>> /\ seqs[i] \in Seq(T)
                BY <1>1, <2>4, <2>5, <2>6, <3>1
            <4> QED
                BY <4>1
        <3>2. CASE i # 1
            <4>1. i - 1 \in 1..n
                BY <2>6, <3>2
            <4> QED
                BY <2>4, <2>5, <2>6, <3>2, <4>1
        <3> QED
            BY <3>1, <3>2
    <2> DEFINE D == {i \in 0..n : R[i] \notin Seq(T)}
    <2>7. D = {}
        <3> SUFFICES ASSUME D # {} PROVE FALSE
            OBVIOUS
        <3>1. D \subseteq Nat
            OBVIOUS
        <3>2. PICK i \in D : \A j \in D : i <= j
            <4> HIDE DEF D
            <4> QED BY <3>1, SmallestOf
        <3>3. i \in 0..n /\ R[i] \notin Seq(T)
            BY <3>2
        <3>4. <<>> \in Seq(T)
            OBVIOUS
        <3>5. i # 0
            BY <2>5, <3>3, <3>4
        <3>6. i \in 1..n /\ i - 1 \in 0..n /\ i - 1 < i
            BY <3>3, <3>5
        <3>7. i - 1 \notin D
            BY <3>2, <3>6
        <3>8. R[i - 1] \in Seq(T)
            BY <3>6, <3>7
        <3>9. R[i] = R[i - 1] \o seqs[i] /\ seqs[i] \in Seq(T)
            BY <1>1, <2>6, <3>6
        <3>10. R[i - 1] \o seqs[i] \in Seq(T)
            BY <3>8, <3>9
        <3> QED
            BY <3>3, <3>9, <3>10
    <2>8. n \in 1..n
        BY <1>3
    <2>9. R[n] = FlattenSeq(seqs)
        BY <2>1, <2>5, <2>8
    <2>10. Steps(R, T, seqs, n)
        BY <2>5, <2>6, <2>7, <2>9 DEF Steps
    <2> QED
        BY <2>10
<1> QED
    BY <1>2, <1>3

LEMMA FlattenType ==
    ASSUME NEW T, NEW n \in Nat, NEW seqs, seqs \in Seq(Seq(T)), Len(seqs) = n
    PROVE  FlattenSeq(seqs) \in Seq(T)
<1>1. PICK R : Steps(R, T, seqs, n)
    BY FlattenSteps
<1>2. n \in 0..n
    OBVIOUS
<1> QED
    BY <1>1, <1>2 DEF Steps

\* Where the parts begin and end in it.
Offsets(off, seqs, n) ==
    /\ off[0] = 0 /\ off[n] = Len(FlattenSeq(seqs))
    /\ \A i \in 1..n :
          /\ off[i - 1] \in Nat /\ off[i] = off[i - 1] + Len(seqs[i]) /\ off[i] <= off[n]
          /\ \A j \in 1..Len(seqs[i]) : FlattenSeq(seqs)[off[i - 1] + j] = seqs[i][j]

LEMMA FlattenParts ==
    ASSUME NEW T, NEW n \in Nat, NEW seqs, seqs \in Seq(Seq(T)), Len(seqs) = n
    PROVE  \E off : Offsets(off, seqs, n)
<1>0. PICK R : Steps(R, T, seqs, n)
    BY FlattenSteps
<1>1. /\ R[0] = <<>> /\ R[n] = FlattenSeq(seqs)
      /\ \A i \in 1..n : R[i] = R[i - 1] \o seqs[i]
      /\ \A i \in 0..n : R[i] \in Seq(T)
    BY <1>0 DEF Steps
<1> DEFINE off == [i \in 0..n |-> Len(R[i])]
           Within(i, m) == /\ Len(R[i]) <= Len(R[m])
                           /\ \A p \in 1..Len(R[i]) : R[m][p] = R[i][p]
<1>2. \A i \in 0..n : Len(R[i]) \in Nat
    BY <1>1
<1>3. ASSUME NEW i \in 1..n
      PROVE  /\ seqs[i] \in Seq(T) /\ Len(seqs[i]) \in Nat
             /\ Len(R[i]) = Len(R[i - 1]) + Len(seqs[i])
             /\ Within(i - 1, i)
             /\ \A j \in 1..Len(seqs[i]) : R[i][Len(R[i - 1]) + j] = seqs[i][j]
    <2>1. R[i - 1] \in Seq(T) /\ seqs[i] \in Seq(T) /\ R[i] = R[i - 1] \o seqs[i]
        <3>1. i - 1 \in 0..n
            BY <1>3
        <3> QED
            BY <1>1, <1>3, <3>1
    <2> HIDE DEF off
    <2> QED
        BY <2>1
<1>4. ASSUME NEW i \in 0..n PROVE Within(i, n)
    <2> DEFINE D == {m \in 0..n : i <= m /\ ~Within(i, m)}
    <2>1. D = {}
        <3> SUFFICES ASSUME D # {} PROVE FALSE
            OBVIOUS
        <3>1. D \subseteq Nat
            OBVIOUS
        <3>2. PICK m \in D : \A j \in D : m <= j
            <4> HIDE DEF D
            <4> QED BY <3>1, SmallestOf
        <3>3. m \in 0..n /\ i <= m /\ ~Within(i, m)
            BY <3>2
        <3>4. m # i
            BY <1>2, <1>4, <3>3
        <3>5. m \in 1..n /\ m - 1 \in 0..n /\ i <= m - 1 /\ m - 1 < m
            BY <1>4, <3>3, <3>4
        <3>6. m - 1 \notin D
            BY <3>2, <3>5
        <3>7. Within(i, m - 1)
            BY <3>5, <3>6
        <3>8. Within(m - 1, m)
            BY <1>3, <3>5
        <3>9. Len(R[i]) \in Nat /\ Len(R[m - 1]) \in Nat /\ Len(R[m]) \in Nat
            BY <1>2, <1>4, <3>3, <3>5
        <3> HIDE DEF D, off
        <3>10. Within(i, m)
            BY <3>7, <3>8, <3>9
        <3> QED
            BY <3>3, <3>10
    <2>2. n \in 0..n /\ i <= n
        BY <1>4
    <2> HIDE DEF Within
    <2> QED
        BY <2>1, <2>2
<1>5. ASSUME NEW i \in 1..n
      PROVE  /\ off[i - 1] \in Nat /\ off[i] = off[i - 1] + Len(seqs[i]) /\ off[i] <= off[n]
             /\ \A j \in 1..Len(seqs[i]) : FlattenSeq(seqs)[off[i - 1] + j] = seqs[i][j]
    <2>1. i \in 0..n /\ i - 1 \in 0..n /\ n \in 0..n
        BY <1>5
    <2>2. off[i] = Len(R[i]) /\ off[i - 1] = Len(R[i - 1]) /\ off[n] = Len(R[n])
        BY <2>1
    <2>3. Len(R[i]) \in Nat /\ Len(R[i - 1]) \in Nat
        BY <1>2, <2>1
    <2>4. Len(R[i]) = Len(R[i - 1]) + Len(seqs[i]) /\ Len(seqs[i]) \in Nat
        BY <1>3, <1>5
    <2>5. Within(i, n)
        BY <1>4, <2>1
    <2> HIDE DEF off
    <2>6. ASSUME NEW j \in 1..Len(seqs[i])
          PROVE  FlattenSeq(seqs)[off[i - 1] + j] = seqs[i][j]
        <3>1. Len(R[i - 1]) + j \in 1..Len(R[i])
            BY <2>3, <2>4, <2>6
        <3>2. R[n][Len(R[i - 1]) + j] = R[i][Len(R[i - 1]) + j]
            BY <2>5, <3>1
        <3>3. R[i][Len(R[i - 1]) + j] = seqs[i][j]
            BY <1>3, <1>5, <2>6
        <3> QED
            BY <1>1, <2>2, <3>2, <3>3
    <2> QED
        BY <2>2, <2>3, <2>4, <2>5, <2>6
<1>6. off[0] = 0 /\ off[n] = Len(FlattenSeq(seqs))
    <2>1. off[0] = Len(R[0]) /\ off[n] = Len(R[n])
        OBVIOUS
    <2> HIDE DEF off
    <2> QED
        BY <1>1, <2>1
<1> HIDE DEF off
<1>7. Offsets(off, seqs, n)
    BY <1>5, <1>6 DEF Offsets
<1> QED
    BY <1>7

LEMMA EnumerationIs ==
    ASSUME NEW S, IsFiniteSet(S)
    PROVE  Cardinality(S) \in Nat /\ SetToSeq(S) \in [1..Cardinality(S) -> S]
<1>1. Cardinality(S) \in Nat /\ ExistsBijection(1..Cardinality(S), S)
    BY FS_CardinalityType
<1>2. \E f \in [1..Cardinality(S) -> S] : IsInjective(f)
    BY <1>1 DEF ExistsBijection, Bijection, Injection
<1> QED
    BY <1>1, <1>2 DEF SetToSeq

\* An enumeration leaves out nothing.
LEMMA EnumerationIsAll ==
    ASSUME NEW S, IsFiniteSet(S)
    PROVE  \A x \in S : \E i \in 1..Cardinality(S) : SetToSeq(S)[i] = x
<1> DEFINE n == Cardinality(S)
           e == SetToSeq(S)
<1>1. n \in Nat /\ ExistsBijection(1..n, S)
    BY FS_CardinalityType
<1>2. \E f \in [1..n -> S] : IsInjective(f)
    BY <1>1 DEF ExistsBijection, Bijection, Injection
<1>3. e \in [1..n -> S] /\ IsInjective(e)
    BY <1>2 DEF SetToSeq
<1> HIDE DEF e
<1>4. e \in Injection(1..n, S)
    BY <1>3 DEF Injection
<1>5. IsFiniteSet(1..n) /\ Cardinality(1..n) = n
    BY <1>1, FS_Interval
<1>6. e \in Surjection(1..n, S)
    BY <1>4, <1>5, FS_Injection
<1> QED
    BY <1>6 DEF Surjection, e

\* The lines there may be of some rules.
RuleLines(r) ==
    {Line("rule", r.name), Line("origin", None), Line("type", r.type),
     Line("local", r.local.at), Line("local_keep", r.local.keep)}
    \cup UNION {{Line("remote", r.storages[s].at), Line("remote_keep", r.storages[s].keep)}
                    : s \in DOMAIN r.storages}

LinesOf(rs) == UNION {RuleLines(rs[k]) : k \in DOMAIN rs}

\* What is written of a storage and of a rule.
StorageRows(s) == <<Line("remote", s.at), Line("remote_keep", s.keep)>>
StorageParts(r) ==
    [i \in 1..Cardinality(DOMAIN r.storages) |->
        StorageRows(r.storages[SetToSeq(DOMAIN r.storages)[i]])]
HeadRows(r) == <<Line("rule", r.name), Line("origin", None), Line("type", r.type)>>
LocalRows(r) ==
    IF r.type = "local" THEN <<Line("local", r.local.at), Line("local_keep", r.local.keep)>>
    ELSE <<>>
RuleRows(r) == HeadRows(r) \o LocalRows(r) \o FlattenSeq(StorageParts(r))
RuleParts(rs) ==
    [i \in 1..Cardinality(DOMAIN rs) |-> RuleRows(rs[SetToSeq(DOMAIN rs)[i]])]

LEMMA WrittenIs ==
    ASSUME NEW rs
    PROVE  Written(rs) = FlattenSeq(RuleParts(rs))
BY DEF Written, RuleParts, RuleRows, HeadRows, LocalRows, StorageParts, StorageRows

LEMMA RuleRowsType ==
    ASSUME NEW r, RuleShape(r), NEW T, RuleLines(r) \subseteq T
    PROVE  /\ Cardinality(DOMAIN r.storages) \in Nat
           /\ StorageParts(r) \in Seq(Seq(T)) /\ Len(StorageParts(r)) = Cardinality(DOMAIN r.storages)
           /\ HeadRows(r) \in Seq(T) /\ LocalRows(r) \in Seq(T)
           /\ FlattenSeq(StorageParts(r)) \in Seq(T) /\ RuleRows(r) \in Seq(T)
<1> DEFINE c == Cardinality(DOMAIN r.storages)
           e == SetToSeq(DOMAIN r.storages)
<1>1. IsFiniteSet(DOMAIN r.storages)
    BY DEF RuleShape
<1>2. c \in Nat /\ e \in [1..c -> DOMAIN r.storages]
    BY <1>1, EnumerationIs
<1>3. /\ Line("rule", r.name) \in T /\ Line("origin", None) \in T /\ Line("type", r.type) \in T
      /\ Line("local", r.local.at) \in T /\ Line("local_keep", r.local.keep) \in T
    BY DEF RuleLines
<1>4. ASSUME NEW s \in DOMAIN r.storages PROVE StorageRows(r.storages[s]) \in Seq(T)
    <2>1. Line("remote", r.storages[s].at) \in T /\ Line("remote_keep", r.storages[s].keep) \in T
        BY DEF RuleLines
    <2> QED
        BY <2>1 DEF StorageRows
<1> HIDE DEF e
<1>5. ASSUME NEW i \in 1..c PROVE StorageRows(r.storages[e[i]]) \in Seq(T)
    BY <1>2, <1>4
<1>6. StorageParts(r) = [i \in 1..c |-> StorageRows(r.storages[e[i]])]
    BY DEF e, StorageParts
<1> HIDE DEF c
<1>7. StorageParts(r) \in Seq(Seq(T)) /\ Len(StorageParts(r)) = c
    BY <1>2, <1>5, <1>6
<1>8. FlattenSeq(StorageParts(r)) \in Seq(T)
    BY <1>2, <1>7, FlattenType
<1>9. HeadRows(r) \in Seq(T) /\ LocalRows(r) \in Seq(T)
    BY <1>3 DEF HeadRows, LocalRows
<1>10. RuleRows(r) \in Seq(T)
    BY <1>8, <1>9 DEF RuleRows
<1> QED
    BY <1>2, <1>7, <1>8, <1>9, <1>10 DEF c

LEMMA RulePartsType ==
    ASSUME NEW rs, Shape(rs)
    PROVE  /\ Cardinality(DOMAIN rs) \in Nat /\ Len(RuleParts(rs)) = Cardinality(DOMAIN rs)
           /\ RuleParts(rs) \in Seq(Seq(LinesOf(rs)))
<1> DEFINE n == Cardinality(DOMAIN rs)
           e == SetToSeq(DOMAIN rs)
           T == LinesOf(rs)
<1>1. n \in Nat /\ e \in [1..n -> DOMAIN rs]
    BY EnumerationIs DEF Shape
<1>2. ASSUME NEW k \in DOMAIN rs PROVE RuleRows(rs[k]) \in Seq(T)
    <2>1. RuleShape(rs[k]) /\ RuleLines(rs[k]) \subseteq T
        BY DEF Shape, LinesOf
    <2> QED
        BY <2>1, RuleRowsType
<1> HIDE DEF e, T
<1>3. ASSUME NEW i \in 1..n PROVE RuleRows(rs[e[i]]) \in Seq(T)
    BY <1>1, <1>2
<1>4. RuleParts(rs) = [i \in 1..n |-> RuleRows(rs[e[i]])]
    BY DEF RuleParts, e
<1> HIDE DEF n
<1> QED
    BY <1>1, <1>3, <1>4 DEF n, T

LEMMA WrittenIsSeq ==
    ASSUME NEW rs, Shape(rs)
    PROVE  Written(rs) \in Seq(LinesOf(rs))
BY RulePartsType, FlattenType, WrittenIs

-----------------------------------------------------------------------------
(* The menus                                                               *)

\* What is in memory can be written; and while the user is in a menu, its
\* storages are apart.
ConfigInv ==
    /\ Len(file) \in Nat
    /\ Shape(rules)
    /\ pc \in {"menu", "edit"} => Apart(rules)

LEMMA ConfigInit == Init => ConfigInv
<1>1. DOMAIN NoRules = {} /\ IsFiniteSet({})
    BY FS_EmptySet DEF NoRules
<1> QED
    BY <1>1, FilesAssumption DEF Init, ConfigInv, Shape

LEMMA OffKeeps ==
    ASSUME ConfigInv, Off, Len(file') \in Nat
    PROVE  ConfigInv'
<1>1. DOMAIN NoRules = {} /\ IsFiniteSet({})
    BY FS_EmptySet DEF NoRules
<1> QED
    BY <1>1 DEF Off, ConfigInv, Shape

LEMMA WrittenLen ==
    ASSUME ConfigInv
    PROVE  /\ Len(Written(rules)) \in Nat
           /\ \A n \in 0..Len(Written(rules)) : Len(SubSeq(Written(rules), 1, n)) = n
           /\ \A left \in Leaves(Written(rules)) : Len(left) \in Nat
<1> DEFINE w == Written(rules)
           T == LinesOf(rules)
<1>1. w \in Seq(T)
    BY WrittenIsSeq DEF ConfigInv
<1>2. Len(file) \in Nat
    BY DEF ConfigInv
<1> HIDE DEF w, T
<1>3. Len(w) \in Nat
    BY <1>1
<1>4. ASSUME NEW n \in 0..Len(w)
      PROVE  SubSeq(w, 1, n) \in Seq(T) /\ Len(SubSeq(w, 1, n)) = n
    BY <1>1, <1>3
<1>5. ASSUME NEW n \in 0..Len(w) PROVE Len(SubSeq(w, 1, n) \o w) \in Nat
    BY <1>1, <1>4
<1>6. \A left \in Leaves(w) : Len(left) \in Nat
    BY <1>2, <1>4, <1>5 DEF Leaves
<1> QED
    BY <1>3, <1>4, <1>6 DEF w

LEMMA LaunchKeeps ==
    ASSUME ConfigInv, Launch
    PROVE  ConfigInv'
<1>1. ReadShape(load(file))
    BY LoadKeeps DEF ConfigInv
<1>2. file' = file /\ pc = "off"
    BY DEF Launch
<1>3. CASE HaveOrigins(load(file).rules)
    <2>1. rules' = load(file).rules
        BY <1>3 DEF Launch
    <2> QED
        BY <1>1, <1>2, <2>1 DEF ConfigInv, ReadShape
<1>4. CASE ~HaveOrigins(load(file).rules)
    <2>1. rules' = rules /\ pc' = pc
        BY <1>4 DEF Launch
    <2> QED
        BY <1>2, <2>1 DEF ConfigInv, Shape, Apart
<1> QED
    BY <1>3, <1>4

\* The rule that is edited is there, or nothing is changed.
LEMMA EditKeeps ==
    ASSUME ConfigInv, pc = "edit", EditField \/ AddStorage \/ EditStorage
    PROVE  ConfigInv'
<1>1. Len(file') \in Nat /\ pc' = "edit" /\ Shape(rules) /\ Apart(rules)
    BY DEF ConfigInv, EditField, AddStorage, EditStorage
<1> DEFINE old == rules[cur]
<1>2. cur \in DOMAIN rules => RuleShape(old)
    BY <1>1 DEF Shape
<1>3. ASSUME NEW r, rules' = [rules EXCEPT ![cur] = r], cur \in DOMAIN rules => RuleShape(r),
             Apart([rules EXCEPT ![cur] = r])
      PROVE  ConfigInv'
    <2>1. Shape(rules')
        BY <1>1, <1>3, ExceptShape
    <2>2. Shape(rules)'
        BY <2>1 DEF Shape
    <2>3. Apart(rules)'
        BY <1>3 DEF Apart
    <2> QED
        BY <1>1, <2>2, <2>3 DEF ConfigInv
<1>4. CASE EditField
    <2> DEFINE a(v) == [old EXCEPT !.name = v]
               b(v) == [old EXCEPT !.type = v]
               At(v) == [old.local EXCEPT !.at = v]
               Keep(v) == [old.local EXCEPT !.keep = v]
               c(x) == [old EXCEPT !.local = x]
    <2>1. \E v : \/ rules' = [rules EXCEPT ![cur] = a(v)]
                 \/ rules' = [rules EXCEPT ![cur] = b(v)]
                 \/ rules' = [rules EXCEPT ![cur] = c(At(v))]
                 \/ rules' = [rules EXCEPT ![cur] = c(Keep(v))]
        BY <1>4 DEF EditField
    <2>2. ASSUME cur \in DOMAIN rules, NEW v PROVE IsStorage(At(v)) /\ IsStorage(Keep(v))
        <3>1. IsStorage(old.local)
            BY <1>2, <2>2 DEF RuleShape
        <3> QED
            BY <3>1, StorageFieldIs, StorageIs
    <2> HIDE DEF At, Keep
    <2>3. ASSUME cur \in DOMAIN rules, NEW v
          PROVE  /\ RuleShape(a(v)) /\ a(v).storages = old.storages
                 /\ RuleShape(b(v)) /\ b(v).storages = old.storages
                 /\ RuleShape(c(At(v))) /\ c(At(v)).storages = old.storages
                 /\ RuleShape(c(Keep(v))) /\ c(Keep(v)).storages = old.storages
        BY <1>2, <2>2, <2>3, FieldShape
    <2>4. PICK v, r : /\ rules' = [rules EXCEPT ![cur] = r]
                      /\ r \in {a(v), b(v), c(At(v)), c(Keep(v))}
        BY <2>1
    <2> HIDE DEF a, b, c
    <2>5. cur \in DOMAIN rules => RuleShape(r) /\ r.storages = old.storages
        BY <2>3, <2>4
    <2>6. Apart([rules EXCEPT ![cur] = r])
        BY <1>1, <2>5, SamePlaces
    <2> QED
        BY <1>3, <2>4, <2>5, <2>6
<1>5. CASE AddStorage
    <2>1. PICK at \in Locations, keep \in Keeps :
            /\ UsedBy(rules, Real[at]) = {}
            /\ rules' = [rules EXCEPT ![cur].storages = Put(@, at, Storage(at, keep))]
        BY <1>5 DEF AddStorage, okLocation
    <2> DEFINE r == [old EXCEPT !.storages = Put(old.storages, at, Storage(at, keep))]
    <2>2. rules' = [rules EXCEPT ![cur] = r]
        BY <2>1
    <2>3. ASSUME cur \in DOMAIN rules
          PROVE  /\ RuleShape(r)
                 /\ at \in DOMAIN r.storages /\ r.storages[at].at = at
                 /\ \A s \in DOMAIN r.storages : s # at =>
                       s \in DOMAIN old.storages /\ r.storages[s].at = old.storages[s].at
        <3>1. RuleShape(r) /\ Storage(at, keep).at = at
            BY <1>2, <2>3, StorageShape
        <3>2. r.storages = Put(old.storages, at, Storage(at, keep))
            BY <1>2, <2>3 DEF RuleShape, RuleFields
        <3> HIDE DEF r, old
        <3> QED
            BY <3>1, <3>2 DEF Put
    <2> HIDE DEF r
    <2>4. Apart([rules EXCEPT ![cur] = r])
        BY <1>1, <2>1, <2>3, FreePlace
    <2> QED
        BY <1>3, <2>2, <2>3, <2>4
<1>6. CASE EditStorage
    <2>1. PICK s \in DOMAIN old.storages :
            \/ \E at \in Locations :
                 okLocation(at) /\ rules' = [rules EXCEPT ![cur].storages[s].at = at]
            \/ \E keep \in Keeps : rules' = [rules EXCEPT ![cur].storages[s].keep = keep]
        BY <1>6 DEF EditStorage
    <2> DEFINE x == old.storages[s]
               New(y) == [old EXCEPT !.storages = [old.storages EXCEPT ![s] = y]]
    <2>2. ASSUME NEW y, IsStorage(x) => IsStorage(y), cur \in DOMAIN rules
          PROVE  /\ RuleShape(New(y))
                 /\ DOMAIN New(y).storages = DOMAIN old.storages
                 /\ \A t \in DOMAIN old.storages :
                       New(y).storages[t] = IF t = s THEN y ELSE old.storages[t]
        <3>1. RuleShape(New(y))
            BY <1>2, <2>2, StorageFieldShape
        <3>2. New(y).storages = [old.storages EXCEPT ![s] = y]
            BY <1>2, <2>2 DEF RuleShape, RuleFields
        <3> HIDE DEF New, old
        <3> QED
            BY <3>1, <3>2
    <2>a. IsStorage(x) =>
            \A v : /\ IsStorage([x EXCEPT !.at = v]) /\ [x EXCEPT !.at = v].at = v
                   /\ IsStorage([x EXCEPT !.keep = v]) /\ [x EXCEPT !.keep = v].at = x.at
        <3> SUFFICES ASSUME IsStorage(x), NEW v
                     PROVE  /\ IsStorage([x EXCEPT !.at = v]) /\ [x EXCEPT !.at = v].at = v
                            /\ IsStorage([x EXCEPT !.keep = v]) /\ [x EXCEPT !.keep = v].at = x.at
            OBVIOUS
        <3> HIDE DEF x
        <3>1. [x EXCEPT !.at = v] = Storage(v, x.keep) /\ [x EXCEPT !.keep = v] = Storage(x.at, v)
            BY StorageFieldIs
        <3> QED
            BY <3>1, StorageIs
    <2>b. cur \in DOMAIN rules => IsStorage(x)
        BY <1>2, <2>1 DEF RuleShape
    <2>3. CASE \E at \in Locations :
                 okLocation(at) /\ rules' = [rules EXCEPT ![cur].storages[s].at = at]
        <3>1. PICK at \in Locations :
                UsedBy(rules, Real[at]) = {} /\ rules' = [rules EXCEPT ![cur].storages[s].at = at]
            BY <2>3 DEF okLocation
        <3> DEFINE y == [x EXCEPT !.at = at]
                   r == New(y)
        <3>2. rules' = [rules EXCEPT ![cur] = r]
            BY <3>1
        <3> HIDE DEF New, old, x
        <3>c. IsStorage(x) => IsStorage(y) /\ y.at = at
            BY <2>a
        <3> HIDE DEF y
        <3>3. cur \in DOMAIN rules =>
                 /\ RuleShape(r)
                 /\ s \in DOMAIN r.storages /\ r.storages[s].at = at
                 /\ \A t \in DOMAIN r.storages : t # s =>
                       t \in DOMAIN old.storages /\ r.storages[t].at = old.storages[t].at
            BY <2>1, <2>2, <2>b, <3>c DEF x
        <3> HIDE DEF r
        <3>4. Apart([rules EXCEPT ![cur] = r])
            <4>1. cur \in DOMAIN rules => old = rules[cur]
                BY DEF old
            <4> QED
                BY <1>1, <3>1, <3>3, <4>1, FreePlace
        <3> QED
            BY <1>3, <3>2, <3>3, <3>4
    <2>4. CASE \E keep \in Keeps : rules' = [rules EXCEPT ![cur].storages[s].keep = keep]
        <3>1. PICK keep \in Keeps : rules' = [rules EXCEPT ![cur].storages[s].keep = keep]
            BY <2>4
        <3> DEFINE y == [x EXCEPT !.keep = keep]
                   r == New(y)
        <3>2. rules' = [rules EXCEPT ![cur] = r]
            BY <3>1
        <3> HIDE DEF New, old, x
        <3>c. IsStorage(x) => IsStorage(y) /\ y.at = x.at
            BY <2>a
        <3> HIDE DEF y
        <3>3. cur \in DOMAIN rules =>
                 /\ RuleShape(r)
                 /\ DOMAIN r.storages = DOMAIN old.storages
                 /\ \A t \in DOMAIN r.storages : r.storages[t].at = old.storages[t].at
            BY <2>1, <2>2, <2>b, <3>c DEF x
        <3> HIDE DEF r
        <3>4. Apart([rules EXCEPT ![cur] = r])
            <4>1. cur \in DOMAIN rules => old = rules[cur]
                BY DEF old
            <4> QED
                BY <1>1, <3>3, <4>1, SamePlaces
        <3> QED
            BY <1>3, <3>2, <3>3, <3>4
    <2> QED
        BY <2>1, <2>3, <2>4
<1> QED
    BY <1>4, <1>5, <1>6

\* What is changed and saved need only be written.
LEMMA SavedKeeps ==
    ASSUME ConfigInv, pc' = "saving", file' = file, Shape(rules')
    PROVE  ConfigInv'
BY DEF ConfigInv, Shape

LEMMA ChangeKeeps ==
    ASSUME ConfigInv, NewRule \/ DeleteRule \/ RenameRule \/ CopyRule \/ EraseStorage
    PROVE  ConfigInv'
<1>1. pc' = "saving" /\ file' = file /\ Shape(rules)
    BY DEF ConfigInv, NewRule, DeleteRule, RenameRule, CopyRule, EraseStorage, Save
<1>2. CASE NewRule
    <2>1. PICK n \in Names, type \in {"local", "remote"},
               storages \in {NoRules} \cup {Put(NoRules, at, Storage(at, keep)) :
                                at \in {l \in Locations : okLocation(l)}, keep \in Keeps} :
            rules' = Put(rules, n, Rule(n, type, StdLocal, storages))
        BY <1>2 DEF NewRule
    <2>2. DOMAIN NoRules = {} /\ IsFiniteSet({})
        BY FS_EmptySet DEF NoRules
    <2>3. IsFiniteSet(DOMAIN storages) /\ \A s \in DOMAIN storages : IsStorage(storages[s])
        <3>1. CASE storages = NoRules
            BY <2>2, <3>1
        <3>2. CASE storages # NoRules
            <4>1. PICK at \in Locations, keep \in Keeps : storages = Put(NoRules, at, Storage(at, keep))
                BY <2>1, <3>2
            <4>2. DOMAIN storages = {at}
                BY <2>2, <4>1 DEF Put
            <4>3. storages[at] = Storage(at, keep)
                BY <4>1 DEF Put
            <4>4. IsStorage(Storage(at, keep))
                BY StorageIs
            <4>5. IsFiniteSet({at})
                <5>1. IsFiniteSet({} \cup {at})
                    BY <2>2, FS_AddElement
                <5> QED
                    BY <5>1
            <4>6. IsStorage(storages[at])
                BY <4>3, <4>4
            <4> QED
                BY <4>2, <4>5, <4>6
        <3> QED
            BY <3>1, <3>2
    <2>4. RuleShape(Rule(n, type, StdLocal, storages))
        <3>1. IsStorage(StdLocal)
            BY StorageIs DEF StdLocal
        <3> QED
            BY <2>3, <3>1, NewRuleShape
    <2>5. Shape(rules')
        BY <1>1, <2>1, <2>4, PutShape
    <2> QED
        BY <1>1, <2>5, SavedKeeps
<1>3. CASE DeleteRule
    <2>1. PICK n : rules' = [k \in DOMAIN rules \ {n} |-> rules[k]]
        BY <1>3 DEF DeleteRule
    <2>2. IsFiniteSet(DOMAIN rules \ {n})
        BY <1>1, FS_RemoveElement DEF Shape
    <2>3. Shape(rules')
        BY <1>1, <2>1, <2>2 DEF Shape
    <2> QED
        BY <1>1, <2>3, SavedKeeps
<1>4. CASE RenameRule
    <2>1. PICK k \in DOMAIN rules, n \in Names : rules' = [rules EXCEPT ![k].name = n]
        BY <1>4 DEF RenameRule
    <2> DEFINE r == [rules[k] EXCEPT !.name = n]
    <2>2. rules' = [rules EXCEPT ![k] = r]
        BY <2>1
    <2>3. RuleShape(rules[k])
        BY <1>1 DEF Shape
    <2>4. RuleShape(r)
        BY <2>3, FieldShape
    <2> HIDE DEF r
    <2>5. Shape(rules')
        BY <1>1, <2>2, <2>4, ExceptShape
    <2> QED
        BY <1>1, <2>5, SavedKeeps
<1>5. CASE CopyRule
    <2>1. PICK k \in DOMAIN rules, n \in Names : rules' = Put(rules, n, [rules[k] EXCEPT !.name = n])
        BY <1>5 DEF CopyRule
    <2>2. RuleShape(rules[k])
        BY <1>1 DEF Shape
    <2>3. RuleShape([rules[k] EXCEPT !.name = n])
        BY <2>2, FieldShape
    <2>4. Shape(rules')
        BY <1>1, <2>1, <2>3, PutShape
    <2> QED
        BY <1>1, <2>4, SavedKeeps
<1>6. CASE EraseStorage
    <2>1. PICK s \in DOMAIN rules[cur].storages :
            rules' = [rules EXCEPT ![cur].storages =
                         [t \in DOMAIN @ \ {rules[cur].storages[s].at} |-> @[t]]]
        BY <1>6 DEF EraseStorage
    <2> DEFINE old == rules[cur]
               left == DOMAIN old.storages \ {old.storages[s].at}
               ss == [t \in left |-> old.storages[t]]
               r == [old EXCEPT !.storages = ss]
    <2>2. rules' = [rules EXCEPT ![cur] = r]
        BY <2>1
    <2>3. ASSUME cur \in DOMAIN rules PROVE RuleShape(r)
        <3>1. RuleShape(old)
            BY <1>1, <2>3 DEF Shape
        <3>2. IsFiniteSet(left)
            BY <3>1, FS_RemoveElement DEF RuleShape
        <3>3. DOMAIN r = RuleFields /\ r.storages = ss /\ r.local = old.local
            <4> HIDE DEF ss
            <4> QED BY <3>1 DEF RuleShape, RuleFields
        <3>4. DOMAIN ss = left /\ \A t \in left : IsStorage(ss[t])
            BY <3>1 DEF RuleShape
        <3> HIDE DEF r, ss, left
        <3> QED
            BY <3>1, <3>2, <3>3, <3>4 DEF RuleShape
    <2> HIDE DEF r
    <2>4. Shape(rules')
        BY <1>1, <2>2, <2>3, ExceptShape
    <2> QED
        BY <1>1, <2>4, SavedKeeps
<1> QED
    BY <1>2, <1>3, <1>4, <1>5, <1>6

LEMMA SaveKeeps ==
    ASSUME ConfigInv, FinishSave
    PROVE  ConfigInv'
<1>1. Len(file') \in Nat
    BY WrittenLen DEF FinishSave
<1> DEFINE l == load(file')
           Good == l.ok /\ HaveOrigins(l.rules) /\ (back = "edit" => cur \in DOMAIN l.rules)
<1>2. ReadShape(l)
    BY <1>1, LoadKeeps
<1>3. CASE Good
    <2>1. rules' = l.rules
        BY <1>3 DEF FinishSave
    <2> HIDE DEF l
    <2> QED
        BY <1>1, <1>2, <2>1 DEF ConfigInv, ReadShape
<1>4. CASE ~Good
    <2>1. Off
        BY <1>4 DEF FinishSave
    <2> QED
        BY <1>1, <2>1, OffKeeps
<1> QED
    BY <1>3, <1>4

LEMMA MenuKeeps ==
    ASSUME ConfigInv, Menus
    PROVE  ConfigInv'
<1>1. CASE Quit \/ LostRule \/ Crash
    <2>1. Off
        BY <1>1 DEF Quit, LostRule, Crash
    <2>2. Len(file') \in Nat
        <3>1. CASE file' = file
            BY <3>1 DEF ConfigInv
        <3>2. CASE file' # file
            <4>1. PICK n \in 0..Len(Written(rules)) : file' = SubSeq(Written(rules), 1, n)
                BY <1>1, <3>2 DEF Quit, LostRule, Crash
            <4> QED
                BY <4>1, WrittenLen
        <3> QED
            BY <3>1, <3>2
    <2> QED
        BY <2>1, <2>2, OffKeeps
<1>2. CASE FinishSave
    BY <1>2, SaveKeeps
<1>3. CASE EditRule \/ DiscardNewRule \/ LeaveRule
    <2>1. file' = file /\ rules' = rules /\ pc \in {"menu", "edit"}
        BY <1>3 DEF EditRule, DiscardNewRule, LeaveRule
    <2> QED
        BY <2>1 DEF ConfigInv, Shape, Apart
<1>4. CASE SaveRule
    <2>1. pc' = "saving" /\ file' = file /\ rules' = rules
        BY <1>4 DEF SaveRule, Save
    <2> QED
        BY <2>1 DEF ConfigInv, Shape
<1>5. CASE EditField \/ AddStorage \/ EditStorage
    <2>1. pc = "edit"
        BY <1>5 DEF EditField, AddStorage, EditStorage
    <2> QED
        BY <1>5, <2>1, EditKeeps
<1>6. CASE NewRule \/ DeleteRule \/ RenameRule \/ CopyRule \/ EraseStorage
    BY <1>6, ChangeKeeps
<1> QED
    BY <1>1, <1>2, <1>3, <1>4, <1>5, <1>6 DEF Menus

LEMMA ConfigStays ==
    ASSUME ConfigInv, UNCHANGED vars
    PROVE  ConfigInv'
BY DEF vars, ConfigInv, Shape, Apart

\* Rules that are apart have one rule and one storage for every place.
LEMMA ApartIsOne == ConfigInv => OneRulePerLocation
<1> SUFFICES ASSUME ConfigInv, pc \in {"menu", "edit"},
                    NEW at \in Locations, Real[at] = at,
                    NEW k \in UsedBy(rules, at), NEW l \in UsedBy(rules, at)
             PROVE  /\ k = l
                    /\ \A s, t \in DOMAIN rules[k].storages :
                         (rules[k].storages[s].at = at /\ rules[k].storages[t].at = at) => s = t
    BY DEF OneRulePerLocation
<1>1. Apart(rules)
    BY DEF ConfigInv
<1>2. k \in DOMAIN rules /\ \E s \in DOMAIN rules[k].storages : rules[k].storages[s].at = at
    BY DEF UsedBy
<1>3. l \in DOMAIN rules /\ \E s \in DOMAIN rules[l].storages : rules[l].storages[s].at = at
    BY DEF UsedBy
<1> QED
    BY <1>1, <1>2, <1>3 DEF Apart

-----------------------------------------------------------------------------
(* Reading back what was written                                           *)

\* Some rows are read, after the first o lines, and none of them is refused.
Follows(F, o, rows) ==
    \A j \in 1..Len(rows) :
        /\ ReadShape(F[o + j - 1]) /\ F[o + j] = parseRow(F[o + j - 1], rows[j])
        /\ F[o + j].ok

LEMMA FollowsBoth ==
    ASSUME NEW F, NEW T, NEW o \in Nat, NEW a, a \in Seq(T), NEW b, b \in Seq(T),
           Follows(F, o, a \o b)
    PROVE  Follows(F, o, a) /\ Follows(F, o + Len(a), b)
<1> DEFINE c == a \o b
<1>1. /\ Len(a) \in Nat /\ Len(b) \in Nat /\ Len(c) = Len(a) + Len(b)
      /\ \A j \in 1..Len(a) : c[j] = a[j]
      /\ \A j \in 1..Len(b) : c[Len(a) + j] = b[j]
    OBVIOUS
<1>2. \A j \in 1..Len(c) : /\ ReadShape(F[o + j - 1]) /\ F[o + j] = parseRow(F[o + j - 1], c[j])
                           /\ F[o + j].ok
    BY DEF Follows
<1> HIDE DEF c
<1>3. ASSUME NEW j \in 1..Len(a)
      PROVE  /\ ReadShape(F[o + j - 1]) /\ F[o + j] = parseRow(F[o + j - 1], a[j])
             /\ F[o + j].ok
    <2>1. j \in 1..Len(c) /\ c[j] = a[j]
        BY <1>1, <1>3
    <2> QED
        BY <1>2, <2>1
<1>4. ASSUME NEW j \in 1..Len(b)
      PROVE  /\ ReadShape(F[o + Len(a) + j - 1])
             /\ F[o + Len(a) + j] = parseRow(F[o + Len(a) + j - 1], b[j])
             /\ F[o + Len(a) + j].ok
    <2>1. Len(a) + j \in 1..Len(c) /\ c[Len(a) + j] = b[j]
        BY <1>1, <1>4
    <2>2. o + (Len(a) + j) = o + Len(a) + j /\ o + (Len(a) + j) - 1 = o + Len(a) + j - 1
        BY <1>1, <1>4
    <2> QED
        BY <1>2, <2>1, <2>2
<1> QED
    BY <1>3, <1>4 DEF Follows

\* Where the reader is before and after every part.
Marks(F, off, o, seqs, n) ==
    /\ off[0] = o /\ off[n] = o + Len(FlattenSeq(seqs))
    /\ \A i \in 1..n :
          /\ off[i - 1] \in Nat /\ off[i] = off[i - 1] + Len(seqs[i])
          /\ Follows(F, off[i - 1], seqs[i])

LEMMA FollowsParts ==
    ASSUME NEW F, NEW T, NEW o \in Nat, NEW n \in Nat, NEW seqs, seqs \in Seq(Seq(T)), Len(seqs) = n,
           Follows(F, o, FlattenSeq(seqs))
    PROVE  \E off : Marks(F, off, o, seqs, n)
<1>1. PICK at : Offsets(at, seqs, n)
    BY FlattenParts
<1> DEFINE off == [i \in 0..n |-> o + at[i]]
<1>2. /\ at[0] = 0 /\ at[n] = Len(FlattenSeq(seqs))
      /\ \A i \in 1..n :
          /\ at[i - 1] \in Nat /\ at[i] = at[i - 1] + Len(seqs[i]) /\ at[i] <= at[n]
          /\ \A j \in 1..Len(seqs[i]) : FlattenSeq(seqs)[at[i - 1] + j] = seqs[i][j]
    BY <1>1 DEF Offsets
<1>3. \A i \in 0..n : off[i] = o + at[i]
    OBVIOUS
<1> HIDE DEF off
<1>4. off[0] = o /\ off[n] = o + Len(FlattenSeq(seqs))
    <2>1. 0 \in 0..n /\ n \in 0..n
        OBVIOUS
    <2>2. off[0] = o + at[0] /\ off[n] = o + at[n]
        BY <1>3, <2>1
    <2>3. off[0] = o
        BY <1>2, <2>2
    <2> QED
        BY <1>2, <2>2, <2>3, Zenon
<1>5. ASSUME NEW i \in 1..n
      PROVE  /\ off[i - 1] \in Nat /\ off[i] = off[i - 1] + Len(seqs[i])
             /\ Follows(F, off[i - 1], seqs[i])
    <2>1. i - 1 \in 0..n /\ i \in 0..n
        BY <1>5
    <2>2. Len(seqs[i]) \in Nat
        BY <1>5
    <2>3. /\ at[i - 1] \in Nat /\ at[i] = at[i - 1] + Len(seqs[i])
          /\ at[i] <= Len(FlattenSeq(seqs))
        BY <1>2, <1>5
    <2>4. off[i - 1] = o + at[i - 1] /\ off[i] = o + at[i]
        BY <1>3, <2>1
    <2>5. off[i - 1] \in Nat /\ off[i] = off[i - 1] + Len(seqs[i])
        BY <2>2, <2>3, <2>4
    <2>6. ASSUME NEW j \in 1..Len(seqs[i])
          PROVE  /\ ReadShape(F[off[i - 1] + j - 1])
                 /\ F[off[i - 1] + j] = parseRow(F[off[i - 1] + j - 1], seqs[i][j])
                 /\ F[off[i - 1] + j].ok
        <3> DEFINE k == at[i - 1] + j
        <3>0. Len(FlattenSeq(seqs)) \in Nat
            <4>1. FlattenSeq(seqs) \in Seq(T)
                BY FlattenType
            <4> QED
                BY <4>1
        <3>1. k \in 1..Len(FlattenSeq(seqs))
            BY <2>2, <2>3, <2>6, <3>0
        <3>2. FlattenSeq(seqs)[k] = seqs[i][j]
            BY <1>2, <1>5, <2>6
        <3>3. off[i - 1] + j = o + k /\ off[i - 1] + j - 1 = o + k - 1
            BY <2>3, <2>4, <2>6
        <3> HIDE DEF k
        <3>4. /\ ReadShape(F[o + k - 1]) /\ F[o + k] = parseRow(F[o + k - 1], FlattenSeq(seqs)[k])
              /\ F[o + k].ok
            BY <3>1 DEF Follows
        <3> QED
            BY <3>2, <3>3, <3>4
    <2> QED
        BY <2>5, <2>6 DEF Follows
<1>6. Marks(F, off, o, seqs, n)
    BY <1>4, <1>5 DEF Marks
<1> QED
    BY <1>6

\* What one row does that is not refused.
WithLocal(l, v) == [l EXCEPT !.rules[l.rule].local = v]
WithLocalAt(l, v) == [l EXCEPT !.rules[l.rule].local.at = v]
WithLocalKeep(l, v) == [l EXCEPT !.rules[l.rule].local.keep = v]
WithType(l, v) == [l EXCEPT !.rules[l.rule].type = v]
WithStorageKeep(l, v) == [l EXCEPT !.rules[l.storage[1]].storages[l.storage[2]].keep = v]

LEMMA RowDoes ==
    ASSUME NEW l, ReadShape(l), NEW key, NEW v, parseRow(l, Line(key, v)).ok
    PROVE  /\ l.ok
           /\ key = "rule" => parseRow(l, Line(key, v)) = parseRule(l, v)
           /\ key = "origin" => parseRow(l, Line(key, v)) = WithLocal(l, StdLocal)
           /\ key = "type" => parseRow(l, Line(key, v)) = WithType(l, v)
           /\ key = "local" => parseRow(l, Line(key, v)) = WithLocalAt(l, v)
           /\ key = "local_keep" => parseRow(l, Line(key, v)) = WithLocalKeep(l, v)
           /\ key = "remote" => parseRow(l, Line(key, v)) = parseRemote(l, v)
           /\ key = "remote_keep" => parseRow(l, Line(key, v)) = WithStorageKeep(l, v)
<1> DEFINE row == Line(key, v)
           Bad == Rejected(l, row)
           A == parseRule(l, row.value)
           B == [l EXCEPT !.rules[l.rule].local = StdLocal]
           C == [l EXCEPT !.rules[l.rule].type = row.value]
           D == [l EXCEPT !.rules[l.rule].local.at = row.value]
           K == [l EXCEPT !.rules[l.rule].local.keep = row.value]
           E == parseRemote(l, row.value)
           F == [l EXCEPT !.rules[l.storage[1]].storages[l.storage[2]].keep = row.value]
<1>1. parseRow(l, row) =
        IF Bad THEN Failed(l)
        ELSE CASE row.key = "rule"   -> A
               [] row.key = "origin" -> B
               [] row.key = "type"   -> C
               [] row.key = "local"  -> D
               [] row.key = "local_keep" -> K
               [] row.key = "remote" -> E
               [] row.key = "remote_keep" -> F
    BY Zenon DEF parseRow
<1>2. Failed(l).ok = FALSE
    BY DEF Failed, ReadShape
<1>3. row.key = key /\ row.value = v
    BY DEF Line
<1>4. l.ok \/ Bad
    BY DEF Rejected
<1> HIDE DEF Bad, A, B, C, D, E, F, K, row
<1>5. ~Bad
    BY <1>1, <1>2 DEF row
<1>6. /\ key = "rule" => parseRow(l, row) = A
      /\ key = "origin" => parseRow(l, row) = B
      /\ key = "type" => parseRow(l, row) = C
      /\ key = "local" => parseRow(l, row) = D
      /\ key = "local_keep" => parseRow(l, row) = K
      /\ key = "remote" => parseRow(l, row) = E
      /\ key = "remote_keep" => parseRow(l, row) = F
    BY <1>1, <1>3, <1>5
<1>7. A = parseRule(l, v) /\ E = parseRemote(l, v)
    BY <1>3 DEF A, E
<1>8. /\ B = WithLocal(l, StdLocal) /\ C = WithType(l, v) /\ D = WithLocalAt(l, v)
      /\ K = WithLocalKeep(l, v) /\ F = WithStorageKeep(l, v)
    BY <1>3, Zenon DEF B, C, D, K, F, WithLocal, WithLocalAt, WithLocalKeep, WithType, WithStorageKeep
<1> QED
    BY <1>4, <1>5, <1>6, <1>7, <1>8, Zenon DEF row

\* The rule that is read, so far, beside the rules before it.
Reading(l, base, name, type, local, ss) ==
    /\ l.rule = name
    /\ l.rules = Put(base, name, Rule(name, type, local, ss))

LEMMA PutAgain ==
    ASSUME NEW base, NEW k, NEW x, NEW y
    PROVE  /\ Put(base, k, x)[k] = x
           /\ [Put(base, k, x) EXCEPT ![k] = y] = Put(base, k, y)
<1> DEFINE a == Put(base, k, x)
           b == [a EXCEPT ![k] = y]
<1>1. /\ a = [m \in DOMAIN base \cup {k} |-> a[m]]
      /\ a[k] = x /\ \A m \in DOMAIN base : m # k => a[m] = base[m]
    BY DEF Put
<1>2. Put(base, k, y) = [m \in DOMAIN base \cup {k} |-> IF m = k THEN y ELSE base[m]]
    BY DEF Put
<1> HIDE DEF a
<1>3. b = [m \in DOMAIN base \cup {k} |-> IF m = k THEN y ELSE a[m]]
    BY <1>1
<1>4. b = [m \in DOMAIN base \cup {k} |-> IF m = k THEN y ELSE base[m]]
    BY <1>1, <1>3
<1> HIDE DEF b
<1>5. b = Put(base, k, y)
    BY <1>2, <1>4
<1> QED
    BY <1>1, <1>5 DEF a, b

LEMMA RuleFieldsAre ==
    ASSUME NEW n, NEW t, NEW k, NEW ss, NEW v
    PROVE  /\ [Rule(n, t, k, ss) EXCEPT !.type = v] = Rule(n, v, k, ss)
           /\ [Rule(n, t, k, ss) EXCEPT !.local = v] = Rule(n, t, v, ss)
           /\ [Rule(n, t, k, ss) EXCEPT !.storages = v] = Rule(n, t, k, v)
           /\ Rule(n, t, k, ss).name = n /\ Rule(n, t, k, ss).type = t
           /\ Rule(n, t, k, ss).local = k /\ Rule(n, t, k, ss).storages = ss
BY DEF Rule

\* The rows of a rule, one by one.
LEMMA NameRead ==
    ASSUME NEW l, ReadShape(l), NEW v, parseRow(l, Line("rule", v)).ok
    PROVE  /\ v \notin DOMAIN l.rules
           /\ Reading(parseRow(l, Line("rule", v)), l.rules, v, "local", NoLocal, NoRules)
<1> DEFINE rs == Put(l.rules, v, Rule(v, "local", NoLocal, NoRules))
<1>1. parseRow(l, Line("rule", v)) = parseRule(l, v)
    BY RowDoes
<1>2. Failed(l).ok = FALSE
    BY DEF Failed, ReadShape
<1>3. parseRule(l, v) = IF v \in DOMAIN l.rules THEN Failed(l) ELSE [l EXCEPT !.rules = rs, !.rule = v]
    BY DEF parseRule
<1> HIDE DEF rs
<1>4. v \notin DOMAIN l.rules
    BY <1>1, <1>2, <1>3
<1>5. [l EXCEPT !.rules = rs, !.rule = v].rules = rs /\ [l EXCEPT !.rules = rs, !.rule = v].rule = v
    BY DEF ReadShape
<1> QED
    BY <1>1, <1>3, <1>4, <1>5 DEF Reading, rs

\* The place or the keep rule of a local storage.
AtPlace(x, v) == [x EXCEPT !.at = v]
WithKeep(x, v) == [x EXCEPT !.keep = v]

LEMMA FieldRead ==
    ASSUME NEW l, ReadShape(l), NEW base, NEW n, NEW t, NEW k, NEW ss,
           Reading(l, base, n, t, k, ss), NEW v
    PROVE  /\ parseRow(l, Line("origin", v)).ok
                => Reading(parseRow(l, Line("origin", v)), base, n, t, StdLocal, ss)
           /\ parseRow(l, Line("type", v)).ok
                => Reading(parseRow(l, Line("type", v)), base, n, v, k, ss)
           /\ parseRow(l, Line("local", v)).ok
                => Reading(parseRow(l, Line("local", v)), base, n, t, AtPlace(k, v), ss)
           /\ parseRow(l, Line("local_keep", v)).ok
                => Reading(parseRow(l, Line("local_keep", v)), base, n, t, WithKeep(k, v), ss)
<1> DEFINE r == Rule(n, t, k, ss)
           InLocal(w) == [r EXCEPT !.local = w]
           OfType(w) == [r EXCEPT !.type = w]
           New(w) == [l EXCEPT !.rules = [@ EXCEPT ![n] = w]]
<1>1. l.rule = n /\ l.rules = Put(base, n, r) /\ l.rules[n] = r /\ r.local = k
    BY PutAgain, RuleFieldsAre DEF Reading
<1>2. ASSUME NEW w
      PROVE  /\ WithLocal(l, w) = New(InLocal(w))
             /\ WithLocalAt(l, w) = New(InLocal(AtPlace(r.local, w)))
             /\ WithLocalKeep(l, w) = New(InLocal(WithKeep(r.local, w)))
             /\ WithType(l, w) = New(OfType(w))
    <2> HIDE DEF r
    <2> QED
        BY <1>1 DEF WithLocal, WithLocalAt, WithLocalKeep, WithType, AtPlace, WithKeep
<1> HIDE DEF r
<1>3. ASSUME NEW w
      PROVE  New(w).rules = Put(base, n, w) /\ New(w).rule = n
    <2>1. [l.rules EXCEPT ![n] = w] = Put(base, n, w)
        BY <1>1, PutAgain
    <2> QED
        BY <1>1, <2>1 DEF ReadShape
<1>4. ASSUME NEW w
      PROVE  InLocal(w) = Rule(n, t, w, ss) /\ OfType(w) = Rule(n, w, k, ss)
    BY RuleFieldsAre DEF r
<1> HIDE DEF New, InLocal, OfType
<1>5. ASSUME NEW w
      PROVE  /\ WithLocal(l, w) = New(Rule(n, t, w, ss))
             /\ WithLocalAt(l, w) = New(Rule(n, t, AtPlace(k, w), ss))
             /\ WithLocalKeep(l, w) = New(Rule(n, t, WithKeep(k, w), ss))
             /\ WithType(l, w) = New(Rule(n, w, k, ss))
    BY <1>1, <1>2, <1>4
<1>6. \A type, local : Reading(New(Rule(n, type, local, ss)), base, n, type, local, ss)
    BY <1>3 DEF Reading
<1>7. ASSUME NEW w
      PROVE  /\ Reading(WithLocal(l, w), base, n, t, w, ss)
             /\ Reading(WithLocalAt(l, w), base, n, t, AtPlace(k, w), ss)
             /\ Reading(WithLocalKeep(l, w), base, n, t, WithKeep(k, w), ss)
             /\ Reading(WithType(l, w), base, n, w, k, ss)
    BY <1>5, <1>6
<1> QED
    BY <1>7, RowDoes

\* A storage is two rows.
LEMMA PlaceRead ==
    ASSUME NEW l, ReadShape(l), NEW base, NEW n, NEW t, NEW k, NEW ss,
           Reading(l, base, n, t, k, ss), NEW at, parseRow(l, Line("remote", at)).ok
    PROVE  /\ Real[at] = at => \A s \in DOMAIN ss : ss[s].at # at
           /\ Reading(parseRow(l, Line("remote", at)), base, n, t, k, Put(ss, at, Entry(ss, at)))
           /\ parseRow(l, Line("remote", at)).storage = <<n, at>>
<1> DEFINE r == Rule(n, t, k, ss)
           new == Put(ss, at, Entry(ss, at))
           q == Rule(n, t, k, new)
<1>1. l.rule = n /\ l.rules = Put(base, n, r) /\ l.rules[n] = r
    BY PutAgain DEF Reading
<1>2. parseRow(l, Line("remote", at)) = parseRemote(l, at)
    BY RowDoes
<1>3. Failed(l).ok = FALSE
    BY DEF Failed, ReadShape
<1>4. r.storages = ss /\ [r EXCEPT !.storages = new] = q
    BY RuleFieldsAre
<1>5. parseRemote(l, at) =
        IF UsedBy(l.rules, Real[at]) # {} THEN Failed(l)
        ELSE [l EXCEPT !.rules = [@ EXCEPT ![n] = [r EXCEPT !.storages = new]], !.storage = <<n, at>>]
    <2> DEFINE a == Entry(ss, at)
    <2>1. parseRemote(l, at) =
            IF UsedBy(l.rules, Real[at]) # {} THEN Failed(l)
            ELSE [l EXCEPT !.rules[l.rule].storages = Put(@, at, Entry(@, at)), !.storage = <<l.rule, at>>]
        BY DEF parseRemote
    <2> HIDE DEF a, r
    <2>2. [l EXCEPT !.rules[l.rule].storages = Put(@, at, Entry(@, at)), !.storage = <<l.rule, at>>]
            = [l EXCEPT !.rules = [@ EXCEPT ![n] = [r EXCEPT !.storages = Put(r.storages, at, Entry(r.storages, at))]],
                        !.storage = <<n, at>>]
        BY <1>1
    <2> QED
        BY <1>4, <2>1, <2>2 DEF a
<1>6. UsedBy(l.rules, Real[at]) = {}
    BY <1>2, <1>3, <1>5
<1>7. n \in DOMAIN l.rules
    BY <1>1 DEF Put
<1> HIDE DEF r, q, new
<1>8. Real[at] = at => \A s \in DOMAIN ss : ss[s].at # at
    BY <1>1, <1>4, <1>6, <1>7 DEF UsedBy
<1>9. [l.rules EXCEPT ![n] = q] = Put(base, n, q)
    BY <1>1, PutAgain
<1>10. parseRemote(l, at) = [l EXCEPT !.rules = Put(base, n, q), !.storage = <<n, at>>]
    BY <1>4, <1>5, <1>6, <1>9
<1>11. /\ parseRemote(l, at).rules = Put(base, n, q) /\ parseRemote(l, at).rule = n
       /\ parseRemote(l, at).storage = <<n, at>>
    BY <1>1, <1>10 DEF ReadShape
<1> QED
    BY <1>2, <1>8, <1>11 DEF Reading, q, new

LEMMA KeepRead ==
    ASSUME NEW l, ReadShape(l), NEW base, NEW n, NEW t, NEW k, NEW ss, NEW at, NEW v,
           Reading(l, base, n, t, k, Put(ss, at, Entry(ss, at))), l.storage = <<n, at>>,
           parseRow(l, Line("remote_keep", v)).ok
    PROVE  Reading(parseRow(l, Line("remote_keep", v)), base, n, t, k, Put(ss, at, Storage(at, v)))
<1> DEFINE old == Put(ss, at, Entry(ss, at))
           new == Put(ss, at, Storage(at, v))
           r == Rule(n, t, k, old)
           q == Rule(n, t, k, new)
<1>1. l.rule = n /\ l.rules = Put(base, n, r) /\ l.rules[n] = r
    BY PutAgain DEF Reading
<1>2. parseRow(l, Line("remote_keep", v)) = WithStorageKeep(l, v)
    BY RowDoes
<1>3. r.storages = old /\ [r EXCEPT !.storages = new] = q
    BY RuleFieldsAre
<1>4. old[at] = Entry(ss, at) /\ [old EXCEPT ![at] = Storage(at, v)] = new
    BY PutAgain
<1>5. [Entry(ss, at) EXCEPT !.keep = v] = Storage(at, v)
    BY DEF Entry, Storage
<1>6. l.storage[1] = n /\ l.storage[2] = at
    OBVIOUS
<1> HIDE DEF old, new, r, q
<1>7. WithStorageKeep(l, v)
        = [l EXCEPT !.rules = [l.rules EXCEPT ![n] =
             [r EXCEPT !.storages = [old EXCEPT ![at] = [old[at] EXCEPT !.keep = v]]]]]
    BY <1>1, <1>3, <1>6 DEF WithStorageKeep
<1>8. [l.rules EXCEPT ![n] = q] = Put(base, n, q)
    BY <1>1, PutAgain
<1>9. parseRow(l, Line("remote_keep", v)) = [l EXCEPT !.rules = Put(base, n, q)]
    BY <1>2, <1>3, <1>4, <1>5, <1>7, <1>8
<1>10. /\ parseRow(l, Line("remote_keep", v)).rules = Put(base, n, q)
       /\ parseRow(l, Line("remote_keep", v)).rule = n
    BY <1>1, <1>9 DEF ReadShape
<1> QED
    BY <1>10 DEF Reading, q, new

\* The storages that were read are some storages, each by its place; those that are
\* given by links may have become one.
AtReal(V) == {x \in V : Real[x.at] = x.at}
Gathered(ss, V) ==
    AtReal({ss[s] : s \in DOMAIN ss}) = AtReal(V) /\ \A s \in DOMAIN ss : ss[s].at = s

LEMMA GathersOne ==
    ASSUME NEW ss, NEW V, Gathered(ss, V), NEW at, NEW k,
           Real[at] = at => \A s \in DOMAIN ss : ss[s].at # at
    PROVE  Gathered(Put(ss, at, Storage(at, k)), V \cup {Storage(at, k)})
<1> DEFINE x == Storage(at, k)
           q == Put(ss, at, x)
<1>1. Real[at] = at => at \notin DOMAIN ss
    BY DEF Gathered
<1>2. x.at = at
    BY StorageIs
<1>3. DOMAIN q = DOMAIN ss \cup {at} /\ q[at] = x /\ \A s \in DOMAIN ss : s # at => q[s] = ss[s]
    BY DEF Put
<1> HIDE DEF x, q
<1>4. \A s \in DOMAIN q : q[s].at = s
    BY <1>2, <1>3 DEF Gathered
<1>5. AtReal({q[s] : s \in DOMAIN q}) = AtReal({ss[s] : s \in DOMAIN ss} \cup {x})
    <2>1. ASSUME NEW y, Real[y.at] = y.at
          PROVE  (\E s \in DOMAIN q : y = q[s]) <=> (y = x \/ \E s \in DOMAIN ss : y = ss[s])
        BY <1>1, <1>2, <1>3, <1>4, <2>1 DEF Gathered
    <2> QED
        BY <2>1 DEF AtReal
<1>6. AtReal({ss[s] : s \in DOMAIN ss} \cup {x}) = AtReal(V \cup {x})
    BY DEF Gathered, AtReal
<1> QED
    BY <1>4, <1>5, <1>6 DEF Gathered, q, x

LEMMA StorageRead ==
    ASSUME NEW F, NEW o \in Nat, NEW s, Follows(F, o, StorageRows(s)),
           NEW base, NEW n, NEW t, NEW k, NEW ss, Reading(F[o], base, n, t, k, ss)
    PROVE  /\ Real[s.at] = s.at => \A x \in DOMAIN ss : ss[x].at # s.at
           /\ Reading(F[o + 2], base, n, t, k, Put(ss, s.at, Storage(s.at, s.keep)))
<1> DEFINE a == Line("remote", s.at)
           b == Line("remote_keep", s.keep)
<1>1. Len(StorageRows(s)) = 2 /\ StorageRows(s)[1] = a /\ StorageRows(s)[2] = b
    BY DEF StorageRows
<1> HIDE DEF a, b
<1>2. o + 1 - 1 = o /\ o + 2 - 1 = o + 1 /\ 1 \in 1..2 /\ 2 \in 1..2
    OBVIOUS
<1>3. /\ ReadShape(F[o]) /\ F[o + 1] = parseRow(F[o], a) /\ F[o + 1].ok
      /\ ReadShape(F[o + 1]) /\ F[o + 2] = parseRow(F[o + 1], b) /\ F[o + 2].ok
    BY <1>1, <1>2 DEF Follows
<1>4. /\ Real[s.at] = s.at => \A x \in DOMAIN ss : ss[x].at # s.at
      /\ Reading(F[o + 1], base, n, t, k, Put(ss, s.at, Entry(ss, s.at)))
      /\ F[o + 1].storage = <<n, s.at>>
    BY <1>3, PlaceRead DEF a
<1>5. Reading(F[o + 2], base, n, t, k, Put(ss, s.at, Storage(s.at, s.keep)))
    BY <1>3, <1>4, KeepRead DEF b
<1> QED
    BY <1>4, <1>5

\* All storages of a rule are read back.
LEMMA StoragesRead ==
    ASSUME NEW F, NEW o \in Nat, NEW r, RuleShape(r), Follows(F, o, FlattenSeq(StorageParts(r))),
           NEW base, NEW n, NEW t, NEW k, Reading(F[o], base, n, t, k, NoRules)
    PROVE  \E ss : /\ Reading(F[o + Len(FlattenSeq(StorageParts(r)))], base, n, t, k, ss)
                   /\ Gathered(ss, {r.storages[s] : s \in DOMAIN r.storages})
<1> DEFINE c == Cardinality(DOMAIN r.storages)
           e == SetToSeq(DOMAIN r.storages)
           parts == StorageParts(r)
           T == RuleLines(r)
<1>1. c \in Nat /\ parts \in Seq(Seq(T)) /\ Len(parts) = c
    BY RuleRowsType
<1>2. PICK off : Marks(F, off, o, parts, c)
    BY <1>1, FollowsParts
<1>3. /\ off[0] = o /\ off[c] = o + Len(FlattenSeq(parts))
      /\ \A i \in 1..c : /\ off[i - 1] \in Nat /\ off[i] = off[i - 1] + Len(parts[i])
                         /\ Follows(F, off[i - 1], parts[i])
    BY <1>2 DEF Marks
<1>4. /\ e \in [1..c -> DOMAIN r.storages]
      /\ \A s \in DOMAIN r.storages : \E i \in 1..c : e[i] = s
    BY EnumerationIs, EnumerationIsAll DEF RuleShape
<1>5. \A i \in 1..c : parts[i] = StorageRows(r.storages[e[i]])
    BY DEF StorageParts
<1>6. \A i \in 1..c : Len(parts[i]) = 2
    BY <1>5 DEF StorageRows
<1> DEFINE First(i) == {r.storages[e[m]] : m \in 1..i}
           Done(i) == \E ss : Reading(F[off[i]], base, n, t, k, ss) /\ Gathered(ss, First(i))
           D == {i \in 0..c : ~Done(i)}
<1> HIDE DEF e, parts
<1>7. Done(0)
    <2>1. DOMAIN NoRules = {}
        BY DEF NoRules
    <2>2. Gathered(NoRules, First(0))
        BY <2>1 DEF Gathered
    <2> QED
        BY <1>3, <2>2
<1>8. ASSUME NEW i \in 1..c, Done(i - 1) PROVE Done(i)
    <2>1. PICK ss : Reading(F[off[i - 1]], base, n, t, k, ss) /\ Gathered(ss, First(i - 1))
        BY <1>8
    <2> DEFINE s == r.storages[e[i]]
    <2>2. off[i - 1] \in Nat /\ off[i] = off[i - 1] + 2 /\ Follows(F, off[i - 1], StorageRows(s))
        BY <1>3, <1>5, <1>6, <1>8
    <2>3. IsStorage(s)
        BY <1>4, <1>8 DEF RuleShape
    <2>4. First(i) = First(i - 1) \cup {s}
        <3>1. 1..i = (1..(i - 1)) \cup {i}
            BY <1>8
        <3> QED
            BY <3>1
    <2> HIDE DEF s, First
    <2>5. /\ Real[s.at] = s.at => \A x \in DOMAIN ss : ss[x].at # s.at
          /\ Reading(F[off[i - 1] + 2], base, n, t, k, Put(ss, s.at, Storage(s.at, s.keep)))
        BY <2>1, <2>2, StorageRead
    <2>6. Gathered(Put(ss, s.at, Storage(s.at, s.keep)), First(i - 1) \cup {Storage(s.at, s.keep)})
        BY <2>1, <2>5, GathersOne
    <2>7. Storage(s.at, s.keep) = s
        BY <2>3 DEF IsStorage
    <2>8. Gathered(Put(ss, s.at, Storage(s.at, s.keep)), First(i))
        BY <2>4, <2>6, <2>7
    <2>9. Reading(F[off[i]], base, n, t, k, Put(ss, s.at, Storage(s.at, s.keep)))
        BY <2>2, <2>5
    <2> QED
        BY <2>8, <2>9
<1> HIDE DEF Done
<1>9. D = {}
    <2> SUFFICES ASSUME D # {} PROVE FALSE
        OBVIOUS
    <2>1. D \subseteq Nat
        BY <1>1
    <2>2. PICK i \in D : \A j \in D : i <= j
        <3> HIDE DEF D
        <3> QED BY <2>1, SmallestOf
    <2>3. i \in 0..c /\ ~Done(i)
        BY <2>2
    <2>4. i \in 1..c /\ i - 1 \in 0..c /\ i - 1 < i
        BY <1>1, <1>7, <2>3
    <2>5. i - 1 \notin D
        BY <1>1, <2>2, <2>4
    <2> QED
        BY <1>8, <2>3, <2>4, <2>5
<1>10. Done(c)
    <2>1. c \in 0..c
        BY <1>1
    <2> QED
        BY <1>9, <2>1
<1>11. First(c) = {r.storages[s] : s \in DOMAIN r.storages}
    BY <1>4
<1> HIDE DEF First
<1> QED
    BY <1>3, <1>10, <1>11 DEF Done, parts

LEMMA HeadRead ==
    ASSUME NEW F, NEW o \in Nat, NEW r, Follows(F, o, HeadRows(r))
    PROVE  /\ r.name \notin DOMAIN F[o].rules
           /\ Reading(F[o + 3], F[o].rules, r.name, r.type, StdLocal, NoRules)
<1> DEFINE a == Line("rule", r.name)
           b == Line("origin", None)
           c == Line("type", r.type)
           base == F[o].rules
<1>1. Len(HeadRows(r)) = 3 /\ HeadRows(r)[1] = a /\ HeadRows(r)[2] = b /\ HeadRows(r)[3] = c
    BY DEF HeadRows
<1> HIDE DEF a, b, c, base
<1>2. /\ o + 1 - 1 = o /\ o + 2 - 1 = o + 1 /\ o + 3 - 1 = o + 2
      /\ 1 \in 1..3 /\ 2 \in 1..3 /\ 3 \in 1..3
    OBVIOUS
<1>3. /\ ReadShape(F[o]) /\ F[o + 1] = parseRow(F[o], a) /\ F[o + 1].ok
      /\ ReadShape(F[o + 1]) /\ F[o + 2] = parseRow(F[o + 1], b) /\ F[o + 2].ok
      /\ ReadShape(F[o + 2]) /\ F[o + 3] = parseRow(F[o + 2], c) /\ F[o + 3].ok
    BY <1>1, <1>2 DEF Follows
<1>4. /\ r.name \notin DOMAIN base
      /\ Reading(F[o + 1], base, r.name, "local", NoLocal, NoRules)
    BY <1>3, NameRead DEF a, base
<1>5. Reading(F[o + 2], base, r.name, "local", StdLocal, NoRules)
    BY <1>3, <1>4, FieldRead DEF b
<1>6. Reading(F[o + 3], base, r.name, r.type, StdLocal, NoRules)
    BY <1>3, <1>5, FieldRead DEF c
<1> QED
    BY <1>4, <1>6 DEF base

\* What is read of a rule is what was written of it.
ReadBack(old, new, r) == \E q : new = Put(old, r.name, q) /\ Plain(q) = Plain(r)

LEMMA RuleRead ==
    ASSUME NEW F, NEW o \in Nat, NEW r, RuleShape(r), Follows(F, o, RuleRows(r))
    PROVE  /\ r.name \notin DOMAIN F[o].rules
           /\ ReadBack(F[o].rules, F[o + Len(RuleRows(r))].rules, r)
<1> DEFINE T == RuleLines(r)
           rest == FlattenSeq(StorageParts(r))
           own == IF r.type = "local" THEN 2 ELSE 0
           local == IF r.type = "local" THEN r.local ELSE StdLocal
           base == F[o].rules
<1>1. HeadRows(r) \in Seq(T) /\ LocalRows(r) \in Seq(T) /\ rest \in Seq(T)
    BY RuleRowsType
<1>2. Len(HeadRows(r)) = 3 /\ Len(LocalRows(r)) = own
    BY DEF HeadRows, LocalRows
<1>3. HeadRows(r) \o LocalRows(r) \in Seq(T) /\ Len(HeadRows(r) \o LocalRows(r)) = 3 + own
    <2>1. /\ HeadRows(r) \o LocalRows(r) \in Seq(T)
          /\ Len(HeadRows(r) \o LocalRows(r)) = Len(HeadRows(r)) + Len(LocalRows(r))
        <3> HIDE DEF T
        <3> QED
            BY <1>1
    <2> HIDE DEF T, own
    <2> QED
        BY <1>2, <2>1
<1>4. Follows(F, o, HeadRows(r) \o LocalRows(r)) /\ Follows(F, o + (3 + own), rest)
    BY <1>1, <1>3, FollowsBoth DEF RuleRows
<1>5. Follows(F, o, HeadRows(r)) /\ Follows(F, o + 3, LocalRows(r))
    BY <1>1, <1>2, <1>4, FollowsBoth
<1>6. /\ r.name \notin DOMAIN base
      /\ Reading(F[o + 3], base, r.name, r.type, StdLocal, NoRules)
    BY <1>5, HeadRead
<1>7. Reading(F[o + (3 + own)], base, r.name, r.type, local, NoRules)
    <2>1. CASE r.type = "local"
        <3> DEFINE a == Line("local", r.local.at)
                   b == Line("local_keep", r.local.keep)
        <3>1. Len(LocalRows(r)) = 2 /\ LocalRows(r)[1] = a /\ LocalRows(r)[2] = b
            BY <2>1 DEF LocalRows
        <3>2. /\ o + 3 + 1 - 1 = o + 3 /\ o + 3 + 2 - 1 = o + 3 + 1 /\ o + 3 + 2 = o + (3 + own)
              /\ 1 \in 1..2 /\ 2 \in 1..2
            BY <2>1
        <3> HIDE DEF a, b, own, base
        <3>3. /\ ReadShape(F[o + 3]) /\ F[o + 3 + 1] = parseRow(F[o + 3], a) /\ F[o + 3 + 1].ok
              /\ ReadShape(F[o + 3 + 1]) /\ F[o + (3 + own)] = parseRow(F[o + 3 + 1], b)
              /\ F[o + (3 + own)].ok
            BY <1>5, <3>1, <3>2 DEF Follows
        <3>4. local = r.local /\ WithKeep(AtPlace(StdLocal, r.local.at), r.local.keep) = r.local
            BY <2>1 DEF RuleShape, IsStorage, StdLocal, Storage, AtPlace, WithKeep
        <3> HIDE DEF local
        <3>5. Reading(F[o + 3 + 1], base, r.name, r.type, AtPlace(StdLocal, r.local.at), NoRules)
            BY <1>6, <3>3, FieldRead DEF a
        <3>6. Reading(F[o + (3 + own)], base, r.name, r.type,
                      WithKeep(AtPlace(StdLocal, r.local.at), r.local.keep), NoRules)
            BY <3>3, <3>5, FieldRead DEF b
        <3> QED
            BY <3>4, <3>6
    <2>2. CASE r.type # "local"
        <3>1. o + (3 + own) = o + 3 /\ local = StdLocal
            BY <2>2
        <3> HIDE DEF local, own, base
        <3> QED
            BY <1>6, <3>1
    <2> QED
        BY <2>1, <2>2
<1>8. own \in {0, 2}
    OBVIOUS
<1>9. Len(RuleRows(r)) = 3 + own + Len(rest)
    BY <1>1, <1>3, <1>8 DEF RuleRows
<1> HIDE DEF own, local, base
<1>10. PICK ss : /\ Reading(F[o + (3 + own) + Len(rest)], base, r.name, r.type, local, ss)
                 /\ Gathered(ss, {r.storages[s] : s \in DOMAIN r.storages})
    <2>1. o + (3 + own) \in Nat
        BY <1>8
    <2> QED
        BY <1>4, <1>7, <2>1, StoragesRead
<1> DEFINE q == Rule(r.name, r.type, local, ss)
<1>11. o + (3 + own) + Len(rest) = o + Len(RuleRows(r))
    <2>1. Len(rest) \in Nat
        BY <1>1
    <2> HIDE DEF rest
    <2> QED
        BY <1>8, <1>9, <2>1
<1>12. F[o + Len(RuleRows(r))].rules = Put(base, r.name, q)
    BY <1>10, <1>11 DEF Reading
<1>13. Plain(q) = Plain(r)
    <2>1. q.type = r.type /\ q.local = local /\ q.storages = ss
        BY RuleFieldsAre
    <2>2. AtReal({ss[s] : s \in DOMAIN ss}) = AtReal({r.storages[s] : s \in DOMAIN r.storages})
        BY <1>10 DEF Gathered
    <2> HIDE DEF q
    <2>3. (IF q.type = "local" THEN q.local ELSE StdLocal)
            = (IF r.type = "local" THEN r.local ELSE StdLocal)
        BY <2>1 DEF local
    <2>4. AtReal({q.storages[s] : s \in DOMAIN q.storages})
            = AtReal({r.storages[s] : s \in DOMAIN r.storages})
        BY <2>1, <2>2
    <2> QED
        BY <2>1, <2>3, <2>4 DEF Plain, AtReal
<1> HIDE DEF q
<1> QED
    BY <1>6, <1>12, <1>13 DEF base, ReadBack

\* What is read of all of them.
LEMMA RulesRead ==
    ASSUME NEW rs, Shape(rs), NEW F, F[0].rules = NoRules, Follows(F, 0, Written(rs)),
           NEW got, got = F[Len(Written(rs))].rules
    PROVE  /\ DOMAIN got = {rs[k].name : k \in DOMAIN rs}
           /\ \A k \in DOMAIN rs : Plain(got[rs[k].name]) = Plain(rs[k])
<1> DEFINE n == Cardinality(DOMAIN rs)
           e == SetToSeq(DOMAIN rs)
           parts == RuleParts(rs)
           T == LinesOf(rs)
<1>1. n \in Nat /\ parts \in Seq(Seq(T)) /\ Len(parts) = n
    BY RulePartsType
<1>2. Written(rs) = FlattenSeq(parts)
    BY WrittenIs
<1>3. PICK off : Marks(F, off, 0, parts, n)
    BY <1>1, <1>2, FollowsParts
<1>4. Len(Written(rs)) \in Nat
    <2>1. Written(rs) \in Seq(T)
        BY <1>1, <1>2, FlattenType
    <2> QED
        BY <2>1
<1>5. /\ off[0] = 0 /\ off[n] = Len(Written(rs))
      /\ \A i \in 1..n : /\ off[i - 1] \in Nat /\ off[i] = off[i - 1] + Len(parts[i])
                         /\ Follows(F, off[i - 1], parts[i])
    BY <1>2, <1>3, <1>4 DEF Marks
<1>6. e \in [1..n -> DOMAIN rs] /\ \A k \in DOMAIN rs : \E i \in 1..n : e[i] = k
    BY EnumerationIs, EnumerationIsAll DEF Shape
<1>7. \A i \in 1..n : parts[i] = RuleRows(rs[e[i]])
    BY DEF RuleParts
<1> DEFINE Back(i, m) == Plain(F[off[i]].rules[rs[e[m]].name]) = Plain(rs[e[m]])
           Done(i) == /\ DOMAIN F[off[i]].rules = {rs[e[m]].name : m \in 1..i}
                      /\ \A m \in 1..i : Back(i, m)
           D == {i \in 0..n : ~Done(i)}
<1> HIDE DEF e, parts
<1>8. Done(0)
    <2>1. DOMAIN NoRules = {} /\ 1..0 = {}
        BY DEF NoRules
    <2> QED
        BY <1>5, <2>1
<1>9. ASSUME NEW i \in 1..n, Done(i - 1) PROVE Done(i)
    <2> DEFINE r == rs[e[i]]
               old == F[off[i - 1]].rules
               new == F[off[i]].rules
    <2>1. RuleShape(r) /\ off[i - 1] \in Nat /\ Follows(F, off[i - 1], RuleRows(r))
        BY <1>5, <1>6, <1>7, <1>9 DEF Shape
    <2>2. off[i] = off[i - 1] + Len(RuleRows(r))
        BY <1>5, <1>7, <1>9
    <2>3. r.name \notin DOMAIN old
        BY <2>1, RuleRead
    <2>4. PICK q : new = Put(old, r.name, q) /\ Plain(q) = Plain(r)
        <3>1. ReadBack(old, new, r)
            BY <2>1, <2>2, RuleRead
        <3> QED
            BY <3>1 DEF ReadBack
    <2>5. /\ DOMAIN new = DOMAIN old \cup {r.name} /\ new[r.name] = q
          /\ \A k \in DOMAIN old : new[k] = old[k]
        BY <2>3, <2>4 DEF Put
    <2>6. 1..i = (1..(i - 1)) \cup {i}
        BY <1>9
    <2>7. /\ DOMAIN old = {rs[e[m]].name : m \in 1..(i - 1)}
          /\ \A m \in 1..(i - 1) : Plain(old[rs[e[m]].name]) = Plain(rs[e[m]])
        BY <1>9
    <2> HIDE DEF new, old
    <2>8. DOMAIN new = {rs[e[m]].name : m \in 1..i}
        BY <2>5, <2>6, <2>7
    <2>9. ASSUME NEW m \in 1..i PROVE Plain(new[rs[e[m]].name]) = Plain(rs[e[m]])
        <3>1. CASE m = i
            BY <2>4, <2>5, <3>1
        <3>2. CASE m # i
            <4>1. m \in 1..(i - 1)
                BY <2>6, <2>9, <3>2
            <4>2. rs[e[m]].name \in DOMAIN old
                BY <2>7, <4>1
            <4> QED
                BY <2>5, <2>7, <4>1, <4>2
        <3> QED
            BY <3>1, <3>2
    <2> QED
        BY <2>8, <2>9 DEF new
<1> HIDE DEF Done
<1>10. D = {}
    <2> SUFFICES ASSUME D # {} PROVE FALSE
        OBVIOUS
    <2>1. D \subseteq Nat
        BY <1>1
    <2>2. PICK i \in D : \A j \in D : i <= j
        <3> HIDE DEF D
        <3> QED BY <2>1, SmallestOf
    <2>3. i \in 0..n /\ ~Done(i)
        BY <2>2
    <2>4. i \in 1..n /\ i - 1 \in 0..n /\ i - 1 < i
        BY <1>1, <1>8, <2>3
    <2>5. i - 1 \notin D
        BY <1>1, <2>2, <2>4
    <2> QED
        BY <1>9, <2>3, <2>4, <2>5
<1>11. Done(n)
    <2>1. n \in 0..n
        BY <1>1
    <2> QED
        BY <1>10, <2>1
<1>12. /\ DOMAIN got = {rs[e[m]].name : m \in 1..n}
       /\ \A m \in 1..n : Plain(got[rs[e[m]].name]) = Plain(rs[e[m]])
    BY <1>5, <1>11 DEF Done
<1> QED
    BY <1>6, <1>12

\* A file that is read with no row refused.
LEMMA LoadFollows ==
    ASSUME NEW rows, Len(rows) \in Nat, load(rows).ok
    PROVE  \E F : F[0] = NothingRead /\ Follows(F, 0, rows) /\ F[Len(rows)] = load(rows)
<1> DEFINE n == Len(rows)
           Is(F) == ReadBy(F, rows, n)
           R == CHOOSE F : Is(F)
<1>1. load(rows) = R[n]
    BY DEF load, ReadBy
<1>2. \E F : Is(F)
    BY ReadingExists
<1> HIDE DEF Is
<1>3. Is(R)
    BY <1>2
<1> HIDE DEF R
<1>4. /\ R[0] = NothingRead
      /\ \A i \in 1..n : R[i] = parseRow(R[i - 1], rows[i])
    BY <1>3 DEF Is, ReadBy
<1>5. \A i \in 0..n : ReadShape(R[i])
    BY <1>4, RowsKeep
<1>6. ASSUME NEW i \in 1..n, ~R[i - 1].ok PROVE ~R[i].ok
    <2>1. R[i] = parseRow(R[i - 1], rows[i]) /\ ReadShape(R[i - 1])
        <3>1. i - 1 \in 0..n
            BY <1>6
        <3> QED
            BY <1>4, <1>5, <1>6, <3>1
    <2>2. Rejected(R[i - 1], rows[i])
        BY <1>6 DEF Rejected
    <2>3. R[i] = Failed(R[i - 1])
        BY <2>1, <2>2, Zenon DEF parseRow
    <2> QED
        BY <2>1, <2>3 DEF Failed, ReadShape
<1>7. ASSUME NEW j \in 1..n PROVE R[j].ok
    <2> DEFINE D == {i \in j..n : R[i].ok}
    <2> SUFFICES ASSUME ~R[j].ok PROVE FALSE
        OBVIOUS
    <2>1. n \in D /\ D \subseteq Nat
        BY <1>1, <1>7
    <2>2. PICK i \in D : \A k \in D : i <= k
        <3> HIDE DEF D
        <3> QED BY <2>1, SmallestOf
    <2>3. i \in j..n /\ R[i].ok
        BY <2>2
    <2>4. i # j
        BY <2>3
    <2>5. i \in 1..n /\ i - 1 \in j..n /\ i - 1 < i
        BY <1>7, <2>3, <2>4
    <2>6. i - 1 \notin D
        BY <2>2, <2>5
    <2> QED
        BY <1>6, <2>3, <2>5, <2>6
<1>8. ASSUME NEW j \in 1..n
      PROVE  ReadShape(R[0 + j - 1]) /\ R[0 + j] = parseRow(R[0 + j - 1], rows[j]) /\ R[0 + j].ok
    <2>1. 0 + j = j /\ 0 + j - 1 = j - 1 /\ j - 1 \in 0..n
        BY <1>8
    <2> QED
        BY <1>4, <1>5, <1>7, <1>8, <2>1
<1>9. Follows(R, 0, rows)
    BY <1>8 DEF Follows
<1> QED
    BY <1>1, <1>4, <1>9

\* A save that writes the file and ends in a menu again has lost and mixed up nothing.
LEMMA SaveIsRead ==
    ASSUME ConfigInv, FinishSave, pc' # "off", file' = Written(rules)
    PROVE  /\ DOMAIN rules' = ShownNames
           /\ \A k \in DOMAIN rules : Plain(rules'[rules[k].name]) = Plain(rules[k])
<1> DEFINE rows == Written(rules)
<1>1. load(rows).ok /\ rules' = load(rows).rules
    BY DEF FinishSave, Off
<1>2. Len(rows) \in Nat /\ Shape(rules)
    BY WrittenLen DEF ConfigInv
<1>3. PICK F : F[0] = NothingRead /\ Follows(F, 0, rows) /\ F[Len(rows)] = load(rows)
    BY <1>1, <1>2, LoadFollows
<1>4. F[0].rules = NoRules
    BY <1>3 DEF NothingRead
<1> DEFINE got == load(rows).rules
<1>5. got = F[Len(rows)].rules
    BY <1>3
<1> HIDE DEF got
<1>6. /\ DOMAIN got = {rules[k].name : k \in DOMAIN rules}
      /\ \A k \in DOMAIN rules : Plain(got[rules[k].name]) = Plain(rules[k])
    BY <1>2, <1>3, <1>4, <1>5, RulesRead
<1>7. rules' = got
    BY <1>1 DEF got
<1> QED
    BY <1>6, <1>7 DEF ShownNames

-----------------------------------------------------------------------------
(* What the arguments of a line name                                       *)

\* A storage that was found: that of a rule, or the one made on the fly, which is
\* at a remote location or where there is no file of the user's.
KnownStorage(arg) ==
    IF arg.what = OnTheFly
    THEN a_storage.at \in DOMAIN Remotes \/ fs[a_storage.at] \in {"empty", "index"}
    ELSE /\ arg.what[1] \in DOMAIN loaded
         /\ arg.what[2] \in DOMAIN loaded[arg.what[1]].storages

ArgumentsKnown ==
    /\ line.cmd \in {"store", "stored"} /\ line.to.type = "Storage" => KnownStorage(line.to)
    /\ line.cmd \in {"prune", "fsck"} /\ line.from.type = "Storage" => KnownStorage(line.from)
    /\ line.cmd \in {"push", "pushd"} /\ line.from.type = "Rule" => line.from.what \in DOMAIN loaded

LineFields == {"cmd", "words", "wants", "done", "from", "to", "opts", "written", "eaten"}

\* No menu is open while a line is read and obeyed.
CommandInv ==
    /\ DOMAIN line = LineFields
    /\ stage # "shell" => pc = "off"
    /\ stage \in {"parse", "run"} =>
        /\ ArgumentsKnown
        /\ line.from.type = "Unspecified" => line.to.type = "Unspecified"

\* What is found for a word is at a remote location, or where no file of the
\* user's is, or is made there.
LEMMA StorageIsKnown ==
    ASSUME NEW p \in Paths, NEW point, NEW cmd, NEW answers, cmd # "import",
           AsStorage(p, point, cmd, answers).ok
    PROVE  LET r == AsStorage(p, point, cmd, answers)
           IN  /\ r.arg.type = "Storage"
               /\ IF r.arg.what = OnTheFly
                  THEN \/ r.a.at \in DOMAIN Remotes
                       \/ r.a.at \in r.made /\ r.a.at \in Paths
                       \/ fs[r.a.at] \in {"empty", "index"} /\ r.made = {} /\ r.a.at \in Paths
                  ELSE /\ r.arg.what[1] \in DOMAIN loaded
                       /\ r.arg.what[2] \in DOMAIN loaded[r.arg.what[1]].storages
               /\ \A q \in r.made : fs[q] = "missing"
<1> DEFINE s == findStorageFrom(p, cmd, answers)
           owners == findRuleFromStorageLocation(p)
           owner == CHOOSE k \in owners : TRUE
           create == ~s.found /\ cmd \in {"store", "import"} /\ fs[Behind(p)] = "missing"
           r == AsStorage(p, point, cmd, answers)
<1>1. p # None /\ Behind(p) \in Paths
    BY PathsAssumption DEF Behind, realpath
<1>2. r = IF s.found THEN Names_(Argument("Storage", s.what, point), s.a, {})
          ELSE IF create
               THEN Names_(Argument("Storage", OnTheFly, point), createStorageFrom(p), {Behind(p)})
               ELSE Wrong
    BY DEF AsStorage
<1>3. s = IF owners # {}
          THEN IF p \in DOMAIN loaded[owner].storages
               THEN [found |-> TRUE, what |-> <<owner, p>>, a |-> a_storage]
               ELSE NotFound
          ELSE IF p \in DOMAIN Remotes /\ (Remotes[p] = "rclone" => answers)
               THEN Found([type |-> Remotes[p], at |-> p])
               ELSE IF isFileSystemStorage(Behind(p), cmd)
                    THEN Found([type |-> "directory", at |-> Behind(p)])
                    ELSE NotFound
    BY DEF findStorageFrom
<1>4. CASE s.found
    <2>1. /\ r.arg.type = "Storage" /\ r.arg.what = s.what /\ r.a = s.a /\ r.made = {}
        BY <1>2, <1>4 DEF Names_, Argument
    <2>2. CASE owners # {} /\ p \in DOMAIN loaded[owner].storages
        <3>1. owner \in owners
            BY <2>2
        <3>2. owner \in DOMAIN loaded
            BY <3>1 DEF findRuleFromStorageLocation, UsedBy
        <3>3. s.what = <<owner, p>> /\ <<owner, p>> # OnTheFly
            BY <1>1, <1>3, <2>2 DEF OnTheFly
        <3> HIDE DEF s, r, owner
        <3>4. r.arg.what[1] = owner /\ r.arg.what[2] = p
            BY <2>1, <3>3
        <3> QED
            BY <2>1, <2>2, <3>2, <3>3, <3>4 DEF r
    <2>3. CASE /\ owners = {} /\ p \in DOMAIN Remotes
               /\ (Remotes[p] = "rclone" => answers)
        <3>1. s.what = OnTheFly /\ s.a.at = p
            BY <1>3, <2>3 DEF Found
        <3> QED
            BY <2>1, <2>3, <3>1
    <2>4. CASE /\ owners = {} /\ ~(p \in DOMAIN Remotes /\ (Remotes[p] = "rclone" => answers))
               /\ isFileSystemStorage(Behind(p), cmd)
        <3>1. s.what = OnTheFly /\ s.a.at = Behind(p)
            BY <1>3, <2>4 DEF Found
        <3>2. fs[Behind(p)] \in {"empty", "index"}
            BY <2>4 DEF isFileSystemStorage
        <3> QED
            BY <1>1, <2>1, <3>1, <3>2
    <2>5. ~NotFound.found
        BY DEF NotFound
    <2> HIDE DEF s, owners, owner
    <2> QED
        BY <1>3, <1>4, <2>2, <2>3, <2>4, <2>5
<1>5. CASE ~s.found
    <2>1. create
        BY <1>2, <1>5 DEF Wrong
    <2>2. /\ r.arg.type = "Storage" /\ r.arg.what = OnTheFly
          /\ r.a.at = Behind(p) /\ r.made = {Behind(p)} /\ fs[Behind(p)] = "missing"
        BY <1>2, <1>5, <2>1 DEF Names_, Argument, createStorageFrom
    <2> QED
        BY <1>1, <2>2
<1> QED
    BY <1>4, <1>5

\* Only what is missing is made.
LEMMA MadeWasMissing ==
    ASSUME NEW p, NEW point, NEW expected, NEW yesorigin, NEW cmd, NEW answers,
           NEW q \in parseArgument(p, point, expected, yesorigin, cmd, answers).made
    PROVE  fs[q] = "missing"
<1> DEFINE s == AsStorage(p, point, cmd, answers)
           r == parseArgument(p, point, expected, yesorigin, cmd, answers)
<1>1. \A e \in s.made : fs[e] = "missing"
    BY DEF AsStorage, Names_, Wrong
<1>2. AsRule(p, point).made = {}
    BY DEF AsRule, Names_, Wrong
<1>3. AsOrigin(p, point, yesorigin).made = {}
    BY DEF AsOrigin, Names_, Wrong
<1>4. \A type, what : Plainly(type, what).made = {}
    BY DEF Plainly, Names_
<1>5. Wrong.made = {}
    BY DEF Wrong
<1> HIDE DEF s
<1>6. r = s \/ r.made = {}
    BY <1>2, <1>3, <1>4, <1>5 DEF parseArgument, s
<1> QED
    BY <1>1, <1>6

\* An argument that is taken says what it is.
LEMMA ArgumentIs ==
    ASSUME NEW p, NEW point, NEW expected, NEW yesorigin, NEW cmd, NEW answers,
           parseArgument(p, point, expected, yesorigin, cmd, answers).ok
    PROVE  LET r == parseArgument(p, point, expected, yesorigin, cmd, answers)
           IN  /\ r.arg.type # "Unspecified"
               /\ expected = "Storage" =>
                     r = AsStorage(p, point, cmd, answers) /\ r.ok
               /\ expected = "Rule" => r.arg.type = "Rule" /\ r.arg.what \in DOMAIN loaded
<1> DEFINE s == AsStorage(p, point, cmd, answers)
           u == AsRule(p, point)
           o == AsOrigin(p, point, yesorigin)
           r == parseArgument(p, point, expected, yesorigin, cmd, answers)
<1>1. s.ok => s.arg.type = "Storage"
    BY DEF AsStorage, Names_, Argument, Wrong
<1>2. u.ok => u.arg.type = "Rule" /\ u.arg.what \in DOMAIN loaded
    BY DEF AsRule, Names_, Argument, Wrong
<1>3. o.ok => o.arg.type = "Origin"
    BY DEF AsOrigin, Names_, Argument, Wrong
<1>4. \A type, what : Plainly(type, what).arg.type = type
    BY DEF Plainly, Names_, Argument
<1>5. ~Wrong.ok
    BY DEF Wrong
<1> HIDE DEF s, u, o
<1>6. r.ok
    OBVIOUS
<1>7. r \in {s, u, o, Wrong} \/ r.arg.type \in {"Dir", "File", "Command"}
    BY <1>4 DEF parseArgument, s, u, o
<1>8. expected = "Storage" => r \in {s, Wrong}
    BY DEF parseArgument, s
<1>9. expected = "Rule" => r \in {u, Wrong}
    BY DEF parseArgument, u
<1> QED
    BY <1>1, <1>2, <1>3, <1>5, <1>6, <1>7, <1>8, <1>9 DEF s

ReadsOn(l) ==
    DOMAIN l = LineFields /\ l.cmd = line.cmd /\ l.from = line.from /\ l.to = line.to

\* Words that are no arguments leave the arguments as they are.
LEMMA SameArguments ==
    ASSUME CommandInv, stage = "parse", stage' \in {"parse", "run"},
           ReadsOn(line'), UNCHANGED <<vars, a_storage, fs>>
    PROVE  CommandInv'
<1>1. loaded' = loaded /\ pc' = pc
    BY DEF loaded, vars
<1>2. \A arg : KnownStorage(arg)' <=> KnownStorage(arg)
    BY <1>1 DEF KnownStorage
<1> QED
    BY <1>1, <1>2 DEF CommandInv, ArgumentsKnown, ReadsOn

\* Nothing is said of the arguments of a line that is refused, aborted or obeyed.
LEMMA LineIsGone ==
    ASSUME CommandInv, stage # "shell", DOMAIN line' = LineFields,
           stage' = "shell" \/ (stage' = "aborted" /\ pc' = pc)
    PROVE  CommandInv'
BY DEF CommandInv

LEMMA RefuseStep ==
    ASSUME CommandInv, stage # "shell", Refuse \/ Abort
    PROVE  CommandInv'
<1>1. DOMAIN NoLine = LineFields
    BY DEF NoLine, LineFields
<1> QED
    BY <1>1, LineIsGone DEF Refuse, Abort, CommandInv, vars

\* The fields that reading a word changes.
LEMMA WordReadsOn ==
    ASSUME DOMAIN line = LineFields
    PROVE  ReadsOn(NextWord) /\ ReadsOn(line)
BY DEF NextWord, ReadsOn, LineFields

LEMMA LineGoesOn ==
    ASSUME NEW l, ReadsOn(l), NEW o, NEW inline, NEW w, NEW x
    PROVE  /\ ReadsOn(Set(l, o, inline))
           /\ ReadsOn([l EXCEPT !.wants = w]) /\ ReadsOn([l EXCEPT !.done = w])
           /\ ReadsOn([l EXCEPT !.written = w])
           /\ ReadsOn([l EXCEPT !.written = w, !.eaten = x])
           /\ ReadsOn([l EXCEPT !.done = w, !.written = x])
BY DEF Set, ReadsOn, LineFields

LEMMA OptionStep ==
    ASSUME CommandInv, ReadOption
    PROVE  CommandInv'
<1>1. stage = "parse" /\ DOMAIN line = LineFields
    BY DEF ReadOption, Reads, CommandInv
<1>2. PICK word \in OptionWords, inline \in BOOLEAN :
        LET o == Option(word)
            l == [NextWord EXCEPT !.written = @ \cup {o}]
        IN  \/ Refuse
            \/ Goes(IF o \in ValueOptions /\ ~inline THEN [l EXCEPT !.wants = o] ELSE Set(l, o, inline))
    BY DEF ReadOption
<1> DEFINE o == Option(word)
           w == NextWord.written \cup {o}
           l == [NextWord EXCEPT !.written = w]
<1>3. ReadsOn(NextWord)
    BY <1>1, WordReadsOn
<1>4. ReadsOn(l)
    <2> HIDE DEF w
    <2> QED BY <1>3, LineGoesOn
<1> HIDE DEF l, w
<1>5. ReadsOn([l EXCEPT !.wants = o]) /\ ReadsOn(Set(l, o, inline))
    BY <1>4, LineGoesOn
<1>6. CASE Refuse
    BY <1>1, <1>6, RefuseStep
<1>7. CASE Goes([l EXCEPT !.wants = o]) \/ Goes(Set(l, o, inline))
    <2>1. ReadsOn(line') /\ stage' = "parse" /\ UNCHANGED <<vars, a_storage, fs>>
        BY <1>1, <1>5, <1>7 DEF Goes
    <2> QED
        BY <1>1, <2>1, SameArguments
<1> QED
    BY <1>2, <1>6, <1>7 DEF l, w

LEMMA ValueStep ==
    ASSUME CommandInv, ReadValue
    PROVE  CommandInv'
<1>1. stage = "parse" /\ DOMAIN line = LineFields
    BY DEF ReadValue, Reads, CommandInv
<1>2. CASE Refuse
    BY <1>1, <1>2, RefuseStep
<1>3. CASE ~Refuse
    <2>1. PICK value \in {"fine", "odd"} \cup OptionWords :
            Goes([Set(NextWord, line.wants, FALSE) EXCEPT
                     !.written = @ \cup ({Option(value)} \cap (GlobalOptions \cup OptionWords)),
                     !.eaten = @ \cup {Option(value)}])
        BY <1>3 DEF ReadValue
    <2> DEFINE l == Set(NextWord, line.wants, FALSE)
               w == l.written \cup ({Option(value)} \cap (GlobalOptions \cup OptionWords))
               x == l.eaten \cup {Option(value)}
    <2>2. line' = [l EXCEPT !.written = w, !.eaten = x]
        BY <2>1 DEF Goes
    <2>3. ReadsOn(NextWord)
        BY <1>1, WordReadsOn
    <2>4. ReadsOn(l)
        BY <2>3, LineGoesOn
    <2> HIDE DEF l, w, x
    <2>5. ReadsOn(line')
        BY <2>2, <2>4, LineGoesOn
    <2>6. stage' = "parse" /\ UNCHANGED <<vars, a_storage, fs>>
        BY <1>1, <2>1 DEF Goes
    <2> QED
        BY <1>1, <2>5, <2>6, SameArguments
<1> QED
    BY <1>2, <1>3

LEMMA EndStep ==
    ASSUME CommandInv, EndOptions \/ EndOfLine
    PROVE  CommandInv'
<1>1. stage = "parse" /\ DOMAIN line = LineFields
    BY DEF EndOptions, EndOfLine, Reads, CommandInv
<1>2. CASE EndOptions
    <2>1. ReadsOn(NextWord)
        BY <1>1, WordReadsOn
    <2>2. ReadsOn([NextWord EXCEPT !.done = TRUE])
        BY <2>1, LineGoesOn
    <2>3. ReadsOn(line') /\ stage' = "parse" /\ UNCHANGED <<vars, a_storage, fs>>
        BY <1>1, <1>2, <2>2 DEF EndOptions, Goes
    <2> QED
        BY <1>1, <2>3, SameArguments
<1>3. CASE EndOfLine
    <2>1. CASE Refuse
        BY <1>1, <2>1, RefuseStep
    <2>2. CASE ~Refuse
        <3>1. ReadsOn(line) /\ ReadsOn(Set(line, line.wants, FALSE))
            <4>1. ReadsOn(line)
                BY <1>1, WordReadsOn
            <4> QED
                BY <4>1, LineGoesOn
        <3>2. ReadsOn(line') /\ stage' = "run" /\ UNCHANGED <<vars, a_storage, fs>>
            BY <1>3, <2>2, <3>1 DEF EndOfLine
        <3> QED
            BY <1>1, <3>2, SameArguments
    <2> QED
        BY <2>1, <2>2
<1> QED
    BY <1>2, <1>3

LEMMA Expected ==
    /\ ExpectedTo["store"] = "Storage" /\ ExpectedTo["stored"] = "Storage"
    /\ ExpectedFrom["prune"] = "Storage" /\ ExpectedTo["prune"] = "None"
    /\ ExpectedFrom["fsck"] = "Storage" /\ ExpectedTo["fsck"] = "None"
    /\ ExpectedFrom["push"] = "Rule" /\ ExpectedFrom["pushd"] = "Rule"
<1>1. /\ ExpectedFrom["prune"] = "Storage" /\ ExpectedFrom["fsck"] = "Storage"
      /\ ExpectedFrom["push"] = "Rule" /\ ExpectedFrom["pushd"] = "Rule"
    BY DEF ExpectedFrom
<1>2. ExpectedTo["store"] = "Storage" /\ ExpectedTo["stored"] = "Storage"
    <2>1. "store" \in Commands /\ "stored" \in Commands
        BY DEF Commands, ExpectedFrom
    <2> QED
        BY <2>1 DEF ExpectedTo, TwoArguments
<1>3. ExpectedTo["prune"] = "None" /\ ExpectedTo["fsck"] = "None"
    <2>1. "prune" \in Commands /\ "fsck" \in Commands
        BY DEF Commands, ExpectedFrom
    <2>2. "prune" \notin DOMAIN TwoArguments /\ "fsck" \notin DOMAIN TwoArguments
        BY DEF TwoArguments
    <2> QED
        BY <2>1, <2>2 DEF ExpectedTo
<1> QED
    BY <1>1, <1>2, <1>3

\* An argument is known, whichever the command; and nothing of the user's is lost.
LEMMA ArgumentStep ==
    ASSUME CommandInv, ReadArgument
    PROVE  /\ CommandInv'
           /\ \A q \in Paths : fs[q] = "files" => fs'[q] = "files"
<1>1. stage = "parse"
    BY DEF ReadArgument, Reads
<1>2. DOMAIN line = LineFields /\ pc = "off"
    BY <1>1 DEF CommandInv
<1>3. ArgumentsKnown /\ (line.from.type = "Unspecified" => line.to.type = "Unspecified")
    BY <1>1 DEF CommandInv
<1>4. CASE Refuse \/ Abort
    <2>1. CommandInv'
        BY <1>1, <1>4, RefuseStep
    <2>2. fs' = fs
        BY <1>4 DEF Refuse, Abort
    <2> QED
        BY <2>1, <2>2
<1>5. CASE ~(Refuse \/ Abort)
    <2>1. PICK p \in Paths, point \in Points \cup {None}, answers \in BOOLEAN :
            TakeArgument(p, point, answers)
        BY DEF ReadArgument
    <2> DEFINE first == line.from.type = "Unspecified"
               expected == IF first THEN ExpectedFrom[line.cmd] ELSE ExpectedTo[line.cmd]
               yes == "yesorigin" \in line.opts
               read == parseArgument(p, point, expected, yes, line.cmd, answers)
               w == NextWord.written \cup {Option(o) : o \in {q \in {p} \cap OptionWords : NamesNothing(q)}}
               l == [NextWord EXCEPT !.done = TRUE, !.written = w]
    <2>2. TakeArgument(p, point, answers) =
            IF ~first /\ line.to.type # "Unspecified" THEN Refuse
            ELSE IF expected = "None" THEN Abort
            ELSE IF ~read.ok THEN Refuse
            ELSE /\ line' = IF first THEN [l EXCEPT !.from = read.arg]
                            ELSE [l EXCEPT !.to = read.arg]
                 /\ a_storage' = read.a
                 /\ fs' = [q \in Paths |-> IF q \in read.made THEN "empty" ELSE fs[q]]
                 /\ UNCHANGED <<vars, stage, lines>>
        BY Zenon DEF TakeArgument, NotExpected
    <2>3. ReadsOn(l)
        <3>1. ReadsOn(NextWord)
            BY <1>2, WordReadsOn
        <3> HIDE DEF w
        <3> QED BY <3>1, LineGoesOn
    <2>4. \A q \in read.made : fs[q] = "missing"
        BY MadeWasMissing
    <2>5. read.ok =>
            /\ read.arg.type # "Unspecified"
            /\ expected = "Storage" => read = AsStorage(p, point, line.cmd, answers)
            /\ expected = "Rule" => read.arg.type = "Rule" /\ read.arg.what \in DOMAIN loaded
        <3> HIDE DEF expected, yes
        <3> QED BY ArgumentIs
    <2>6. first = (line.from.type = "Unspecified")
        OBVIOUS
    <2>7. /\ first => expected = ExpectedFrom[line.cmd]
          /\ ~first => expected = ExpectedTo[line.cmd]
        OBVIOUS
    <2> HIDE DEF l, w, read, expected, yes, first
    <2>8. /\ expected # "None" /\ read.ok
          /\ line' = IF first THEN [l EXCEPT !.from = read.arg] ELSE [l EXCEPT !.to = read.arg]
          /\ a_storage' = read.a
          /\ fs' = [q \in Paths |-> IF q \in read.made THEN "empty" ELSE fs[q]]
          /\ UNCHANGED <<vars, stage, lines>>
        BY <1>5, <2>1, <2>2
    <2>9. loaded' = loaded /\ pc' = "off" /\ stage' = "parse"
        <3>1. UNCHANGED <<vars, stage>>
            BY <2>8
        <3>2. file' = file /\ pc' = pc /\ stage' = stage
            BY <3>1 DEF vars
        <3> QED
            BY <1>1, <1>2, <3>2 DEF loaded
    <2>10. \A q \in Paths : fs[q] = "files" => fs'[q] = "files"
        BY <2>4, <2>8
    <2>11. /\ DOMAIN l = LineFields /\ l.cmd = line.cmd /\ l.from = line.from /\ l.to = line.to
        BY <2>3 DEF ReadsOn
    <2> PICK arg : arg = read.arg
        OBVIOUS
    <2>12. ASSUME expected = "Storage", line.cmd # "import" PROVE KnownStorage(arg)'
        <3> DEFINE s == AsStorage(p, point, line.cmd, answers)
        <3>1. read = s /\ s.ok
            BY <2>5, <2>8, <2>12
        <3>2. IF s.arg.what = OnTheFly
              THEN \/ s.a.at \in DOMAIN Remotes
                   \/ s.a.at \in s.made /\ s.a.at \in Paths
                   \/ fs[s.a.at] \in {"empty", "index"} /\ s.made = {} /\ s.a.at \in Paths
              ELSE /\ s.arg.what[1] \in DOMAIN loaded
                   /\ s.arg.what[2] \in DOMAIN loaded[s.arg.what[1]].storages
            BY <2>12, <3>1, StorageIsKnown
        <3> HIDE DEF s
        <3>3. CASE s.arg.what = OnTheFly
            <4>1. a_storage'.at \in DOMAIN Remotes \/ fs'[a_storage'.at] \in {"empty", "index"}
                BY <2>8, <3>1, <3>2, <3>3
            <4>2. arg.what = OnTheFly
                BY <3>1, <3>3
            <4> QED
                BY <4>1, <4>2 DEF KnownStorage, OnTheFly
        <3>4. CASE s.arg.what # OnTheFly
            <4>1. /\ arg.what # OnTheFly
                  /\ arg.what[1] \in DOMAIN loaded'
                  /\ arg.what[2] \in DOMAIN loaded'[arg.what[1]].storages
                BY <2>9, <3>1, <3>2, <3>4
            <4> QED
                BY <4>1 DEF KnownStorage, OnTheFly
        <3> QED
            BY <3>3, <3>4
    <2>13. CASE first
        <3>1. /\ DOMAIN line' = LineFields /\ line'.cmd = line.cmd
              /\ line'.from = read.arg /\ line'.to = line.to
            <4>1. line' = [l EXCEPT !.from = read.arg]
                BY <2>8, <2>13
            <4> QED
                BY <2>11, <4>1 DEF LineFields
        <3>2. line.to.type = "Unspecified" /\ expected = ExpectedFrom[line.cmd]
            BY <1>3, <2>6, <2>7, <2>13
        <3>3. line.cmd \in {"prune", "fsck"} => expected = "Storage"
            BY <3>2, Expected
        <3>4. line.cmd \in {"push", "pushd"} => expected = "Rule"
            BY <3>2, Expected
        <3>5. line.cmd \in {"prune", "fsck"} => KnownStorage(arg)'
            BY <2>12, <3>3
        <3>6. line.cmd \in {"push", "pushd"} => read.arg.what \in DOMAIN loaded'
            BY <2>5, <2>8, <2>9, <3>4
        <3>7. line'.to.type = "Unspecified" /\ line'.from.type # "Unspecified"
            BY <2>5, <2>8, <3>1, <3>2
        <3>8. line'.cmd \in {"prune", "fsck"} => KnownStorage(line.from)'
            BY <3>1, <3>5 DEF KnownStorage
        <3>9. ArgumentsKnown'
            BY <3>1, <3>6, <3>7, <3>8 DEF ArgumentsKnown
        <3> QED
            BY <2>9, <2>10, <3>1, <3>7, <3>9 DEF CommandInv
    <2>14. CASE ~first
        <3>1. /\ DOMAIN line' = LineFields /\ line'.cmd = line.cmd
              /\ line'.from = line.from /\ line'.to = read.arg
            <4>1. line' = [l EXCEPT !.to = read.arg]
                BY <2>8, <2>14
            <4> QED
                BY <2>11, <4>1 DEF LineFields
        <3>2. expected = ExpectedTo[line.cmd]
            BY <2>7, <2>14
        <3>3. line.cmd \notin {"prune", "fsck"}
            BY <2>8, <3>2, Expected
        <3>4. line.cmd \in {"store", "stored"} => expected = "Storage"
            BY <3>2, Expected
        <3>5. line.cmd \in {"store", "stored"} => KnownStorage(arg)'
            BY <2>12, <3>4
        <3>6. line.cmd \in {"push", "pushd"} /\ line.from.type = "Rule"
                => line.from.what \in DOMAIN loaded'
            BY <1>3, <2>9 DEF ArgumentsKnown
        <3>7. line'.from.type # "Unspecified"
            BY <2>6, <2>14, <3>1
        <3>8. line'.cmd \in {"store", "stored"} => KnownStorage(line.to)'
            BY <3>1, <3>5 DEF KnownStorage
        <3>9. ArgumentsKnown'
            BY <3>1, <3>3, <3>6, <3>8 DEF ArgumentsKnown
        <3> QED
            BY <2>9, <2>10, <3>1, <3>7, <3>9 DEF CommandInv
    <2> QED
        BY <2>13, <2>14
<1> QED
    BY <1>4, <1>5

-----------------------------------------------------------------------------
(* What the handlers write                                                 *)

LEMMA RulePlaces ==
    ASSUME NEW rs, NEW k \in DOMAIN rs
    PROVE  /\ Directories(LocationsOf(rs[k])) \subseteq Places(rs)
           /\ \A s \in DOMAIN rs[k].storages :
                 Directories({rs[k].storages[s].at}) \subseteq Places(rs)
<1>1. Directories(LocationsOf(rs[k])) \subseteq Places(rs)
    BY DEF Places
<1>2. ASSUME NEW s \in DOMAIN rs[k].storages
      PROVE  Directories({rs[k].storages[s].at}) \subseteq Directories(LocationsOf(rs[k]))
    <2>1. rs[k].storages[s].at \in LocationsOf(rs[k])
        BY DEF LocationsOf
    <2> QED
        BY <2>1 DEF Directories
<1> QED
    BY <1>1, <1>2

\* Where files are not overwritten as files, a storage is: that of a rule, or one
\* that was found for the line.
LEMMA WritesInStorages ==
    ASSUME ArgumentsKnown, Accepts(line),
           NEW p \in Writes(line).where, NEW what \in Writes(line).what, what # "files",
           fs[p] = "files"
    PROVE  p \in Places(loaded)
<1>1. ASSUME NEW arg, KnownStorage(arg), p \in Where(arg)
      PROVE  p \in Places(loaded)
    <2>1. CASE arg.what = OnTheFly
        BY <1>1, <2>1 DEF Where, KnownStorage
    <2>2. CASE arg.what # OnTheFly
        <3>1. /\ arg.what[1] \in DOMAIN loaded
              /\ arg.what[2] \in DOMAIN loaded[arg.what[1]].storages
            BY <1>1, <2>2 DEF KnownStorage
        <3>2. p \in Directories({loaded[arg.what[1]].storages[arg.what[2]].at})
            BY <1>1, <2>2 DEF Where
        <3> QED
            BY <3>1, <3>2, RulePlaces
    <2> QED
        BY <2>1, <2>2
<1>2. CASE line.cmd \in {"store", "stored"}
    <2>1. Writes(line).where = Where(line.to)
        BY <1>2 DEF Writes
    <2>2. line.to.type = "Storage"
        BY <1>2 DEF Accepts, HandlerTo
    <2>3. KnownStorage(line.to)
        BY <1>2, <2>2 DEF ArgumentsKnown
    <2> QED
        BY <1>1, <2>1, <2>3
<1>3. CASE line.cmd \in {"prune", "fsck"}
    <2>1. Writes(line).where = Where(line.from)
        BY <1>3 DEF Writes
    <2>2. line.from.type = "Storage"
        BY <1>3 DEF Accepts, HandlerFrom
    <2>3. KnownStorage(line.from)
        BY <1>3, <2>2 DEF ArgumentsKnown
    <2> QED
        BY <1>1, <2>1, <2>3
<1>4. CASE line.cmd \in {"push", "pushd"}
    <2>1. Writes(line).where = Directories(LocationsOf(loaded[line.from.what]))
        BY <1>4 DEF Writes
    <2>2. line.from.type = "Rule"
        BY <1>4 DEF Accepts, HandlerFrom
    <2>3. line.from.what \in DOMAIN loaded
        BY <1>4, <2>2 DEF ArgumentsKnown
    <2> QED
        BY <2>1, <2>3, RulePlaces
<1>5. CASE line.cmd \notin {"store", "stored", "prune", "fsck", "push", "pushd"}
    <2>1. CASE line.cmd = "import"
        <3>1. Writes(line).what = {"files"}
            BY <2>1 DEF Writes
        <3> QED
            BY <3>1
    <2>2. CASE line.cmd \in {"restore", "camera"}
        <3>1. Writes(line).what = {"files"}
            BY <2>2 DEF Writes
        <3> QED
            BY <3>1
    <2>3. CASE line.cmd = "index"
        <3>1. Writes(line).what = {"files"}
            BY <2>3 DEF Writes
        <3> QED
            BY <3>1
    <2>4. CASE line.cmd \notin {"import", "restore", "camera", "index"}
        <3>1. Writes(line).what = {}
            BY <1>5, <2>4 DEF Writes
        <3> QED
            BY <3>1
    <2> QED
        BY <2>1, <2>2, <2>3, <2>4
<1> QED
    BY <1>2, <1>3, <1>4, <1>5

LEMMA RunStep ==
    ASSUME CommandInv, Run
    PROVE  /\ CommandInv'
           /\ \A p \in Paths : fs[p] = "files" /\ p \notin Places(loaded) => fs'[p] = "files"
<1>1. stage = "run"
    BY DEF Run
<1>2. ArgumentsKnown
    BY <1>1 DEF CommandInv
<1>3. CASE Abort
    <2>1. CommandInv'
        BY <1>1, <1>3, RefuseStep
    <2>2. fs' = fs
        BY <1>3 DEF Abort
    <2> QED
        BY <2>1, <2>2
<1>4. CASE ~Abort
    <2>1. /\ Accepts(line)
          /\ \E S \in SUBSET {p \in Writes(line).where : fs[p] # "file"}, what \in Writes(line).what \cup {"index"} :
                 /\ what \in Writes(line).what \/ S = {}
                 /\ fs' = [p \in Paths |->
                       IF p \in S /\ (what = "files" => fs[p] # "index") THEN what ELSE fs[p]]
          /\ stage' = "shell" /\ line' = NoLine
        BY <1>4 DEF Run
    <2>2. PICK S \in SUBSET {p \in Writes(line).where : fs[p] # "file"}, what \in Writes(line).what \cup {"index"} :
                 /\ what \in Writes(line).what \/ S = {}
                 /\ fs' = [p \in Paths |->
                       IF p \in S /\ (what = "files" => fs[p] # "index") THEN what ELSE fs[p]]
        BY <2>1
    <2>3. ASSUME NEW p \in Paths, fs[p] = "files", p \notin Places(loaded)
          PROVE  fs'[p] = "files"
        <3>1. CASE p \in S
            <4>1. p \in Writes(line).where /\ what \in Writes(line).what
                BY <2>2, <3>1
            <4>2. what = "files"
                BY <1>2, <2>1, <2>3, <4>1, WritesInStorages
            <4> QED
                BY <2>2, <2>3, <4>2
        <3>2. CASE p \notin S
            BY <2>2, <2>3, <3>2
        <3> QED
            BY <3>1, <3>2
    <2>4. DOMAIN line' = LineFields
        BY <2>1 DEF NoLine, LineFields
    <2>5. CommandInv'
        BY <1>1, <2>1, <2>4, LineIsGone
    <2> QED
        BY <2>3, <2>5
<1> QED
    BY <1>3, <1>4

\* The menus are open only at the shell.
LEMMA MenusAtShell ==
    ASSUME Menus
    PROVE  pc # "off"
BY DEF Menus, Quit, FinishSave, Crash, LostRule, EditRule, NewRule, DiscardNewRule, DeleteRule,
       RenameRule, CopyRule, EditField, AddStorage, EditStorage, EraseStorage, SaveRule, LeaveRule

LEMMA CommandInvInit == CommandInit => CommandInv
BY DEF CommandInit, CommandInv, NoLine, LineFields

LEMMA CommandInvStep ==
    ASSUME CommandInv, [CommandNext]_allVars
    PROVE  /\ CommandInv'
           /\ \A p \in Paths : fs[p] = "files" /\ p \notin Places(loaded) => fs'[p] = "files"
<1> DEFINE Stay == \A p \in Paths : fs[p] = "files" /\ p \notin Places(loaded) => fs'[p] = "files"
<1>0. fs' = fs => Stay
    OBVIOUS
<1> HIDE DEF Stay
<1>1. CASE StartCommand
    <2>1. PICK c \in Tried \cap Commands : line' = [NoLine EXCEPT !.cmd = c]
        BY <1>1 DEF StartCommand
    <2>2. /\ DOMAIN line' = LineFields
          /\ line'.to = Unspecified /\ line'.from = Unspecified
        BY <2>1 DEF NoLine, LineFields
    <2>3. Unspecified.type = "Unspecified"
        BY DEF Unspecified, Argument
    <2>4. stage' = "parse" /\ pc' = "off" /\ fs' = fs
        BY <1>1 DEF StartCommand, vars
    <2>5. ArgumentsKnown'
        BY <2>2, <2>3 DEF ArgumentsKnown
    <2>6. CommandInv'
        BY <2>2, <2>3, <2>4, <2>5 DEF CommandInv
    <2> QED
        BY <1>0, <2>4, <2>6
<1>2. CASE ReadOption
    <2>1. fs' = fs
        BY <1>2 DEF ReadOption, Refuse, Goes
    <2> QED
        BY <1>0, <1>2, <2>1, OptionStep
<1>3. CASE ReadValue
    <2>1. fs' = fs
        BY <1>3 DEF ReadValue, Refuse, Goes
    <2> QED
        BY <1>0, <1>3, <2>1, ValueStep
<1>4. CASE EndOptions \/ EndOfLine
    <2>1. fs' = fs
        BY <1>4 DEF EndOptions, EndOfLine, Refuse, Goes
    <2> QED
        BY <1>0, <1>4, <2>1, EndStep
<1>5. CASE ReadArgument
    BY <1>5, ArgumentStep DEF Stay
<1>6. CASE Run
    BY <1>6, RunStep DEF Stay
<1>7. CASE RunConfig
    <2>1. stage = "run" /\ stage' = "shell" /\ line' = NoLine /\ fs' = fs
        BY <1>7 DEF RunConfig
    <2>2. DOMAIN line' = LineFields
        BY <2>1 DEF NoLine, LineFields
    <2> QED
        BY <1>0, <2>1, <2>2, LineIsGone
<1>8. CASE Gone
    <2>1. stage = "aborted" /\ stage' = "shell" /\ line' = NoLine /\ fs' = fs
        BY <1>8 DEF Gone
    <2>2. DOMAIN line' = LineFields
        BY <2>1 DEF NoLine, LineFields
    <2> QED
        BY <1>0, <2>1, <2>2, LineIsGone
<1>9. CASE InMenus
    <2>1. pc # "off"
        BY <1>9, MenusAtShell DEF InMenus
    <2>2. stage = "shell" /\ DOMAIN line = LineFields
        BY <2>1 DEF CommandInv
    <2>3. UNCHANGED <<stage, line, fs>>
        BY <1>9 DEF InMenus, lineVars
    <2>4. CommandInv'
        BY <2>2, <2>3 DEF CommandInv
    <2> QED
        BY <1>0, <2>3, <2>4
<1>10. CASE UNCHANGED allVars
    <2>1. UNCHANGED <<vars, stage, line, a_storage, fs>>
        BY <1>10 DEF allVars, lineVars
    <2>2. loaded' = loaded /\ pc' = pc
        BY <2>1 DEF loaded, vars
    <2>3. \A arg : KnownStorage(arg)' <=> KnownStorage(arg)
        BY <2>1, <2>2 DEF KnownStorage
    <2>4. CommandInv'
        BY <2>1, <2>2, <2>3 DEF CommandInv, ArgumentsKnown
    <2> QED
        BY <1>0, <2>1, <2>4
<1> QED
    BY <1>1, <1>2, <1>3, <1>4, <1>5, <1>6, <1>7, <1>8, <1>9, <1>10 DEF CommandNext, Stay

\* A line that is obeyed knows its arguments.
THEOREM ArgumentsAreKnown == CommandSpec => []CommandInv
<1> QED
    BY CommandInvInit, CommandInvStep, PTL DEF CommandSpec

\* Whatever is stored, imported, pushed, restored or pruned by whatever line, a
\* directory with files of the user's own, which no rule has as a storage or as its
\* local storage, does not turn into a storage.
THEOREM FilesAreNoStorage == CommandSpec => FilesStayFiles
<1>1. CommandInv /\ [CommandNext]_allVars =>
        [\A p \in Paths : fs[p] = "files" /\ p \notin Places(loaded) => fs'[p] = "files"]_allVars
    BY CommandInvStep
<1> QED
    BY <1>1, ArgumentsAreKnown, PTL DEF CommandSpec, FilesStayFiles

-----------------------------------------------------------------------------
(* The options                                                             *)

\* The commands that delete, overwrite or send.
Deleting == {"prune", "restore", "fsck", "push"}

\* The options that such a command takes and does not obey.
Excused == {"background", "deepcheck", "useconfig"}

\* What was written and not taken as a value is in force, but for the option whose
\* value comes next.
Pending ==
    IF line.wants = None THEN line.opts \cup Excused
    ELSE line.opts \cup {line.wants} \cup Excused

OptionsInv ==
    /\ line.cmd \in Deleting =>
         /\ line.written \ line.eaten \subseteq Pending
         /\ line.wants # None => line.wants \notin NeverRead \ Excused
    /\ stage = "run" => line.wants = None

\* Of the options that nothing reads, these commands take two.
LEMMA AllowedIsRead ==
    ASSUME NEW c \in Deleting, NEW o, o \in GlobalOptions \/ hasCommandOption(c, o)
    PROVE  o \notin NeverRead \ Excused
<1>1. CASE o \in GlobalOptions
    BY <1>1 DEF GlobalOptions, NeverRead, Excused
<1>2. CASE hasCommandOption(c, o)
    <2> DEFINE x == CommandOptions[c]
    <2>1. PICK i \in 1..x.count : x.options[i] = o
        BY <1>2 DEF hasCommandOption
    <2>2. CASE c = "prune"
        <3>1. x = [count |-> 4, options |-> <<"keep", "now", "dryrun", "yesprune">>]
            BY <2>2 DEF CommandOptions
        <3>2. o \in {"keep", "now", "dryrun", "yesprune"}
            BY <2>1, <3>1
        <3> QED
            BY <3>2 DEF NeverRead
    <2>3. CASE c = "restore"
        <3>1. x = [count |-> 4,
                   options |-> <<"background", "progress", "yesrestore", "forceoverwritefiles">>]
            BY <2>3 DEF CommandOptions
        <3>2. o \in {"background", "progress", "yesrestore", "forceoverwritefiles"}
            BY <2>1, <3>1
        <3> QED
            BY <3>2 DEF NeverRead, Excused
    <2>4. CASE c = "fsck"
        <3>1. x = [count |-> 1, options |-> <<"deepcheck">>]
            BY <2>4 DEF CommandOptions
        <3>2. o = "deepcheck"
            BY <2>1, <3>1
        <3> QED
            BY <3>2 DEF Excused
    <2>5. CASE c = "push"
        <3>1. x = [count |-> 2, options |-> <<"background", "delta", "progress">>]
            BY <2>5 DEF CommandOptions
        <3>2. o \in {"background", "delta"}
            BY <2>1, <3>1
        <3> QED
            BY <3>2 DEF NeverRead, Excused
    <2> QED
        BY <2>2, <2>3, <2>4, <2>5 DEF Deleting
<1> QED
    BY <1>1, <1>2

LEMMA ReadIsObeyed ==
    ASSUME NEW o, NEW inline
    PROVE  o \notin NeverRead \ Excused => o \in Obeyed(o, inline) \cup Excused
BY DEF Obeyed, Excused

LEMMA ExpectedOfDeleting ==
    /\ ExpectedFrom["prune"] = "Storage" /\ ExpectedTo["prune"] = "None"
    /\ ExpectedFrom["restore"] = "Storage" /\ ExpectedTo["restore"] = "Origin"
    /\ ExpectedFrom["fsck"] = "Storage" /\ ExpectedTo["fsck"] = "None"
    /\ ExpectedFrom["push"] = "Rule" /\ ExpectedTo["push"] = "None"
<1>1. /\ ExpectedFrom["prune"] = "Storage" /\ ExpectedFrom["restore"] = "Storage"
      /\ ExpectedFrom["fsck"] = "Storage" /\ ExpectedFrom["push"] = "Rule"
    BY DEF ExpectedFrom
<1>2. Deleting \subseteq Commands
    BY DEF Commands, ExpectedFrom, Deleting
<1>3. "restore" \in DOMAIN TwoArguments /\ TwoArguments["restore"] = "Origin"
    BY DEF TwoArguments
<1>4. {"prune", "fsck", "push"} \cap DOMAIN TwoArguments = {}
    BY DEF TwoArguments
<1> QED
    BY <1>1, <1>2, <1>3, <1>4 DEF ExpectedTo, Deleting

\* A word that names nothing is no argument of such a command.
LEMMA NothingIsRefused ==
    ASSUME NEW p, NamesNothing(p), NEW point, NEW yes, NEW answers, NEW cmd \in Deleting,
           NEW expected \in {"Storage", "Rule", "Origin"}
    PROVE  ~parseArgument(p, point, expected, yes, cmd, answers).ok
<1>1. ~Wrong.ok
    BY DEF Wrong
<1>2. ~AsStorage(p, point, cmd, answers).ok
    <2>1. Behind(p) = p
        BY DEF NamesNothing, Behind
    <2>2. ~isFileSystemStorage(p, cmd)
        BY DEF NamesNothing, isFileSystemStorage, Deleting
    <2>3. findStorageFrom(p, cmd, answers) = NotFound
        BY <2>1, <2>2 DEF findStorageFrom, NamesNothing
    <2>4. ~findStorageFrom(p, cmd, answers).found
        BY <2>3 DEF NotFound
    <2>5. cmd \notin {"store", "import"}
        BY DEF Deleting
    <2> QED
        BY <1>1, <2>4, <2>5 DEF AsStorage
<1>3. ~AsRule(p, point).ok
    BY <1>1 DEF AsRule, NamesNothing
<1>4. ~AsOrigin(p, point, yes).ok
    BY <1>1 DEF AsOrigin, NamesNothing
<1> QED
    BY <1>1, <1>2, <1>3, <1>4 DEF parseArgument

\* What each word does to the fields of a line that the options are about.
LEMMA SetFields ==
    ASSUME NEW l, DOMAIN l = LineFields, NEW o, NEW inline
    PROVE  LET s == Set(l, o, inline)
           IN  /\ DOMAIN s = LineFields /\ s.cmd = l.cmd /\ s.written = l.written
               /\ s.eaten = l.eaten /\ s.opts = l.opts \cup Obeyed(o, inline) /\ s.wants = None
<1> DEFINE new == l.opts \cup Obeyed(o, inline)
           s == [l EXCEPT !.opts = new, !.wants = None]
<1>1. Set(l, o, inline) = s
    BY DEF Set
<1> HIDE DEF new
<1>2. /\ DOMAIN s = LineFields /\ s.cmd = l.cmd /\ s.written = l.written
      /\ s.eaten = l.eaten /\ s.opts = new /\ s.wants = None
    BY DEF LineFields
<1> HIDE DEF s
<1> QED
    BY <1>1, <1>2 DEF new

LEMMA OptionFields ==
    ASSUME NEW l, DOMAIN l = LineFields, NEW w, NEW x
    PROVE  /\ LET s == [l EXCEPT !.wants = w]
              IN  /\ s.cmd = l.cmd /\ s.written = l.written /\ s.eaten = l.eaten
                  /\ s.opts = l.opts /\ s.wants = w
           /\ LET s == [l EXCEPT !.written = w]
              IN  /\ DOMAIN s = LineFields /\ s.cmd = l.cmd /\ s.written = w
                  /\ s.eaten = l.eaten /\ s.opts = l.opts /\ s.wants = l.wants
           /\ LET s == [l EXCEPT !.written = w, !.eaten = x]
              IN  /\ s.cmd = l.cmd /\ s.written = w /\ s.eaten = x
                  /\ s.opts = l.opts /\ s.wants = l.wants
           /\ LET s == [l EXCEPT !.done = w]
              IN  /\ s.cmd = l.cmd /\ s.written = l.written /\ s.eaten = l.eaten
                  /\ s.opts = l.opts /\ s.wants = l.wants
BY DEF LineFields

LEMMA NextWordFields ==
    ASSUME DOMAIN line = LineFields
    PROVE  /\ DOMAIN NextWord = LineFields /\ NextWord.cmd = line.cmd
           /\ NextWord.written = line.written /\ NextWord.eaten = line.eaten
           /\ NextWord.opts = line.opts /\ NextWord.wants = line.wants
BY DEF NextWord, LineFields

\* Nothing is on a new line.
LEMMA NoOptions ==
    ASSUME line' = NoLine, stage' = "shell"
    PROVE  OptionsInv'
<1>1. NoLine.wants = None /\ NoLine.written = {}
    BY DEF NoLine
<1> QED
    BY <1>1 DEF OptionsInv

LEMMA RefusedOptions ==
    ASSUME OptionsInv, stage = "parse", Refuse \/ Abort
    PROVE  OptionsInv'
<1>1. CASE Refuse
    BY <1>1, NoOptions DEF Refuse
<1>2. CASE Abort
    BY <1>2 DEF Abort, OptionsInv, Pending
<1> QED
    BY <1>1, <1>2

LEMMA OptionKept ==
    ASSUME CommandInv, OptionsInv, ReadOption
    PROVE  OptionsInv'
<1>1. stage = "parse" /\ DOMAIN line = LineFields /\ line.wants = None
    BY DEF ReadOption, Reads, CommandInv
<1>2. PICK word \in OptionWords, inline \in BOOLEAN :
        LET o == Option(word)
            l == [NextWord EXCEPT !.written = @ \cup {o}]
        IN  \/ Refuse
            \/ /\ o \in GlobalOptions \/ hasCommandOption(line.cmd, o)
               /\ Goes(IF o \in ValueOptions /\ ~inline THEN [l EXCEPT !.wants = o] ELSE Set(l, o, inline))
    BY DEF ReadOption
<1> DEFINE o == Option(word)
           w == NextWord.written \cup {o}
           l == [NextWord EXCEPT !.written = w]
<1>3. /\ DOMAIN NextWord = LineFields /\ NextWord.cmd = line.cmd /\ NextWord.written = line.written
      /\ NextWord.eaten = line.eaten /\ NextWord.opts = line.opts
    BY <1>1, NextWordFields
<1>4. /\ DOMAIN l = LineFields /\ l.cmd = line.cmd /\ l.written = line.written \cup {o}
      /\ l.eaten = line.eaten /\ l.opts = line.opts
    <2>1. w = line.written \cup {o}
        BY <1>3
    <2> HIDE DEF w
    <2> QED
        BY <1>3, <2>1, OptionFields
<1>5. CASE Refuse
    BY <1>1, <1>5, RefusedOptions
<1>6. line.cmd \in Deleting => line.written \ line.eaten \subseteq line.opts \cup Excused
    BY <1>1 DEF OptionsInv, Pending
<1> HIDE DEF l, w
<1> DEFINE allowed == o \in GlobalOptions \/ hasCommandOption(line.cmd, o)
<1>7. CASE allowed /\ Goes([l EXCEPT !.wants = o]) /\ o \in ValueOptions
    <2>1. /\ line'.cmd = line.cmd /\ line'.written = line.written \cup {o}
          /\ line'.eaten = line.eaten /\ line'.opts = line.opts /\ line'.wants = o
        BY <1>4, <1>7, OptionFields DEF Goes
    <2>2. stage' = "parse" /\ o # None
        BY <1>1, <1>7, OptionsAssumption DEF Goes
    <2>3. line.cmd \in Deleting => o \notin NeverRead \ Excused
        BY <1>7, AllowedIsRead
    <2> HIDE DEF o
    <2> QED
        BY <1>6, <2>1, <2>2, <2>3 DEF OptionsInv, Pending
<1>8. CASE allowed /\ Goes(Set(l, o, inline))
    <2>1. /\ line'.cmd = line.cmd /\ line'.written = line.written \cup {o}
          /\ line'.eaten = line.eaten /\ line'.opts = line.opts \cup Obeyed(o, inline) /\ line'.wants = None
        BY <1>4, <1>8, SetFields DEF Goes
    <2>2. stage' = "parse"
        BY <1>1, <1>8 DEF Goes
    <2>3. line.cmd \in Deleting => o \in Obeyed(o, inline) \cup Excused
        BY <1>8, AllowedIsRead, ReadIsObeyed
    <2> HIDE DEF o
    <2> QED
        BY <1>6, <2>1, <2>2, <2>3 DEF OptionsInv, Pending
<1> QED
    BY <1>2, <1>5, <1>7, <1>8 DEF l, w

LEMMA ValueKept ==
    ASSUME CommandInv, OptionsInv, ReadValue
    PROVE  OptionsInv'
<1>1. stage = "parse" /\ DOMAIN line = LineFields /\ line.wants # None
    BY DEF ReadValue, Reads, CommandInv
<1>2. CASE Refuse
    BY <1>1, <1>2, RefusedOptions
<1>3. CASE ~Refuse
    <2>1. PICK value \in {"fine", "odd"} \cup OptionWords :
            Goes([Set(NextWord, line.wants, FALSE) EXCEPT
                     !.written = @ \cup ({Option(value)} \cap (GlobalOptions \cup OptionWords)),
                     !.eaten = @ \cup {Option(value)}])
        BY <1>3 DEF ReadValue
    <2> DEFINE l == Set(NextWord, line.wants, FALSE)
               w == l.written \cup ({Option(value)} \cap (GlobalOptions \cup OptionWords))
               x == l.eaten \cup {Option(value)}
    <2>2. line' = [l EXCEPT !.written = w, !.eaten = x] /\ stage' = "parse"
        BY <1>1, <2>1 DEF Goes
    <2>3. /\ DOMAIN NextWord = LineFields /\ NextWord.cmd = line.cmd /\ NextWord.written = line.written
          /\ NextWord.eaten = line.eaten /\ NextWord.opts = line.opts
        BY <1>1, NextWordFields
    <2>4. /\ DOMAIN l = LineFields /\ l.cmd = line.cmd /\ l.written = line.written
          /\ l.eaten = line.eaten /\ l.opts = line.opts \cup Obeyed(line.wants, FALSE) /\ l.wants = None
        <3>1. \A inline : LET s == Set(NextWord, line.wants, inline)
                          IN  /\ DOMAIN s = LineFields /\ s.cmd = line.cmd
                              /\ s.written = line.written /\ s.eaten = line.eaten
                              /\ s.opts = line.opts \cup Obeyed(line.wants, inline)
                              /\ s.wants = None
            BY <2>3, SetFields
        <3> QED
            BY <3>1, Zenon
    <2>5. w \subseteq line.written \cup {Option(value)} /\ x = line.eaten \cup {Option(value)}
        BY <2>4
    <2> DEFINE new == line.opts \cup Obeyed(line.wants, FALSE)
    <2> HIDE DEF l, w, x, new
    <2>6. /\ line'.cmd = line.cmd /\ line'.written = w /\ line'.eaten = x
          /\ line'.opts = new /\ line'.wants = None
        <3>1. l.opts = new
            BY <2>4, Zenon DEF new
        <3> QED
            BY <2>2, <2>4, <3>1, OptionFields
    <2>7. line.cmd \in Deleting =>
             /\ line.written \ line.eaten \subseteq line.opts \cup {line.wants} \cup Excused
             /\ line.wants \in Obeyed(line.wants, FALSE) \cup Excused
        BY <1>1, ReadIsObeyed DEF OptionsInv, Pending
    <2>8. line.cmd \in Deleting => w \ x \subseteq new \cup Excused
        BY <2>5, <2>7 DEF new
    <2> QED
        BY <2>2, <2>6, <2>8 DEF OptionsInv, Pending
<1> QED
    BY <1>2, <1>3

LEMMA EndKept ==
    ASSUME CommandInv, OptionsInv, EndOptions \/ EndOfLine
    PROVE  OptionsInv'
<1>1. stage = "parse" /\ DOMAIN line = LineFields
    BY DEF EndOptions, EndOfLine, Reads, CommandInv
<1>2. CASE EndOptions
    <2>1. line' = [NextWord EXCEPT !.done = TRUE] /\ stage' = "parse"
        BY <1>1, <1>2 DEF EndOptions, Goes
    <2>2. /\ line'.cmd = line.cmd /\ line'.written = line.written /\ line'.eaten = line.eaten
          /\ line'.opts = line.opts /\ line'.wants = line.wants
        BY <1>1, <2>1, NextWordFields, OptionFields
    <2> QED
        BY <1>1, <2>1, <2>2 DEF OptionsInv, Pending
<1>3. CASE EndOfLine
    <2>1. CASE Refuse
        BY <1>1, <2>1, RefusedOptions
    <2>2. CASE ~Refuse
        <3>1. line' = IF line.wants = None THEN line ELSE Set(line, line.wants, FALSE)
            BY <1>3, <2>2 DEF EndOfLine
        <3>2. CASE line.wants = None
            BY <3>1, <3>2 DEF OptionsInv, Pending
        <3>3. CASE line.wants # None
            <4>1. line' = Set(line, line.wants, FALSE)
                BY <3>1, <3>3
            <4>2. /\ line'.cmd = line.cmd /\ line'.written = line.written /\ line'.eaten = line.eaten
                  /\ line'.opts = line.opts \cup Obeyed(line.wants, FALSE) /\ line'.wants = None
                <5>1. \A inline : LET s == Set(line, line.wants, inline)
                                  IN  /\ s.cmd = line.cmd /\ s.written = line.written
                                      /\ s.eaten = line.eaten
                                      /\ s.opts = line.opts \cup Obeyed(line.wants, inline)
                                      /\ s.wants = None
                    BY <1>1, SetFields
                <5> QED
                    BY <4>1, <5>1, Zenon
            <4>3. line.cmd \in Deleting =>
                     /\ line.written \ line.eaten \subseteq line.opts \cup {line.wants} \cup Excused
                     /\ line.wants \in Obeyed(line.wants, FALSE) \cup Excused
                BY <3>3, ReadIsObeyed DEF OptionsInv, Pending
            <4> QED
                BY <4>2, <4>3 DEF OptionsInv, Pending
        <3> QED
            BY <3>2, <3>3
    <2> QED
        BY <2>1, <2>2
<1> QED
    BY <1>2, <1>3

\* An argument that is taken is none of the options.
LEMMA ArgumentKept ==
    ASSUME CommandInv, OptionsInv, ReadArgument
    PROVE  OptionsInv'
<1>1. stage = "parse" /\ DOMAIN line = LineFields /\ line.wants = None
    BY DEF ReadArgument, Reads, CommandInv
<1>2. CASE Refuse \/ Abort
    BY <1>1, <1>2, RefusedOptions
<1>3. CASE ~(Refuse \/ Abort)
    <2>1. PICK p \in Paths, point \in Points \cup {None}, answers \in BOOLEAN :
            TakeArgument(p, point, answers)
        BY DEF ReadArgument
    <2> DEFINE first == line.from.type = "Unspecified"
               expected == IF first THEN ExpectedFrom[line.cmd] ELSE ExpectedTo[line.cmd]
               yes == "yesorigin" \in line.opts
               read == parseArgument(p, point, expected, yes, line.cmd, answers)
               w == NextWord.written \cup {Option(o) : o \in {q \in {p} \cap OptionWords : NamesNothing(q)}}
               l == [NextWord EXCEPT !.done = TRUE, !.written = w]
    <2>2. TakeArgument(p, point, answers) =
            IF ~first /\ line.to.type # "Unspecified" THEN Refuse
            ELSE IF expected = "None" THEN Abort
            ELSE IF ~read.ok THEN Refuse
            ELSE /\ line' = IF first THEN [l EXCEPT !.from = read.arg]
                            ELSE [l EXCEPT !.to = read.arg]
                 /\ a_storage' = read.a
                 /\ fs' = [q \in Paths |-> IF q \in read.made THEN "empty" ELSE fs[q]]
                 /\ UNCHANGED <<vars, stage, lines>>
        BY Zenon DEF TakeArgument, NotExpected
    <2>3. /\ NextWord.cmd = line.cmd /\ DOMAIN NextWord = LineFields /\ NextWord.written = line.written
          /\ NextWord.eaten = line.eaten /\ NextWord.opts = line.opts /\ NextWord.wants = None
        BY <1>1, NextWordFields
    <2>4. line.cmd \in Deleting /\ expected # "None" => expected \in {"Storage", "Rule", "Origin"}
        BY ExpectedOfDeleting DEF Deleting
    <2>5. line.cmd \in Deleting /\ expected # "None" /\ read.ok => ~NamesNothing(p)
        <3> HIDE DEF expected, yes
        <3> QED BY <2>4, NothingIsRefused
    <2>6. ~NamesNothing(p) => w = line.written
        BY <2>3
    <2> HIDE DEF read, expected, first, w
    <2>7. /\ DOMAIN l = LineFields /\ l.cmd = line.cmd /\ l.written = w
          /\ l.eaten = line.eaten /\ l.opts = line.opts /\ l.wants = None
        BY <2>3 DEF LineFields
    <2> HIDE DEF l
    <2>8. /\ expected # "None" /\ read.ok /\ stage' = stage
          /\ line' = IF first THEN [l EXCEPT !.from = read.arg] ELSE [l EXCEPT !.to = read.arg]
        BY <1>3, <2>1, <2>2
    <2>9. /\ line'.cmd = line.cmd /\ line'.written = w /\ line'.eaten = line.eaten
          /\ line'.opts = line.opts /\ line'.wants = None
        <3>1. CASE first
            BY <2>7, <2>8, <3>1 DEF LineFields
        <3>2. CASE ~first
            BY <2>7, <2>8, <3>2 DEF LineFields
        <3> QED
            BY <3>1, <3>2
    <2>10. line.cmd \in Deleting => w = line.written
        BY <2>5, <2>6, <2>8
    <2> QED
        BY <1>1, <2>8, <2>9, <2>10 DEF OptionsInv, Pending
<1> QED
    BY <1>2, <1>3

LEMMA OptionsInvStep ==
    ASSUME CommandInv, OptionsInv, [CommandNext]_allVars
    PROVE  OptionsInv'
<1>1. CASE StartCommand
    <2>1. PICK c \in Tried \cap Commands : line' = [NoLine EXCEPT !.cmd = c]
        BY <1>1 DEF StartCommand
    <2>2. line'.written = {} /\ line'.wants = None /\ stage' = "parse"
        BY <1>1, <2>1 DEF NoLine, StartCommand
    <2> QED
        BY <2>2 DEF OptionsInv
<1>2. CASE ReadOption \/ ReadValue \/ EndOptions \/ EndOfLine \/ ReadArgument
    BY <1>2, OptionKept, ValueKept, EndKept, ArgumentKept
<1>3. CASE Run
    <2>1. CASE Abort
        BY <2>1 DEF Abort, OptionsInv, Pending
    <2>2. CASE ~Abort
        <3>1. line' = NoLine /\ stage' = "shell"
            BY <1>3, <2>2 DEF Run
        <3> QED
            BY <3>1, NoOptions
    <2> QED
        BY <2>1, <2>2
<1>4. CASE RunConfig \/ Gone
    BY <1>4, NoOptions DEF RunConfig, Gone
<1>5. CASE InMenus \/ UNCHANGED allVars
    <2>1. line' = line /\ stage' = stage
        BY <1>5 DEF InMenus, allVars, lineVars
    <2> QED
        BY <2>1 DEF OptionsInv, Pending
<1> QED
    BY <1>1, <1>2, <1>3, <1>4, <1>5 DEF CommandNext

\* A prune, restore, fsck or push obeys every option on its line, wherever on the
\* line it was written, unless it was the value of the option before it or names
\* something (parseCommandLine), or is background, deepcheck or useconfig: no dryrun
\* is lost.
THEOREM NoOptionIsLost == CommandSpec => []OptionsAreHonoured
<1>1. CommandInit => OptionsInv
    <2>1. NoLine.written = {} /\ NoLine.wants = None
        BY DEF NoLine
    <2> QED
        BY <2>1 DEF CommandInit, OptionsInv
<1>2. CommandInv /\ OptionsInv /\ [CommandNext]_allVars => OptionsInv'
    BY OptionsInvStep
<1>3. OptionsInv => OptionsAreHonoured
    BY DEF OptionsInv, OptionsAreHonoured, Pending, Deleting, Excused
<1> QED
    BY <1>1, <1>2, <1>3, ArgumentsAreKnown, PTL DEF CommandSpec

-----------------------------------------------------------------------------
(* The rules, line after line                                              *)

\* The menus and the lines keep the storages of the rules apart.
LEMMA RulesStep ==
    ASSUME ConfigInv, [CommandNext]_allVars
    PROVE  ConfigInv'
<1>1. CASE InMenus
    BY <1>1, MenuKeeps DEF InMenus
<1>2. CASE RunConfig
    BY <1>2, LaunchKeeps DEF RunConfig
<1>3. CASE StartCommand \/ ReadOption \/ ReadValue \/ EndOptions \/ EndOfLine \/ Gone
    <2>1. UNCHANGED vars
        BY <1>3 DEF StartCommand, ReadOption, ReadValue, EndOptions, EndOfLine, Gone, Refuse, Goes
    <2> QED
        BY <2>1, ConfigStays
<1>4. CASE ReadArgument
    <2>1. UNCHANGED vars
        BY <1>4 DEF ReadArgument, TakeArgument, NotExpected, Refuse, Abort
    <2> QED
        BY <2>1, ConfigStays
<1>5. CASE Run
    <2>1. UNCHANGED vars
        BY <1>5 DEF Run, Abort
    <2> QED
        BY <2>1, ConfigStays
<1>6. CASE UNCHANGED allVars
    <2>1. UNCHANGED vars
        BY <1>6 DEF allVars
    <2> QED
        BY <2>1, ConfigStays
<1> QED
    BY <1>1, <1>2, <1>3, <1>4, <1>5, <1>6 DEF CommandNext

\* Whatever was edited, saved, discarded or cut short by a crash or a write that
\* failed, no storage location that is its own real path is in two rules, nor twice
\* in one, while the user is in a menu.
THEOREM LocationsAreApart == CommandSpec => []OneRulePerLocation
<1>1. CommandInit => ConfigInv
    BY ConfigInit DEF CommandInit
<1> QED
    BY <1>1, RulesStep, ApartIsOne, PTL DEF CommandSpec

\* A save that has written the file and ends in a menu again has lost and mixed up
\* nothing: the rules read back are the rules that were in memory, by their names.
THEOREM SavesAreLossless == CommandSpec => SaveIsLossless
<1> DEFINE Kept == /\ DOMAIN rules' = ShownNames
                   /\ \A k \in DOMAIN rules : Plain(rules'[rules[k].name]) = Plain(rules[k])
<1>1. CommandInit => ConfigInv
    BY ConfigInit DEF CommandInit
<1>2. ConfigInv /\ [CommandNext]_allVars => 
        [pc = "saving" /\ pc' # "off" /\ file' = Written(rules) => Kept]_vars
    <2> SUFFICES ASSUME ConfigInv, [CommandNext]_allVars, pc = "saving", pc' # "off",
                        file' = Written(rules), ~UNCHANGED vars
                 PROVE  Kept
        OBVIOUS
    <2>1. InMenus
        <3>1. ~(StartCommand \/ ReadOption \/ ReadValue \/ EndOptions \/ EndOfLine \/ Gone)
            BY DEF StartCommand, ReadOption, ReadValue, EndOptions, EndOfLine, Gone, Refuse, Goes
        <3>2. ~ReadArgument
            BY DEF ReadArgument, TakeArgument, NotExpected, Refuse, Abort
        <3>3. ~Run
            BY DEF Run, Abort
        <3>4. ~RunConfig
            BY DEF RunConfig, Launch
        <3>5. ~UNCHANGED allVars
            BY DEF allVars
        <3> QED
            BY <3>1, <3>2, <3>3, <3>4, <3>5 DEF CommandNext
    <2>2. ~(Quit \/ Crash \/ LostRule \/ EditRule \/ NewRule \/ DiscardNewRule \/ DeleteRule
            \/ RenameRule \/ CopyRule)
        BY DEF Quit, Crash, Off, LostRule, EditRule, NewRule, DiscardNewRule, DeleteRule,
               RenameRule, CopyRule
    <2>3. ~(EditField \/ AddStorage \/ EditStorage \/ EraseStorage \/ SaveRule \/ LeaveRule)
        BY DEF EditField, AddStorage, EditStorage, EraseStorage, SaveRule, LeaveRule
    <2>4. FinishSave
        BY <2>1, <2>2, <2>3 DEF InMenus, Menus
    <2> QED
        BY <2>4, SaveIsRead
<1> QED
    BY <1>1, <1>2, RulesStep, PTL DEF CommandSpec, SaveIsLossless
=============================================================================
