---------------------------- MODULE Prune_proofs ----------------------------
(***************************************************************************)
(* What a prune decides, and what it may do beside a store.  For every set *)
(* of instants, every keep rule and every way of putting them into days,   *)
(* weeks and months: prune keeps what the keep rule means, pruning early   *)
(* or often forgets nothing, and its weeks and months are those of the     *)
(* calendar.  For any points in time and archive files, however shared: a  *)
(* prune or fsck beside a store loses no backup that could be restored     *)
(* when it began and that it does not discard.                             *)
(***************************************************************************)
EXTENDS PruneKeep, CalendarWalk, StoreAndScan, TLAPS

\* Rounded division by a positive number does not reverse an order.
LEMMA DivMonotone ==
    ASSUME NEW k \in Nat \ {0}, NEW a \in Int, NEW b \in Int, a <= b
    PROVE  a \div k <= b \div k
<1> DEFINE x == a \div k
           y == b \div k
<1>1. x \in Int /\ y \in Int
    OBVIOUS
<1>2. k * x <= a /\ b < k * y + k
    <2>1. a = k * x + (a % k) /\ a % k >= 0
        OBVIOUS
    <2>2. b = k * y + (b % k) /\ b % k < k /\ b % k \in Int
        OBVIOUS
    <2> QED
        BY <2>1, <2>2, <1>1
<1>3. k * x < k * y + k
    BY <1>1, <1>2
<1>4. SUFFICES ASSUME x >= y + 1 PROVE FALSE
    BY <1>1
<1>5. k * x >= k * (y + 1)
    BY <1>1, <1>4
<1> QED
    BY <1>1, <1>3, <1>5

\* An older backup is not younger, and a later prune finds it not younger.
LEMMA AgeMonotone ==
    ASSUME NEW p \in Times, NEW q \in Times, NEW s \in Times, NEW t \in Times,
           p <= q, s <= t
    PROVE  /\ Age(p, t) \in Int
           /\ Age(q, t) <= Age(p, t)
           /\ Age(p, s) <= Age(p, t)
<1>1. p \in Int /\ q \in Int /\ s \in Int /\ t \in Int /\ TicksPerSecond \in Nat \ {0}
    BY TimesAssumption, TicksPerSecondAssumption
<1>2. t - p \in Int /\ t - q \in Int /\ s - p \in Int /\ t - q <= t - p /\ s - p <= t - p
    BY <1>1
<1>3. Age(p, t) \in Int
    BY <1>1, <1>2 DEF Age
<1>4. Age(q, t) <= Age(p, t)
    BY <1>1, <1>2, DivMonotone DEF Age
<1>5. Age(p, s) <= Age(p, t)
    BY <1>1, <1>2, DivMonotone DEF Age
<1> QED
    BY <1>3, <1>4, <1>5

-----------------------------------------------------------------------------
(* The maps of a prune                                                     *)

DayOf == [p \in Times |-> to_days_since_epoch(p)]
WeekOf == [p \in Times |-> to_weeks_since_epoch(p)]
MonthOf == [p \in Times |-> to_month_identifier_since_epoch(p)]

Young(p, t, level) == Age(p, t) < level

\* The map holds the newest of the points `done' in every bucket that has a
\* point young enough for the level.
MaxOf(max, done, t, level, bucket) ==
    /\ \A b \in DOMAIN max :
           /\ max[b] \in done
           /\ bucket[max[b]] = b
           /\ Young(max[b], t, level)
           /\ \A q \in done : bucket[q] = b => q <= max[b]
    /\ \A p \in done : Young(p, t, level) => bucket[p] \in DOMAIN max

\* A map stays so when a newer point is added: if that point is too old for the
\* level, so is every older one of its bucket.
LEMMA PutMax ==
    ASSUME NEW done \in SUBSET Times, NEW p \in Times, \A q \in done : q < p,
           NEW t \in Times, NEW level \in Nat, NEW bucket, NEW max,
           MaxOf(max, done, t, level, bucket)
    PROVE  MaxOf(IF Age(p, t) < level THEN Put(max, bucket[p], p) ELSE max,
                 done \cup {p}, t, level, bucket)
<1> USE TimesAssumption
<1>1. CASE Young(p, t, level)
    <2> DEFINE new == Put(max, bucket[p], p)
    <2>1. /\ DOMAIN new = DOMAIN max \cup {bucket[p]}
          /\ new[bucket[p]] = p
          /\ \A b \in DOMAIN max : b # bucket[p] => new[b] = max[b]
        BY DEF Put
    <2> HIDE DEF new
    <2>2. MaxOf(new, done \cup {p}, t, level, bucket)
        <3>1. ASSUME NEW b \in DOMAIN new
              PROVE  /\ new[b] \in done \cup {p}
                     /\ bucket[new[b]] = b
                     /\ Young(new[b], t, level)
                     /\ \A q \in done \cup {p} : bucket[q] = b => q <= new[b]
            <4>1. CASE b = bucket[p]
                BY <1>1, <2>1, <4>1
            <4>2. CASE b # bucket[p]
                BY <2>1, <4>2 DEF MaxOf
            <4> QED
                BY <4>1, <4>2
        <3>2. \A q \in done \cup {p} : Young(q, t, level) => bucket[q] \in DOMAIN new
            BY <2>1 DEF MaxOf
        <3> QED
            BY <3>1, <3>2 DEF MaxOf
    <2> QED
        BY <1>1, <2>2 DEF new, Young
<1>2. CASE ~Young(p, t, level)
    <2>1. \A q \in done : ~Young(q, t, level)
        <3> SUFFICES ASSUME NEW q \in done PROVE ~Young(q, t, level)
            OBVIOUS
        <3>1. Age(p, t) <= Age(q, t) /\ Age(p, t) \in Int /\ Age(q, t) \in Int
            BY AgeMonotone
        <3> QED
            BY <1>2, <3>1 DEF Young
    <2>2. DOMAIN max = {}
        BY <2>1 DEF MaxOf
    <2> QED
        BY <1>2, <2>1, <2>2 DEF MaxOf, Young
<1> QED
    BY <1>1, <1>2

\* Its values are the young points that are the last of their bucket.
LEMMA MaxIsLast ==
    ASSUME NEW S \in SUBSET Times, NEW t, NEW level, NEW bucket, NEW max,
           MaxOf(max, S, t, level, bucket)
    PROVE  Values(max) =
             {p \in S : Young(p, t, level) /\ \A q \in S : bucket[q] = bucket[p] => q <= p}
<1>1. ASSUME NEW b \in DOMAIN max
      PROVE  /\ max[b] \in S /\ Young(max[b], t, level)
             /\ \A q \in S : bucket[q] = bucket[max[b]] => q <= max[b]
    BY DEF MaxOf
<1>2. ASSUME NEW p \in S, Young(p, t, level), \A q \in S : bucket[q] = bucket[p] => q <= p
      PROVE  p \in Values(max)
    <2>1. bucket[p] \in DOMAIN max /\ max[bucket[p]] \in S
        BY <1>2 DEF MaxOf
    <2>2. p <= max[bucket[p]] /\ max[bucket[p]] <= p
        BY <1>2, <2>1 DEF MaxOf
    <2>3. p \in Nat /\ max[bucket[p]] \in Nat
        BY <2>1, TimesAssumption
    <2>4. \A m \in Nat : p <= m /\ m <= p => p = m
        BY <2>3
    <2>5. p = max[bucket[p]]
        BY <2>2, <2>3, <2>4
    <2> QED
        BY <2>1, <2>5 DEF Values
<1> QED
    BY <1>1, <1>2 DEF Values

-----------------------------------------------------------------------------
(* The inductive invariant                                                 *)

\* What a prune knows of the points it has been given, all older than the rest.
Given == stored \ rest

AddInv ==
    pc = "add" =>
        /\ stored # {} /\ asof <= now
        /\ \A p \in Given, q \in rest : p < q
        /\ Given # {} => latest \in Given /\ \A q \in Given : q <= latest
        /\ all = {p \in Given : Young(p, asof, keep.all)}
        /\ MaxOf(daily_max, Given, asof, keep.daily, DayOf)
        /\ MaxOf(weekly_max, Given, asof, keep.weekly, WeekOf)
        /\ MaxOf(monthly_max, Given, asof, keep.monthly, MonthOf)

IdleInv ==
    pc = "idle" =>
        /\ rest = {} /\ latest = 0 /\ all = {}
        /\ daily_max = Empty /\ weekly_max = Empty /\ monthly_max = Empty

IInv == TypeOK /\ AddInv /\ IdleInv /\ NothingForgotten

\* Of all the points it is given, a prune keeps what the keep rule means.
LEMMA KeepsAreKept ==
    ASSUME TypeOK, AddInv, pc = "add", rest = {}
    PROVE  Keeps = Kept(stored, keep, asof)
<1>1. Given = stored /\ stored # {} /\ stored \subseteq Times
    BY DEF Given, AddInv, TypeOK
<1>2. {latest} = {p \in stored : \A q \in stored : q <= p}
    <2>1. latest \in stored /\ \A q \in stored : q <= latest
        BY <1>1 DEF AddInv
    <2>2. \A p \in stored : (\A q \in stored : q <= p) => p = latest
        BY <1>1, <2>1, TimesAssumption
    <2> QED
        BY <2>1, <2>2
<1>3. all = {p \in stored : Age(p, asof) < keep.all}
    BY <1>1 DEF AddInv, Young
<1>4. Values(daily_max) =
        {p \in stored : Age(p, asof) < keep.daily /\ LastOf(p, stored, to_days_since_epoch)}
    <2>1. MaxOf(daily_max, stored, asof, keep.daily, DayOf)
        BY <1>1 DEF AddInv
    <2>2. Values(daily_max) =
            {p \in stored : Young(p, asof, keep.daily)
                             /\ \A q \in stored : DayOf[q] = DayOf[p] => q <= p}
        BY <1>1, <2>1, MaxIsLast
    <2>3. \A p \in stored : DayOf[p] = to_days_since_epoch(p)
        BY <1>1 DEF DayOf
    <2> QED
        BY <2>2, <2>3 DEF Young, LastOf
<1>5. Values(weekly_max) =
        {p \in stored : Age(p, asof) < keep.weekly /\ LastOf(p, stored, to_weeks_since_epoch)}
    <2>1. MaxOf(weekly_max, stored, asof, keep.weekly, WeekOf)
        BY <1>1 DEF AddInv
    <2>2. Values(weekly_max) =
            {p \in stored : Young(p, asof, keep.weekly)
                             /\ \A q \in stored : WeekOf[q] = WeekOf[p] => q <= p}
        BY <1>1, <2>1, MaxIsLast
    <2>3. \A p \in stored : WeekOf[p] = to_weeks_since_epoch(p)
        BY <1>1 DEF WeekOf
    <2> QED
        BY <2>2, <2>3 DEF Young, LastOf
<1>6. Values(monthly_max) =
        {p \in stored : Age(p, asof) < keep.monthly
                         /\ LastOf(p, stored, to_month_identifier_since_epoch)}
    <2>1. MaxOf(monthly_max, stored, asof, keep.monthly, MonthOf)
        BY <1>1 DEF AddInv
    <2>2. Values(monthly_max) =
            {p \in stored : Young(p, asof, keep.monthly)
                             /\ \A q \in stored : MonthOf[q] = MonthOf[p] => q <= p}
        BY <1>1, <2>1, MaxIsLast
    <2>3. \A p \in stored : MonthOf[p] = to_month_identifier_since_epoch(p)
        BY <1>1 DEF MonthOf
    <2> QED
        BY <2>2, <2>3 DEF Young, LastOf
<1> QED
    BY <1>2, <1>3, <1>4, <1>5, <1>6 DEF Keeps, Kept

-----------------------------------------------------------------------------
(* What the keep rule keeps                                                *)

\* Time only takes away: what is kept later would be kept now.
LEMMA KeptLater ==
    ASSUME NEW S \in SUBSET Times, NEW rule \in KeepRules,
           NEW s \in Times, NEW t \in Times, s <= t
    PROVE  Kept(S, rule, t) \subseteq Kept(S, rule, s)
<1>1. rule.all \in Nat /\ rule.daily \in Nat /\ rule.weekly \in Nat /\ rule.monthly \in Nat
    BY KeepRulesAssumption
<1>2. ASSUME NEW p \in S, NEW level \in Nat, Age(p, t) < level
      PROVE  Age(p, s) < level
    <2>1. Age(p, s) <= Age(p, t) /\ Age(p, s) \in Int /\ Age(p, t) \in Int
        BY AgeMonotone, TimesAssumption
    <2> QED
        BY <1>2, <2>1
<1> QED
    BY <1>1, <1>2 DEF Kept

\* A backup that is kept among all is kept among fewer.
LEMMA KeptAmongFewer ==
    ASSUME NEW E, NEW S \in SUBSET E, NEW rule, NEW t
    PROVE  Kept(E, rule, t) \cap S \subseteq Kept(S, rule, t)
BY DEF Kept, LastOf

\* The newest point is always kept, and only points that are there:
\* what BeakStorage assumes of a prune (MayKeep).
THEOREM NewestIsKept ==
    ASSUME NEW S, NEW rule, NEW t, NEW p \in S, \A q \in S : q <= p
    PROVE  Kept(S, rule, t) \subseteq S /\ p \in Kept(S, rule, t)
BY DEF Kept

-----------------------------------------------------------------------------
(* Every step keeps the invariant                                          *)

\* A map that gets a point in time still has points in time for values.
LEMMA PutTyped ==
    ASSUME NEW max, max \in [DOMAIN max -> Times], NEW p \in Times, NEW bucket
    PROVE  LET new == Put(max, bucket, p) IN new \in [DOMAIN new -> Times]
BY DEF Put

LEMMA EmptyTyped == Empty \in [DOMAIN Empty -> Times] /\ DOMAIN Empty = {}
BY DEF Empty

\* Every step keeps every variable within its type.
LEMMA TypeStep == TypeOK /\ [Next]_vars => TypeOK'
<1> SUFFICES ASSUME TypeOK, [Next]_vars PROVE TypeOK'
    OBVIOUS
<1>1. CASE Store
    BY <1>1 DEF Store, TypeOK, mapVars
<1>2. CASE Tick
    BY <1>2 DEF Tick, TypeOK, mapVars
<1>3. CASE StartPrune
    BY <1>3 DEF StartPrune, TypeOK, mapVars
<1>4. CASE AddPointInTime
    <2> PICK p \in rest : rest' = rest \ {p} /\ addPointInTime(p)
        BY <1>4 DEF AddPointInTime
    <2>1. p \in Times
        BY DEF TypeOK
    <2>2. latest' \in Times /\ all' \subseteq Times
        BY <2>1 DEF addPointInTime, TypeOK
    <2>3. /\ daily_max' \in [DOMAIN daily_max' -> Times]
          /\ weekly_max' \in [DOMAIN weekly_max' -> Times]
          /\ monthly_max' \in [DOMAIN monthly_max' -> Times]
        BY <2>1, PutTyped DEF addPointInTime, TypeOK
    <2> QED
        BY <1>4, <2>2, <2>3 DEF AddPointInTime, TypeOK
<1>5. CASE Refuse \/ Prune
    BY <1>5, EmptyTyped DEF Refuse, Prune, EndPrune, TypeOK
<1>6. CASE UNCHANGED vars
    BY <1>6 DEF vars, mapVars, TypeOK
<1> QED
    BY <1>1, <1>2, <1>3, <1>4, <1>5, <1>6 DEF Next

\* Adding the oldest point that is left keeps what the prune knows true.
LEMMA AddKeepsInv ==
    ASSUME IInv, AddPointInTime
    PROVE  AddInv'
<1> PICK p \in rest : /\ \A q \in rest : p <= q
                      /\ rest' = rest \ {p}
                      /\ addPointInTime(p)
    BY DEF AddPointInTime, Oldest
<1>1. /\ pc = "add" /\ UNCHANGED <<now, keep, stored, pc, asof>>
    BY DEF AddPointInTime
<1>2. /\ p \in Times /\ p \in stored /\ stored \subseteq Times /\ rest \subseteq stored
      /\ Given \in SUBSET Times /\ asof \in Times
    BY DEF IInv, TypeOK, Given
<1>3. Given' = Given \cup {p}
    BY <1>1, <1>2 DEF Given
<1>4. \A q \in Given : q < p
    BY <1>1 DEF IInv, AddInv
<1>5. \A q \in Given', r \in rest' : q < r
    BY <1>1, <1>2, <1>3, TimesAssumption DEF IInv, AddInv
<1>6. latest' \in Given' /\ \A q \in Given' : q <= latest'
    BY <1>2, <1>3, <1>4, TimesAssumption DEF addPointInTime
<1>7. keep.all \in Nat /\ keep.daily \in Nat /\ keep.weekly \in Nat /\ keep.monthly \in Nat
    BY KeepRulesAssumption DEF IInv, TypeOK
<1>8. all' = {q \in Given' : Young(q, asof, keep.all)}
    BY <1>1, <1>3 DEF IInv, AddInv, addPointInTime, Young
<1>9. MaxOf(daily_max', Given', asof, keep.daily, DayOf)
    <2>1. DayOf[p] = to_days_since_epoch(p)
        BY <1>2 DEF DayOf
    <2>2. MaxOf(daily_max, Given, asof, keep.daily, DayOf)
        BY <1>1 DEF IInv, AddInv
    <2> QED
        BY <1>2, <1>3, <1>4, <1>7, <2>1, <2>2, PutMax DEF addPointInTime
<1>10. MaxOf(weekly_max', Given', asof, keep.weekly, WeekOf)
    <2>1. WeekOf[p] = to_weeks_since_epoch(p)
        BY <1>2 DEF WeekOf
    <2>2. MaxOf(weekly_max, Given, asof, keep.weekly, WeekOf)
        BY <1>1 DEF IInv, AddInv
    <2> QED
        BY <1>2, <1>3, <1>4, <1>7, <2>1, <2>2, PutMax DEF addPointInTime
<1>11. MaxOf(monthly_max', Given', asof, keep.monthly, MonthOf)
    <2>1. MonthOf[p] = to_month_identifier_since_epoch(p)
        BY <1>2 DEF MonthOf
    <2>2. MaxOf(monthly_max, Given, asof, keep.monthly, MonthOf)
        BY <1>1 DEF IInv, AddInv
    <2> QED
        BY <1>2, <1>3, <1>4, <1>7, <2>1, <2>2, PutMax DEF addPointInTime
<1>12. stored' # {} /\ asof' <= now'
    BY <1>1 DEF IInv, AddInv
<1> QED
    BY <1>1, <1>5, <1>6, <1>8, <1>9, <1>10, <1>11, <1>12
    DEF AddInv, MaxOf, Young, Age, DayOf, WeekOf, MonthOf

\* A prune starts with nothing in its maps.
LEMMA StartKeepsInv ==
    ASSUME IInv, StartPrune
    PROVE  AddInv'
<1>1. /\ Given' = {} /\ stored' # {} /\ asof' <= now' /\ all' = {}
      /\ daily_max' = Empty /\ weekly_max' = Empty /\ monthly_max' = Empty
    BY TimesAssumption DEF IInv, TypeOK, IdleInv, StartPrune, mapVars, Given
<1>2. \A t, level, bucket : MaxOf(Empty, {}, t, level, bucket)
    BY EmptyTyped DEF MaxOf
<1> QED
    BY <1>1, <1>2 DEF AddInv, MaxOf, Young, Age, DayOf, WeekOf, MonthOf

\* A backup more, a later time, a prune: the storage has what the rule keeps.
LEMMA NothingForgottenStep ==
    ASSUME IInv, [Next]_vars
    PROVE  NothingForgotten'
<1>1. /\ stored \subseteq ever /\ ever \subseteq Times /\ keep \in KeepRules
      /\ now \in Times /\ asof \in Times
    BY DEF IInv, TypeOK
<1>2. CASE Store
    <2> PICK p \in Times : stored' = stored \cup {p} /\ ever' = ever \cup {p}
        BY <1>2 DEF Store
    <2>1. Kept(ever \cup {p}, keep, now) \cap ever \subseteq Kept(ever, keep, now)
        BY KeptAmongFewer
    <2>2. Kept(ever \cup {p}, keep, now) \subseteq ever \cup {p}
        BY DEF Kept
    <2>3. Kept(ever \cup {p}, keep, now) \subseteq stored \cup {p}
        BY <2>1, <2>2 DEF IInv, NothingForgotten
    <2>4. keep' = keep /\ now' = now
        BY <1>2 DEF Store
    <2> QED
        BY <2>3, <2>4 DEF NothingForgotten, Kept, LastOf, Age
<1>3. CASE Tick
    <2>1. now' \in Times /\ now <= now' /\ UNCHANGED <<keep, stored, ever>>
        BY <1>1, <1>3, TimesAssumption DEF Tick
    <2>2. Kept(ever, keep, now') \subseteq Kept(ever, keep, now)
        BY <1>1, <2>1, KeptLater
    <2>3. Kept(ever, keep, now') \subseteq stored
        BY <2>2 DEF IInv, NothingForgotten
    <2> QED
        BY <2>1, <2>3 DEF NothingForgotten, Kept, LastOf, Age
<1>4. CASE Prune
    <2>1. /\ pc = "add" /\ rest = {} /\ UNCHANGED <<now, keep, ever>>
          /\ stored' \in {stored, stored \cap Keeps}
        BY <1>4 DEF Prune
    <2>2. Kept(ever, keep, now) \subseteq stored
        BY DEF IInv, NothingForgotten
    <2>3. Kept(ever, keep, now) \subseteq Kept(ever, keep, asof)
        BY <1>1, <2>1, KeptLater DEF IInv, AddInv
    <2>4. Kept(ever, keep, now) \subseteq Kept(stored, keep, asof)
        BY <1>1, <2>2, <2>3, KeptAmongFewer
    <2>5. Kept(ever, keep, now) \subseteq stored'
        BY <2>1, <2>2, <2>4, KeepsAreKept DEF IInv
    <2> QED
        BY <2>1, <2>5 DEF NothingForgotten, Kept, LastOf, Age
<1>5. CASE StartPrune \/ AddPointInTime \/ Refuse \/ UNCHANGED vars
    <2>1. UNCHANGED <<now, keep, stored, ever>>
        BY <1>5 DEF StartPrune, AddPointInTime, Refuse, vars
    <2> QED
        BY <2>1 DEF IInv, NothingForgotten, Kept, LastOf, Age
<1> QED
    BY <1>2, <1>3, <1>4, <1>5 DEF Next

\* The invariant is inductive.
LEMMA InvStep == IInv /\ [Next]_vars => IInv'
<1> SUFFICES ASSUME IInv, [Next]_vars PROVE IInv'
    OBVIOUS
<1>1. TypeOK' /\ NothingForgotten'
    BY TypeStep, NothingForgottenStep DEF IInv
<1>2. CASE Store
    BY <1>1, <1>2 DEF Store, mapVars, IInv, AddInv, IdleInv
<1>3. CASE Tick
    <2>1. now' \in Times /\ now <= now'
        BY <1>3, TimesAssumption DEF Tick, IInv, TypeOK
    <2>2. asof <= now => asof <= now'
        BY <2>1, TimesAssumption DEF IInv, TypeOK
    <2> QED
        BY <1>1, <1>3, <2>2
        DEF Tick, mapVars, IInv, AddInv, IdleInv, Given, MaxOf, Young, Age,
            DayOf, WeekOf, MonthOf
<1>4. CASE StartPrune
    BY <1>1, <1>4, StartKeepsInv DEF StartPrune, IInv, IdleInv
<1>5. CASE AddPointInTime
    BY <1>1, <1>5, AddKeepsInv DEF AddPointInTime, IInv, IdleInv
<1>6. CASE Refuse \/ Prune
    BY <1>1, <1>6 DEF Refuse, Prune, EndPrune, IInv, AddInv, IdleInv
<1>7. CASE UNCHANGED vars
    BY <1>1, <1>7
    DEF vars, mapVars, IInv, AddInv, IdleInv, Given, MaxOf, Young, Age, DayOf,
        WeekOf, MonthOf
<1> QED
    BY <1>2, <1>3, <1>4, <1>5, <1>6, <1>7 DEF Next

\* The invariant holds of an empty storage.
LEMMA InvInit == Init => IInv
BY EmptyTyped DEF Init, IInv, TypeOK, AddInv, IdleInv, NothingForgotten, Kept

\* Every variable keeps its type.
THEOREM TypeCorrect == Spec => []TypeOK
<1>1. IInv => TypeOK
    BY DEF IInv
<1> QED
    BY <1>1, InvInit, InvStep, PTL DEF Spec

\* The maps that prune fills in one pass over the points give what the keep
\* rule means: the newest point, all young ones, and the last of each day, week
\* and month that is young enough.
THEOREM PruneFollowsRule == Spec => []KeepsByRule
<1>1. IInv => KeepsByRule
    BY KeepsAreKept DEF IInv, KeepsByRule
<1> QED
    BY <1>1, InvInit, InvStep, PTL DEF Spec

\* However often a storage is pruned, it has every backup that the first prune
\* of all the backups ever stored would keep.
THEOREM PruneForgetsNothing == Spec => []NothingForgotten
<1>1. IInv => NothingForgotten
    BY DEF IInv
<1> QED
    BY <1>1, InvInit, InvStep, PTL DEF Spec

-----------------------------------------------------------------------------
(* The calendar                                                            *)

\* The quotient and the rest of a division by D, found again from their sum.
LEMMA DivMod ==
    ASSUME NEW D \in Nat \ {0}, NEW q \in Nat, NEW r \in 0..D - 1
    PROVE  /\ (q * D + r) \div D = q
           /\ (q * D + r) % D = r
<1> DEFINE a == q * D + r
           k == a \div D
<1>1. a \in Nat /\ k \in Nat /\ q * D \in Nat
    OBVIOUS
<1>2. k * D <= a /\ a < k * D + D
    BY SMT
<1>3. k >= q
  <2>1. SUFFICES ASSUME k < q PROVE FALSE
    BY <1>1
  <2>2. PICK d \in Nat : q = k + 1 + d
    <3>1. q - k - 1 \in Nat /\ q = k + 1 + (q - k - 1)
        BY <1>1, <2>1
    <3> QED BY <3>1
  <2>3. q * D = k * D + D + d * D
    <3> HIDE DEF k
    <3> QED BY <2>2, <1>1
  <2>4. d * D \in Nat
    BY <2>2
  <2> HIDE DEF k
  <2> QED BY <2>3, <2>4, <1>1, <1>2
<1>4. k <= q
  <2>1. SUFFICES ASSUME k > q PROVE FALSE
    BY <1>1
  <2>2. PICK d \in Nat : k = q + 1 + d
    <3>1. k - q - 1 \in Nat /\ k = q + 1 + (k - q - 1)
        BY <1>1, <2>1
    <3> QED BY <3>1
  <2>3. k * D = q * D + D + d * D
    <3> HIDE DEF k
    <3> QED BY <2>2, <1>1
  <2>4. d * D \in Nat
    BY <2>2
  <2> HIDE DEF k
  <2> QED BY <2>3, <2>4, <1>1, <1>2
<1>5. k = q
    BY <1>1, <1>3, <1>4
<1>6. a % D = a - D * k
    BY SMT
<1> QED BY <1>1, <1>5, <1>6

\* The day of the walk.
Days == to_days_since_epoch(tick)

\* The days of a tick and of the next one.
LEMMA NextTick ==
    ASSUME NEW t \in Nat
    PROVE  LET days == to_days_since_epoch(t)
               next == to_days_since_epoch(t + 1)
           IN  /\ days \in Nat
               /\ (t + 1) % TicksPerDay # 0 => next = days
               /\ (t + 1) % TicksPerDay = 0 => next = days + 1
<1> DEFINE d == t \div TicksPerDay
           r == t % TicksPerDay
<1>1. TicksPerDay \in Nat \ {0}
    BY TicksPerDayAssumption
<1>2. /\ d \in Nat /\ r \in 0..TicksPerDay - 1
      /\ t = TicksPerDay * d + r
    BY <1>1
<1> HIDE DEF d, r
<1>3. TicksPerDay * d = d * TicksPerDay /\ d * TicksPerDay \in Nat
    BY <1>1, <1>2
<1>4. CASE r + 1 < TicksPerDay
    <2>1. r + 1 \in 0..TicksPerDay - 1 /\ t + 1 = d * TicksPerDay + (r + 1)
        BY <1>1, <1>2, <1>3, <1>4
    <2>2. (t + 1) \div TicksPerDay = d /\ (t + 1) % TicksPerDay = r + 1
        BY <1>1, <1>2, <2>1, DivMod
    <2> QED
        BY <1>2, <2>2 DEF to_days_since_epoch, d
<1>5. CASE r + 1 = TicksPerDay
    <2> DEFINE e == d + 1
    <2>1. 0 \in 0..TicksPerDay - 1 /\ e \in Nat
        BY <1>1, <1>2
    <2>2. t + 1 = e * TicksPerDay + 0
        <3>1. (d + 1) * TicksPerDay = d * TicksPerDay + TicksPerDay
            BY <1>1, <1>2, SMT
        <3> QED
            BY <1>1, <1>2, <1>3, <1>5, <3>1
    <2>3. (t + 1) \div TicksPerDay = e /\ (t + 1) % TicksPerDay = 0
        <3> HIDE DEF e
        <3> QED
            BY <1>1, <2>1, <2>2, DivMod
    <2> QED
        BY <1>2, <2>3 DEF to_days_since_epoch, d
<1> QED
    BY <1>1, <1>2, <1>4, <1>5

\* The walk knows the week and the weekday of its day.
WeekInv ==
    /\ tick \in Nat
    /\ week = (Days + Thursday) \div 7
    /\ weekday = (Days + Thursday) % 7

\* Three days later the weeks are whole numbers of ticks.
LEMMA WeekOfTick ==
    ASSUME NEW t \in Nat
    PROVE  to_weeks_since_epoch(t) = (to_days_since_epoch(t) + 3) \div 7
<1> DEFINE d == t \div TicksPerDay
           r == t % TicksPerDay
           w == (d + 3) \div 7
           s == (d + 3) % 7
<1>1. TicksPerDay \in Nat \ {0}
    BY TicksPerDayAssumption
<1>2. /\ d \in Nat /\ r \in 0..TicksPerDay - 1
      /\ t = TicksPerDay * d + r
    BY <1>1
<1>3. /\ w \in Nat /\ s \in 0..6
      /\ d = 7 * w + s - 3
    <2> HIDE DEF d
    <2> QED BY <1>2
<1> HIDE DEF d, r, w, s
<1>4. t + 3 * TicksPerDay = w * (7 * TicksPerDay) + (s * TicksPerDay + r)
    <2>1. TicksPerDay * d = TicksPerDay * (7 * w + s - 3)
        BY <1>3
    <2>2. @ = 7 * (TicksPerDay * w) + TicksPerDay * s - 3 * TicksPerDay
        BY <1>1, <1>3
    <2> QED
        BY <1>1, <1>2, <1>3, <2>1, <2>2
<1>5. s * TicksPerDay + r \in 0..7 * TicksPerDay - 1
    <2>1. CASE s = 0 BY <1>1, <1>2, <2>1
    <2>2. CASE s = 1 BY <1>1, <1>2, <2>2
    <2>3. CASE s = 2 BY <1>1, <1>2, <2>3
    <2>4. CASE s = 3 BY <1>1, <1>2, <2>4
    <2>5. CASE s = 4 BY <1>1, <1>2, <2>5
    <2>6. CASE s = 5 BY <1>1, <1>2, <2>6
    <2>7. CASE s = 6 BY <1>1, <1>2, <2>7
    <2> QED
        BY <1>3, <2>1, <2>2, <2>3, <2>4, <2>5, <2>6, <2>7
<1>6. (t + 3 * TicksPerDay) \div (7 * TicksPerDay) = w
    <2>1. 7 * TicksPerDay \in Nat \ {0}
        BY <1>1
    <2> QED
        BY <1>3, <1>4, <1>5, <2>1, DivMod
<1> QED
    BY <1>6 DEF to_weeks_since_epoch, to_days_since_epoch, w, d

\* Weeks start on monday, on every day of the calendar: the last backup of a
\* week's work is the one that prune keeps.
THEOREM WeeksAreCalendarWeeks == WalkSpec => []WeeksStartOnMonday
<1>1. WalkInit => WeekInv
    <2> SUFFICES ASSUME WalkInit PROVE WeekInv
        OBVIOUS
    <2>1. tick = 0 /\ 0 \div TicksPerDay = 0
        BY TicksPerDayAssumption DEF WalkInit
    <2> QED
        BY <2>1 DEF WalkInit, WeekInv, Days, to_days_since_epoch, Thursday
<1>2. WeekInv /\ [WalkNext]_walkVars => WeekInv'
    <2> SUFFICES ASSUME WeekInv, [WalkNext]_walkVars PROVE WeekInv'
        OBVIOUS
    <2> USE DEF WeekInv, Thursday
    <2>1. CASE WalkNext /\ SameDay
        <3>1. Days' = Days
            BY <2>1, NextTick DEF WalkNext, SameDay, Days
        <3> QED
            BY <2>1, <3>1 DEF WalkNext, SameDay
    <2>2. CASE WalkNext /\ NewDay
        <3>1. Days' = Days + 1 /\ Days \in Nat
            BY <2>2, NextTick DEF WalkNext, NewDay, Days
        <3>2. /\ tick' \in Nat
              /\ weekday' = (weekday + 1) % 7
              /\ week' = IF weekday' = 0 THEN week + 1 ELSE week
            BY <2>2 DEF WalkNext, NewDay
        <3> HIDE DEF Days
        <3> QED
            BY <3>1, <3>2
    <2>3. CASE UNCHANGED walkVars
        BY <2>3 DEF walkVars, Days, to_days_since_epoch
    <2> QED
        BY <2>1, <2>2, <2>3 DEF WalkNext
<1>3. WeekInv => WeeksStartOnMonday
    BY WeekOfTick DEF WeekInv, WeeksStartOnMonday, Days, Thursday
<1> QED
    BY <1>1, <1>2, <1>3, PTL DEF WalkSpec

\* Years that begin in march: the day and the month after the leap day are
\* counted from there.
MarchYear(y, m) == IF m <= 2 THEN y - 1 ELSE y
MarchMonth(m) == IF m <= 2 THEN m + 9 ELSE m - 3

\* The days of a march year before a month.
DaysBeforeMonth(m) == (153 * MarchMonth(m) + 2) \div 5

\* The days before a march year, from march of the year 0.
DaysBeforeYear(y) == 365 * y + y \div 4 - y \div 100 + y \div 400

Date(y, m, d) ==
    DaysBeforeYear(MarchYear(y, m)) + DaysBeforeMonth(m) + d - 1

\* The tick is on the date; the epoch is 719468 days after march of year 0.
IsDate(t, y, m, d) == to_days_since_epoch(t) + 719468 = Date(y, m, d)

\* A leap year is one day longer, in february.
LEMMA YearLength ==
    ASSUME NEW y \in Nat, y > 0
    PROVE  DaysBeforeYear(y) = DaysBeforeYear(y - 1) + (IF IsLeap(y) THEN 366 ELSE 365)
<1>1. y \div 4 = (y - 1) \div 4 + (IF y % 4 = 0 THEN 1 ELSE 0)
    OBVIOUS
<1>2. y \div 100 = (y - 1) \div 100 + (IF y % 100 = 0 THEN 1 ELSE 0)
    OBVIOUS
<1>3. y \div 400 = (y - 1) \div 400 + (IF y % 400 = 0 THEN 1 ELSE 0)
    OBVIOUS
<1>4. (y % 400 = 0 => y % 100 = 0) /\ (y % 100 = 0 => y % 4 = 0)
    OBVIOUS
<1> QED
    BY <1>1, <1>2, <1>3, <1>4 DEF DaysBeforeYear, IsLeap

\* Every month is as long as the arithmetic has it.
LEMMA MonthLength ==
    ASSUME NEW y \in Nat, y > 0, NEW m \in 1..11
    PROVE  Date(y, m + 1, 1) = Date(y, m, DaysIn(m, y)) + 1
<1>1. CASE m = 2
    <2>1. /\ DaysIn(2, y) = IF IsLeap(y) THEN 29 ELSE 28
          /\ DaysBeforeMonth(2) = 337 /\ DaysBeforeMonth(3) = 0
        BY SMT DEF DaysIn, DaysBeforeMonth, MarchMonth
    <2>2. MarchYear(y, 2) = y - 1 /\ MarchYear(y, 3) = y
        BY SMT DEF MarchYear
    <2>3. DaysBeforeYear(y - 1) \in Int
        BY SMT DEF DaysBeforeYear
    <2>4. /\ Date(y, 3, 1) = DaysBeforeYear(y)
          /\ Date(y, 2, DaysIn(2, y)) = DaysBeforeYear(y - 1) + 336 + DaysIn(2, y)
        <3>1. DaysBeforeYear(y) \in Int /\ DaysIn(2, y) \in Int
            BY <2>1, SMT DEF DaysBeforeYear
        <3> QED
            BY <2>1, <2>2, <2>3, <3>1, SMT DEF Date
    <2> QED
        BY <1>1, <2>1, <2>3, <2>4, YearLength, SMT
<1>2. CASE m # 2
    <2>1. /\ MarchYear(y, m + 1) = MarchYear(y, m)
          /\ DaysBeforeMonth(m + 1) = DaysBeforeMonth(m) + DaysIn(m, y)
          /\ DaysIn(m, y) \in Nat /\ DaysBeforeMonth(m) \in Nat
        BY <1>2 DEF DaysIn, DaysBeforeMonth, MarchMonth, MarchYear
    <2>2. DaysBeforeYear(MarchYear(y, m)) \in Int
        BY DEF DaysBeforeYear, MarchYear
    <2> QED
        BY <2>1, <2>2 DEF Date
<1> QED
    BY <1>1, <1>2

\* The walk counts the days.
DateInv ==
    /\ tick \in Nat
    /\ year \in Nat /\ year >= 1970
    /\ month \in 1..12
    /\ day \in 1..DaysIn(month, year)
    /\ IsDate(tick, year, month, day)

\* The year of an era is found from its day: a, b and c count the years, the
\* leap years and the centuries.
LEMMA YearOfDay ==
    ASSUME NEW a \in 0..3, NEW b \in 0..24, NEW c \in 0..3, NEW doy \in 0..365,
           doy = 365 => a = 3 /\ (b # 24 \/ c = 3)
    PROVE  LET doe == 36524 * c + 1461 * b + 365 * a + doy
           IN  (doe - doe \div 1460 + doe \div 36524 - doe \div 146096) \div 365
                   = 100 * c + 4 * b + a
BY SMTT(60)

\* An era is not longer than its four centuries.
LEMMA EraLength ==
    ASSUME NEW a \in Nat, NEW b \in Nat, NEW c \in Nat, NEW doy \in Nat,
           a <= 3, b <= 24, c <= 3, doy <= 365
    PROVE  /\ 36524 * c + 1461 * b + 365 * a + doy \in Nat
           /\ 36524 * c + 1461 * b + 365 * a + doy <= 146096
BY SMT

\* The month that prune calculates is the month of the date.
LEMMA MonthOfDate ==
    ASSUME NEW t \in Nat, NEW y \in Nat, y > 0, NEW m \in 1..12, NEW d \in 1..DaysIn(m, y),
           IsDate(t, y, m, d)
    PROVE  to_month_identifier_since_epoch(t) = y * 100 + m
<1> DEFINE my == MarchYear(y, m)
           doy == DaysBeforeMonth(m) + d - 1
           era == my \div 400
           rest400 == my % 400
           c == rest400 \div 100
           rest100 == rest400 % 100
           b == rest100 \div 4
           a == rest100 % 4
           doe == 36524 * c + 1461 * b + 365 * a + doy
           yoe == 100 * c + 4 * b + a
           z == to_days_since_epoch(t) + 719468
<1>1. /\ my \in Nat /\ era \in Nat
      /\ a \in 0..3 /\ b \in 0..24 /\ c \in 0..3
      /\ my = 400 * era + yoe
    <2>1. my \in Nat
        BY SMT DEF MarchYear
    <2>2. my = 400 * era + rest400 /\ rest400 \in 0..399 /\ era \in Nat
        <3> HIDE DEF my
        <3> QED BY <2>1, SMT
    <2>3. rest400 = 100 * c + rest100 /\ rest100 \in 0..99 /\ c \in 0..3
        <3> HIDE DEF rest400
        <3> QED BY <2>2, SMT
    <2>4. rest100 = 4 * b + a /\ b \in 0..24 /\ a \in 0..3
        <3> HIDE DEF rest100
        <3>1. rest100 \in 0..99
            BY <2>3
        <3> QED BY <3>1, SMT
    <2> HIDE DEF my, era, rest400, c, rest100, b, a
    <2> QED
        BY <2>1, <2>2, <2>3, <2>4, SMT
<1>2. /\ doy \in 0..365
      /\ doy = 365 => IsLeap(my + 1)
    <2>1. m = 2 => DaysIn(m, y) = IF IsLeap(y) THEN 29 ELSE 28
        BY SMT DEF DaysIn
    <2>2. CASE m = 2
        BY <2>1, <2>2, SMT DEF DaysBeforeMonth, MarchMonth, MarchYear
    <2>3. CASE m # 2
        BY <2>3, SMT DEF DaysIn, DaysBeforeMonth, MarchMonth
    <2> QED
        BY <2>2, <2>3, SMT
<1> HIDE DEF my, era, a, b, c, doy
<1>3. doy = 365 => a = 3 /\ (b # 24 \/ c = 3)
    <2> SUFFICES ASSUME doy = 365 PROVE a = 3 /\ (b # 24 \/ c = 3)
        OBVIOUS
    <2>1. /\ (my + 1) % 4 = 0
          /\ (my + 1) % 100 = 0 => (my + 1) % 400 = 0
        BY <1>1, <1>2, SMT DEF IsLeap
    <2>2. a = 3
        BY <1>1, <2>1, SMT
    <2>3. ASSUME b = 24, c # 3 PROVE FALSE
        <3>1. my + 1 = 400 * era + 100 * (c + 1) /\ c + 1 \in 1..3
            BY <1>1, <2>2, <2>3, SMT
        <3>2. (my + 1) % 100 = 0 /\ (my + 1) % 400 = 100 * (c + 1)
            BY <1>1, <3>1, SMT
        <3> QED
            BY <2>1, <3>1, <3>2, SMT
    <2> QED
        BY <2>2, <2>3
<1>4. (5 * doy + 2) \div 153 = MarchMonth(m)
    <2>1. MarchMonth(m) \in 0..11 /\ d \in 1..31
        BY SMT DEF MarchMonth, DaysIn
    <2>2. /\ MarchMonth(m) \in {1, 3, 6, 8} => d <= 30
          /\ MarchMonth(m) = 11 => d <= 29
        BY SMT DEF MarchMonth, DaysIn
    <2> QED
        BY <2>1, <2>2, SMT DEF DaysBeforeMonth, doy
<1>5. /\ my \div 4 = 100 * era + 25 * c + b
      /\ my \div 100 = 4 * era + c
      /\ my \div 400 = era
    BY <1>1, SMT
<1>6. z = era * 146097 + doe
    <2>1. z = DaysBeforeYear(my) + doy
        <3>1. DaysBeforeYear(my) \in Int /\ DaysBeforeMonth(m) \in Int /\ d \in Int
            BY <1>1, SMT DEF DaysBeforeYear, DaysBeforeMonth, MarchMonth, DaysIn
        <3>2. Date(y, m, d) = DaysBeforeYear(my) + doy
            BY <3>1, SMT DEF Date, my, doy
        <3> QED
            BY <3>2 DEF IsDate
    <2>2. DaysBeforeYear(my) = 365 * my + (100 * era + 25 * c + b) - (4 * era + c) + era
        BY <1>5 DEF DaysBeforeYear
    <2> QED
        BY <1>1, <1>2, <2>1, <2>2, SMT
<1>7. doe \in Nat /\ doe <= 146096
    <2>1. /\ a \in Nat /\ b \in Nat /\ c \in Nat /\ doy \in Nat
          /\ a <= 3 /\ b <= 24 /\ c <= 3 /\ doy <= 365
        BY <1>1, <1>2, SMT
    <2> QED
        BY <2>1, EraLength
<1>8. /\ z \div 146097 = era
      /\ z - era * 146097 = doe
    <2> HIDE DEF z, doe
    <2> QED BY <1>1, <1>6, <1>7, SMT
<1>9. (doe - doe \div 1460 + doe \div 36524 - doe \div 146096) \div 365 = yoe
    BY <1>1, <1>2, <1>3, YearOfDay, SMT
<1>10. doe - (365 * yoe + yoe \div 4 - yoe \div 100) = doy
    BY <1>1, <1>2, SMT
<1>11. LET mp == (5 * doy + 2) \div 153
           mm == IF mp < 10 THEN mp + 3 ELSE mp - 9
           yy == yoe + era * 400 + (IF mm <= 2 THEN 1 ELSE 0)
       IN  yy * 100 + mm = y * 100 + m
    BY <1>1, <1>4, SMT DEF MarchMonth, MarchYear, my
<1> HIDE DEF doe, yoe, z
<1>12. to_month_identifier_since_epoch(t)
        = LET mp == (5 * doy + 2) \div 153
              mm == IF mp < 10 THEN mp + 3 ELSE mp - 9
              yy == yoe + era * 400 + (IF mm <= 2 THEN 1 ELSE 0)
          IN  yy * 100 + mm
    BY <1>8, <1>9, <1>10, SMT DEF to_month_identifier_since_epoch, z
<1> QED
    BY <1>11, <1>12, SMT

\* A month of prune is a month of the calendar on every day, leap years and
\* centuries included, for ever: no two months share an identifier.
THEOREM MonthsAreCalendarMonths == WalkSpec => []MonthsAreCivil
<1>1. WalkInit => DateInv
    <2> SUFFICES ASSUME WalkInit PROVE DateInv
        OBVIOUS
    <2>1. tick = 0 /\ Days = 0
        BY TicksPerDayAssumption DEF WalkInit, Days, to_days_since_epoch
    <2>2. DaysIn(1, 1970) = 31 /\ Date(1970, 1, 1) = 719468
        BY DEF DaysIn, Date, DaysBeforeYear, DaysBeforeMonth, MarchMonth, MarchYear
    <2> QED
        BY <2>1, <2>2 DEF WalkInit, DateInv, IsDate, Days
<1>2. DateInv /\ [WalkNext]_walkVars => DateInv'
    <2> SUFFICES ASSUME DateInv, [WalkNext]_walkVars PROVE DateInv'
        OBVIOUS
    <2> USE DEF DateInv, IsDate
    <2>1. CASE WalkNext /\ SameDay
        <3>1. Days' = Days
            BY <2>1, NextTick DEF WalkNext, SameDay, Days
        <3> QED
            BY <2>1, <3>1 DEF WalkNext, SameDay, Days
    <2>2. CASE WalkNext /\ NewDay
        <3>1. Days' = Days + 1 /\ Days \in Nat /\ tick' \in Nat
            BY <2>2, NextTick DEF WalkNext, NewDay, Days
        <3>2. NextDate
            BY <2>2 DEF NewDay
        <3>3. /\ year' \in Nat /\ year' >= 1970
              /\ month' \in 1..12
              /\ day' \in 1..DaysIn(month', year')
            BY <3>2 DEF NextDate, DaysIn
        <3>4. Date(year', month', day') = Date(year, month, day) + 1
            <4>1. CASE /\ day < DaysIn(month, year)
                       /\ day' = day + 1 /\ UNCHANGED <<year, month>>
                <5>1. DaysBeforeYear(MarchYear(year, month)) \in Int
                      /\ DaysBeforeMonth(month) \in Int
                      /\ day \in Int
                    BY DEF DaysBeforeYear, MarchYear, DaysBeforeMonth, MarchMonth
                <5> QED
                    BY <4>1, <5>1 DEF Date
            <4>2. CASE /\ day = DaysIn(month, year) /\ month < 12
                       /\ day' = 1 /\ month' = month + 1 /\ year' = year
                BY <4>2, MonthLength
            <4>3. CASE day = 31 /\ month = 12 /\ day' = 1 /\ month' = 1 /\ year' = year + 1
                BY <4>3 DEF Date, DaysBeforeYear, MarchYear, DaysBeforeMonth, MarchMonth
            <4> QED
                BY <3>2, <4>1, <4>2, <4>3 DEF NextDate
        <3> QED
            BY <3>1, <3>3, <3>4, SMT DEF Days
    <2>3. CASE UNCHANGED walkVars
        BY <2>3 DEF walkVars, Days, to_days_since_epoch
    <2> QED
        BY <2>1, <2>2, <2>3 DEF WalkNext
<1>3. DateInv => MonthsAreCivil
    <2> SUFFICES ASSUME DateInv PROVE MonthsAreCivil
        OBVIOUS
    <2>1. year \in Nat /\ year > 0
        BY DEF DateInv
    <2>2. /\ tick \in Nat /\ month \in 1..12 /\ day \in 1..DaysIn(month, year)
          /\ IsDate(tick, year, month, day)
        BY DEF DateInv
    <2>3. to_month_identifier_since_epoch(tick) = year * 100 + month
        BY <2>1, <2>2, MonthOfDate, Zenon
    <2> QED
        BY <2>3 DEF MonthsAreCivil
<1> QED
    BY <1>1, <1>2, <1>3, PTL DEF WalkSpec

-----------------------------------------------------------------------------
(* A store and a scan at once.                                             *)

File == Writer!File
Stored(f) == disk[f] = "stored" /\ f \notin tainted

\* The files of both processes, and what each has in memory.
DiskOK ==
    /\ disk \in [File -> Writer!FileState]
    /\ tainted \subseteq Tars
    /\ origin \in Points
    /\ promised \subseteq Points

WriterOK ==
    /\ wcmd \in {"idle", "store"}
    /\ wpc \in {"idle", "visit", "create", "fill", "stalled", "stamp"}
    /\ target \in Points \cup {None}
    /\ wtodo \subseteq File
    /\ cur \in File \cup {None}
    /\ failed \in BOOLEAN

ScannerOK ==
    /\ scmd \in {"idle", "prune", "fsck"}
    /\ spc \in {"idle", "list", "delete", "deleteBroken"}
    /\ stodo \subseteq File
    /\ history \subseteq Points
    /\ needs \in [Points -> SUBSET Tars]
    /\ verdict \subseteq Points
    /\ broken \subseteq Points
    /\ nothing = None
    /\ safe \subseteq Points

\* The file a store is writing is not one that is stored, though the other
\* process may delete it at any moment.
WriterInv ==
    /\ wcmd = "idle" <=> wpc = "idle"
    /\ wcmd = "store" => target \in Points /\ wtodo \subseteq Writer!FilesOf(target)
    /\ wpc \in {"create", "fill", "stalled", "stamp"} => cur \in wtodo /\ disk[cur] # "stored"

\* A prune or fsck has read all that a safe point needs, however much of the
\* storage has changed since, and what it is going to delete is of no safe point.
ScannerInv ==
    /\ scmd = "idle" <=> spc = "idle"
    /\ scmd = "idle" => safe = {}
    /\ \A p \in safe : p \in history /\ needs[p] = Writer!Tarfiles(p)
    /\ spc = "deleteBroken" => scmd = "fsck"
    /\ spc \in {"delete", "deleteBroken"} =>
        /\ safe \subseteq verdict
        /\ scmd = "fsck" => broken \cap verdict = {}
        /\ \A p \in safe : stodo \cap Writer!FilesOf(p) = {}

PairInv == DiskOK /\ WriterOK /\ ScannerOK /\ WriterInv /\ ScannerInv /\ RestorableSurvives

-----------------------------------------------------------------------------
(* The files                                                               *)

\* Both processes mean the same files by the files of a point in time.
LEMMA SameFiles ==
    /\ File = Points \cup Tars /\ Scanner!File = File
    /\ \A p \in Points : /\ Writer!Tarfiles(p) \subseteq Tars
                         /\ Writer!FilesOf(p) = {p} \cup Writer!Tarfiles(p)
                         /\ Writer!FilesOf(p) \subseteq File
                         /\ Scanner!Tarfiles(p) = Writer!Tarfiles(p)
                         /\ Scanner!FilesOf(p) = Writer!FilesOf(p)
BY LayoutAssumption
DEF File, Writer!File, Scanner!File, Writer!Tarfiles, Scanner!Tarfiles,
    Writer!FilesOf, Scanner!FilesOf

\* A point is intact if all of its files are stored.
LEMMA IntactMeansStored ==
    \A p : p \in Writer!IntactPoints <=> p \in Points /\ \A f \in Writer!FilesOf(p) : Stored(f)
BY DEF Writer!IntactPoints, Writer!Intact, Stored

\* A step that spoils no stored file loses no intact point.
LEMMA IntactKept ==
    ASSUME \A f \in File : Stored(f) => Stored(f)'
    PROVE  Writer!IntactPoints \subseteq Writer!IntactPoints'
<1> SUFFICES ASSUME NEW p \in Points, \A f \in Writer!FilesOf(p) : Stored(f)
             PROVE  \A f \in Writer!FilesOf(p) : Stored(f)'
    BY DEF Writer!IntactPoints, Writer!Intact, Stored, Writer!FilesOf, Writer!Tarfiles
<1> QED
    BY SameFiles

\* The invariant speaks of the layout, which does not change.
LEMMA SameLayout ==
    /\ File' = File
    /\ \A p : Writer!FilesOf(p)' = Writer!FilesOf(p) /\ Writer!Tarfiles(p)' = Writer!Tarfiles(p)
BY DEF File, Writer!File, Writer!FilesOf, Writer!Tarfiles

-----------------------------------------------------------------------------
(* The process that stores                                                 *)

\* It leaves the other process alone.
LEMMA ScannerUnchanged ==
    ASSUME ScannerOK, ScannerInv, UNCHANGED <<scannerVars, safe>>
    PROVE  ScannerOK' /\ ScannerInv'
BY SameLayout DEF ScannerOK, ScannerInv, scannerVars

\* It writes to no file that is stored, and its own step is well typed.
LEMMA WriterStepSpares ==
    ASSUME DiskOK, WriterOK, WriterInv, Writer!StartStore \/ Writer!StoreStep \/ Writer!Crash
    PROVE  /\ DiskOK' /\ WriterOK' /\ WriterInv'
           /\ \A f \in File : Stored(f) => Stored(f)'
<1> USE DEF Writer!FileState
<1>1. /\ target \in Points => Writer!FilesOf(target) \subseteq File
      /\ \A p \in Points : Writer!FilesOf(p) \subseteq File
    BY SameFiles
<1>2. CASE Writer!StartStore
    <2>1. /\ wcmd' = "store" /\ wpc' = "visit" /\ target' = origin
          /\ wtodo' = Writer!FilesOf(origin)
          /\ UNCHANGED <<disk, tainted, origin, cur, failed, promised>>
        BY <1>2 DEF Writer!StartStore
    <2>2. WriterInv' /\ WriterOK'
        BY <1>1, <2>1, SameLayout DEF WriterInv, WriterOK, DiskOK
    <2> QED
        BY <2>1, <2>2, SameLayout DEF DiskOK, Stored
<1>3. CASE Writer!Crash
    BY <1>3, SameLayout
    DEF Writer!Crash, Writer!Exit, DiskOK, WriterOK, WriterInv, Stored
<1>4. ASSUME NEW f \in File, Writer!SkipFile(f)
      PROVE  /\ DiskOK' /\ WriterOK' /\ WriterInv'
             /\ \A g \in File : Stored(g) => Stored(g)'
    BY <1>4, SameLayout
    DEF Writer!SkipFile, Writer!storeVars, DiskOK, WriterOK, WriterInv, Stored
<1>5. ASSUME NEW f \in File, Writer!ReplaceFile(f)
      PROVE  /\ DiskOK' /\ WriterOK' /\ WriterInv'
             /\ \A g \in File : Stored(g) => Stored(g)'
    <2>1. /\ wpc = "visit" /\ wpc' = "create" /\ f \in wtodo /\ cur' = f
          /\ disk[f] # "stored" /\ disk' = [disk EXCEPT ![f] = "absent"]
          /\ tainted' = tainted \ {f}
          /\ UNCHANGED <<origin, wcmd, target, wtodo, failed, promised>>
        BY <1>5 DEF Writer!ReplaceFile, Writer!Visitable
    <2>2. DiskOK' /\ WriterOK' /\ WriterInv'
        BY <2>1, SameLayout DEF DiskOK, WriterOK, WriterInv
    <2> QED
        BY <2>1, <2>2 DEF Stored, DiskOK
<1>6. CASE Writer!CreateFile
    <2>1. /\ wpc = "create" /\ wpc' = "fill"
          /\ disk' = [disk EXCEPT ![cur] = "short"]
          /\ UNCHANGED <<tainted, origin, wcmd, target, wtodo, cur, failed, promised>>
        BY <1>6 DEF Writer!CreateFile, Writer!storeVars
    <2>2. DiskOK' /\ WriterOK' /\ WriterInv'
        BY <2>1, SameLayout DEF DiskOK, WriterOK, WriterInv
    <2> QED
        BY <2>1, <2>2 DEF Stored, DiskOK, WriterInv
<1>7. CASE Writer!FillFile
    <2>1. /\ wpc = "fill" /\ wpc' = "stamp"
          /\ disk' = [disk EXCEPT ![cur] = IF @ = "short" THEN "unstamped" ELSE @]
          /\ tainted' \subseteq tainted \cup {cur}
          /\ tainted' \subseteq Tars \cup tainted
          /\ UNCHANGED <<origin, wcmd, target, wtodo, cur, failed, promised>>
        BY <1>7 DEF Writer!FillFile, Writer!storeVars
    <2>2. DiskOK' /\ WriterOK' /\ WriterInv'
        BY <2>1, SameLayout DEF DiskOK, WriterOK, WriterInv
    <2> QED
        BY <2>1, <2>2 DEF Stored, DiskOK, WriterInv
<1>8. CASE Writer!ReadStalls \/ Writer!WriteFails
    <2>1. /\ wpc \in {"create", "fill"} /\ wpc' \in {"stalled", "stamp"} /\ failed' \in {failed, TRUE}
          /\ UNCHANGED <<disk, tainted, origin, wcmd, target, wtodo, cur, promised>>
        BY <1>8 DEF Writer!ReadStalls, Writer!WriteFails, Writer!storeVars
    <2> QED
        BY <2>1, SameLayout DEF DiskOK, WriterOK, WriterInv, Stored
<1>9. CASE Writer!StampFile
    <2>1. /\ wpc = "stamp" /\ wpc' = "visit" /\ cur' = None
          /\ disk' = [disk EXCEPT ![cur] = IF @ = "unstamped" THEN "stored" ELSE @]
          /\ wtodo' = wtodo \ {cur}
          /\ UNCHANGED <<tainted, origin, wcmd, target, failed, promised>>
        BY <1>9 DEF Writer!StampFile
    <2>2. DiskOK' /\ WriterOK' /\ WriterInv'
        BY <2>1, SameLayout DEF DiskOK, WriterOK, WriterInv
    <2> QED
        BY <2>1, <2>2 DEF Stored, DiskOK, WriterInv
<1>10. CASE Writer!FinishStore
    <2>1. promised' \subseteq Points
        BY <1>10 DEF Writer!FinishStore, DiskOK, WriterInv
    <2> QED
        BY <1>10, <2>1, SameLayout
        DEF Writer!FinishStore, Writer!Exit, DiskOK, WriterOK, WriterInv, Stored
<1> QED
    BY <1>2, <1>3, <1>4, <1>5, <1>6, <1>7, <1>8, <1>9, <1>10 DEF Writer!StoreStep, File

-----------------------------------------------------------------------------
(* The process that scans                                                  *)

\* It leaves the other process alone, but may delete what that one writes.
LEMMA WriterUnchanged ==
    ASSUME DiskOK, WriterOK, WriterInv, UNCHANGED writerVars,
           \A f \in File : disk'[f] = "stored" => disk[f] = "stored"
    PROVE  WriterOK' /\ WriterInv'
BY SameLayout, SameFiles DEF WriterOK, WriterInv, writerVars

\* An index file that is stored is read to its end.
LEMMA StartScanKeepsInv == PairInv /\ StartScan => PairInv'
<1> SUFFICES ASSUME PairInv, StartScan PROVE PairInv'
    OBVIOUS
<1>1. PICK command \in {"prune", "fsck"} : Scanner!LoadIndexes(command)
    BY DEF StartScan, Scanner!StartPrune, Scanner!StartFsck
<1>2. /\ scmd' = command /\ spc' = "list" /\ safe' = Writer!IntactPoints
      /\ UNCHANGED <<disk, tainted, origin, promised, stodo, verdict, broken, nothing, writerVars>>
    BY <1>1 DEF StartScan, Scanner!LoadIndexes, Scanner!storeVars
<1>3. PICK part \in [{p \in Points : disk[p] = "short"} -> SUBSET Tars] :
          needs' = [p \in Points |->
                       IF disk[p] = "short" THEN Scanner!Tarfiles(p) \cap part[p]
                       ELSE IF p \in Scanner!Existing THEN Scanner!Tarfiles(p) ELSE {}]
    BY <1>1 DEF Scanner!LoadIndexes
<1>4. history' = Points \cap Scanner!Existing
    BY <1>1 DEF Scanner!LoadIndexes
<1>5. needs' \in [Points -> SUBSET Tars]
    BY <1>3, SameFiles
<1>6. ASSUME NEW p \in Writer!IntactPoints
      PROVE  p \in history' /\ needs'[p] = Writer!Tarfiles(p)
    <2>1. p \in Points /\ disk[p] = "stored" /\ p \in Scanner!Existing
        BY SameFiles, IntactMeansStored DEF Stored, Scanner!Existing
    <2> QED
        BY <1>3, <1>4, <2>1, SameFiles
<1>7. WriterOK' /\ WriterInv' /\ DiskOK'
    BY <1>2, WriterUnchanged, SameLayout DEF PairInv, DiskOK
<1>8. ScannerOK'
    BY <1>2, <1>4, <1>5, SameLayout, IntactMeansStored DEF PairInv, ScannerOK
<1>9. ScannerInv'
    BY <1>2, <1>6, SameLayout DEF ScannerInv
<1>10. RestorableSurvives'
    BY <1>2 DEF RestorableSurvives, Writer!IntactPoints, Writer!Intact, Writer!FilesOf, Writer!Tarfiles
<1> QED
    BY <1>7, <1>8, <1>9, <1>10 DEF PairInv

\* What was read of a safe point is required, and it is there.
LEMMA SafeIsRequired ==
    ASSUME PairInv, NEW p \in safe
    PROVE  /\ p \in Points /\ p \in history /\ Writer!FilesOf(p) \subseteq Scanner!Existing
           /\ Scanner!Required({p}) = Writer!FilesOf(p)
           /\ \A points : p \in points => Writer!FilesOf(p) \subseteq Scanner!Required(points)
<1>1. p \in Points /\ p \in history /\ needs[p] = Writer!Tarfiles(p)
    BY DEF PairInv, ScannerOK, ScannerInv
<1>2. Writer!FilesOf(p) = {p} \cup needs[p]
    BY <1>1, SameFiles
<1>3. \A f \in Writer!FilesOf(p) : Stored(f)
    BY IntactMeansStored DEF PairInv, RestorableSurvives
<1>4. Writer!FilesOf(p) \subseteq Scanner!Existing
    BY <1>1, <1>3, SameFiles DEF Stored, Scanner!Existing
<1> QED
    BY <1>1, <1>2, <1>4 DEF Scanner!Required

\* Its steps but the last.
LEMMA ScannerStepKeepsInv == PairInv /\ ScannerStep => PairInv'
<1> SUFFICES ASSUME PairInv, ScannerStep PROVE PairInv'
    OBVIOUS
<1>1. /\ Scanner!ScanStep /\ scmd' # "idle" /\ UNCHANGED writerVars
      /\ safe' = IF scmd = "prune" THEN safe \ (history' \ verdict') ELSE safe
    BY DEF ScannerStep
<1>2. DiskOK /\ WriterOK /\ WriterInv /\ ScannerOK /\ ScannerInv
    BY DEF PairInv
<1>3. Scanner!Existing \subseteq File
    BY SameFiles DEF Scanner!Existing
<1>4. ASSUME UNCHANGED <<disk, tainted>>, DiskOK', safe' \subseteq safe
      PROVE  DiskOK' /\ WriterOK' /\ WriterInv' /\ RestorableSurvives'
    <2>1. Writer!IntactPoints' = Writer!IntactPoints
        BY <1>4 DEF Writer!IntactPoints, Writer!Intact, Writer!FilesOf, Writer!Tarfiles
    <2> QED
        BY <1>1, <1>2, <1>4, <2>1, WriterUnchanged DEF PairInv, RestorableSurvives
<1>5. CASE Scanner!DecidePrune
    <2>1. PICK kept \in Scanner!MayKeep(history) :
              /\ verdict' = kept
              /\ stodo' = Scanner!Existing \ Scanner!Required(kept)
              /\ promised' = promised \ (history \ kept)
        BY <1>5 DEF Scanner!DecidePrune
    <2>2. /\ scmd = "prune" /\ scmd' = "prune" /\ spc' = "delete" /\ kept \subseteq Points
          /\ UNCHANGED <<disk, tainted, origin, history, needs, broken, nothing>>
        BY <1>2, <1>5 DEF Scanner!DecidePrune, Scanner!storeVars, Scanner!MayKeep, ScannerOK
    <2>3. safe' = safe \ (history \ kept)
        BY <1>1, <2>1, <2>2
    <2>4. \A p \in safe' : p \in kept /\ stodo' \cap Writer!FilesOf(p) = {}
        BY <2>1, <2>3, SafeIsRequired
    <2>5. DiskOK'
        BY <1>2, <2>1, <2>2, SameLayout DEF DiskOK
    <2>6. ScannerOK'
        BY <1>2, <1>3, <2>1, <2>2, <2>3, SameLayout DEF ScannerOK
    <2>7. ScannerInv'
        BY <1>2, <2>1, <2>2, <2>3, <2>4, SameLayout DEF ScannerInv
    <2> QED
        BY <1>4, <2>2, <2>3, <2>5, <2>6, <2>7 DEF PairInv
<1>6. CASE Scanner!DecideFsck
    <2>1. /\ scmd = "fsck" /\ scmd' = "fsck" /\ spc' = "delete" /\ safe' = safe
          /\ broken' = Scanner!BrokenPoints /\ verdict' = history \ Scanner!BrokenPoints
          /\ stodo' \in {{}, Scanner!Existing \ Scanner!Required(history)}
          /\ UNCHANGED <<disk, tainted, origin, promised, history, needs, nothing>>
        BY <1>1, <1>6 DEF Scanner!DecideFsck, Scanner!storeVars
    <2>2. Scanner!BrokenPoints \subseteq history
        BY DEF Scanner!BrokenPoints
    <2>3. safe \subseteq verdict'
        BY <2>1, SafeIsRequired DEF Scanner!BrokenPoints
    <2>4. \A p \in safe : stodo' \cap Writer!FilesOf(p) = {}
        BY <2>1, SafeIsRequired
    <2>5. DiskOK'
        BY <1>2, <2>1, SameLayout DEF DiskOK
    <2>6. ScannerOK'
        BY <1>2, <1>3, <2>1, <2>2, SameLayout DEF ScannerOK
    <2>7. ScannerInv'
        BY <1>2, <2>1, <2>3, <2>4, SameLayout DEF ScannerInv
    <2> QED
        BY <1>4, <2>1, <2>5, <2>6, <2>7 DEF PairInv
<1>7. ASSUME NEW f \in File, Scanner!DeleteFile(f) PROVE PairInv'
    <2>1. /\ spc \in {"delete", "deleteBroken"} /\ f \in stodo
          /\ disk' = [disk EXCEPT ![f] = "absent"] /\ tainted' = tainted \ {f}
          /\ stodo' = stodo \ {f}
          /\ UNCHANGED <<origin, promised, scmd, spc, history, needs, verdict, broken, nothing>>
        BY <1>7 DEF Scanner!DeleteFile, Scanner!scanVars, Scanner!storeVars
    <2>2. safe' \subseteq safe /\ safe' \subseteq verdict' /\ (scmd = "idle" => safe' = {})
        BY <1>1, <1>2, <2>1 DEF ScannerInv
    <2>3. DiskOK'
        BY <1>2, <2>1, SameLayout DEF DiskOK, Writer!FileState
    <2>4. WriterOK' /\ WriterInv'
        BY <1>1, <1>2, <2>1, WriterUnchanged DEF DiskOK
    <2>5. ScannerOK' /\ ScannerInv'
        BY <1>2, <2>1, <2>2, SameLayout DEF ScannerOK, ScannerInv
    <2>6. ASSUME NEW p \in safe' PROVE p \in Writer!IntactPoints'
        <3>1. p \in safe /\ p \in Points /\ f \notin Writer!FilesOf(p)
            BY <1>2, <2>1, <2>2, <2>6 DEF ScannerOK, ScannerInv
        <3>2. \A g \in Writer!FilesOf(p) : Stored(g) /\ g \in File /\ g # f
            BY <3>1, SameFiles, IntactMeansStored DEF PairInv, RestorableSurvives
        <3>3. \A g \in Writer!FilesOf(p) : Stored(g)'
            BY <1>2, <2>1, <3>2 DEF Stored, DiskOK
        <3> QED
            BY <3>1, <3>3
            DEF Writer!IntactPoints, Writer!Intact, Stored, Writer!FilesOf, Writer!Tarfiles
    <2> QED
        BY <2>3, <2>4, <2>5, <2>6 DEF PairInv, RestorableSurvives
<1>8. CASE Scanner!DeleteBroken
    <2>1. /\ scmd = "fsck" /\ spc = "delete" /\ spc' = "deleteBroken" /\ stodo' = broken
          /\ safe' = safe
          /\ UNCHANGED <<disk, tainted, origin, promised, scmd, history, needs, verdict, broken, nothing>>
        BY <1>1, <1>8 DEF Scanner!DeleteBroken, Scanner!scanVars, Scanner!storeVars
    <2>2. \A p \in safe : broken \cap Writer!FilesOf(p) = {}
        BY <1>2, <2>1, SameFiles, TarsAssumption DEF ScannerOK, ScannerInv
    <2>3. DiskOK'
        BY <1>2, <2>1, SameLayout DEF DiskOK
    <2>4. ScannerOK' /\ ScannerInv'
        BY <1>2, <2>1, <2>2, SameLayout, SameFiles DEF ScannerOK, ScannerInv
    <2> QED
        BY <1>4, <2>1, <2>3, <2>4 DEF PairInv
<1> QED
    BY <1>1, <1>5, <1>6, <1>7, <1>8, SameFiles
    DEF Scanner!ScanStep, Scanner!DeclinePrune, Scanner!FinishPrune, Scanner!FinishFsck, Scanner!Exit

\* Its last step, or its death, leaves the files as they are.
LEMMA EndScanKeepsInv == PairInv /\ EndScan => PairInv'
<1> SUFFICES ASSUME PairInv, EndScan PROVE PairInv'
    OBVIOUS
<1>1. /\ Scanner!Exit /\ UNCHANGED <<disk, tainted, origin, promised>>
      /\ safe' = {} /\ UNCHANGED writerVars
    <2>1. \A f : ~(Scanner!DeleteFile(f) /\ scmd' = "idle")
        BY DEF Scanner!DeleteFile, EndScan, PairInv, ScannerInv
    <2>2. scmd' = "idle" => ~(Scanner!DecidePrune \/ Scanner!DecideFsck \/ Scanner!DeleteBroken)
        BY DEF Scanner!DecidePrune, Scanner!DecideFsck, Scanner!DeleteBroken
    <2> QED
        BY <2>1, <2>2
        DEF EndScan, Scanner!ScanStep, Scanner!Crash, Scanner!DeclinePrune, Scanner!FinishPrune,
            Scanner!FinishFsck
<1>2. DiskOK' /\ WriterOK' /\ WriterInv'
    BY <1>1, WriterUnchanged, SameLayout DEF PairInv, DiskOK
<1>3. ScannerOK' /\ ScannerInv' /\ RestorableSurvives'
    BY <1>1 DEF Scanner!Exit, Scanner!NothingLoaded, ScannerOK, ScannerInv, RestorableSurvives
<1> QED
    BY <1>2, <1>3 DEF PairInv

-----------------------------------------------------------------------------
(* The invariant                                                           *)

LEMMA PairInvStep == PairInv /\ [PairNext]_pairVars => PairInv'
<1> SUFFICES ASSUME PairInv, [PairNext]_pairVars PROVE PairInv'
    OBVIOUS
<1>1. CASE WriterStep
    <2>1. /\ DiskOK' /\ WriterOK' /\ WriterInv'
          /\ Writer!IntactPoints \subseteq Writer!IntactPoints'
        BY <1>1, WriterStepSpares, IntactKept DEF WriterStep, PairInv
    <2>2. ScannerOK' /\ ScannerInv' /\ safe' = safe
        BY <1>1, ScannerUnchanged DEF WriterStep, PairInv
    <2> QED
        BY <2>1, <2>2 DEF PairInv, RestorableSurvives
<1>2. CASE OriginChanges \/ UNCHANGED pairVars
    <2>1. /\ UNCHANGED <<disk, tainted, promised, writerVars, scannerVars, safe>>
          /\ origin' \in Points \cup {origin}
        BY <1>2 DEF OriginChanges, Writer!OriginChanges, Writer!storeVars, pairVars, writerVars
    <2>2. Writer!IntactPoints' = Writer!IntactPoints
        BY <2>1 DEF Writer!IntactPoints, Writer!Intact, Writer!FilesOf, Writer!Tarfiles
    <2>3. DiskOK' /\ WriterOK' /\ WriterInv'
        BY <2>1, WriterUnchanged, SameLayout DEF PairInv, DiskOK
    <2> QED
        BY <2>1, <2>2, <2>3, ScannerUnchanged DEF PairInv, RestorableSurvives
<1> QED
    BY <1>1, <1>2, StartScanKeepsInv, ScannerStepKeepsInv, EndScanKeepsInv DEF PairNext

LEMMA PairInvInit == PairInit => PairInv
<1> SUFFICES ASSUME PairInit PROVE PairInv
    OBVIOUS
<1> USE DEF PairInit, Writer!Init, Scanner!Init
<1>1. DiskOK /\ WriterOK
    BY DEF DiskOK, WriterOK, File, Writer!FileState, Writer!File
<1>2. ScannerOK /\ ScannerInv /\ WriterInv /\ RestorableSurvives
    BY DEF ScannerOK, ScannerInv, WriterInv, RestorableSurvives, Scanner!NothingLoaded
<1> QED
    BY <1>1, <1>2 DEF PairInv

\* The types of both processes over the same files.
THEOREM PairTypeCorrect == PairSpec => []PairTypeOK
<1>1. PairInv => PairTypeOK
    BY SameFiles
    DEF PairInv, DiskOK, WriterOK, ScannerOK, PairTypeOK, Writer!TypeOK, Scanner!TypeOK, File,
        Writer!FileState, Scanner!FileState, Writer!File, Scanner!File
<1> QED
    BY <1>1, PairInvInit, PairInvStep, PTL DEF PairSpec

\* A prune or fsck and a store that run at the same time, without a lock, lose
\* no backup that could be restored when the prune or fsck began and that it does
\* not discard, however their steps interleave and wherever one is killed.
THEOREM NoLockNeeded == PairSpec => []RestorableSurvives
<1>1. PairInv => RestorableSurvives
    BY DEF PairInv
<1> QED
    BY <1>1, PairInvInit, PairInvStep, PTL DEF PairSpec

=============================================================================
