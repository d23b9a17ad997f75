----------------------------- MODULE PruneKeep -----------------------------
(***************************************************************************)
(* Which points in time beak prune keeps.  The points in the storage are   *)
(* fed to PruneImplementation from the oldest to the newest; it remembers  *)
(* the last point of every day, week and month inside the time that the    *)
(* keep rule gives to dailys, weeklys and monthlys, and keeps those.       *)
(*                                                                         *)
(* The module follows a storage over its life: backups are added, time     *)
(* passes, and it is pruned again and again.                               *)
(***************************************************************************)
EXTENDS Calendar, Integers

CONSTANTS
    Times,           \* the instants points in time are taken at, and the clock shows
    TicksPerSecond,
    KeepRules        \* the keep rules a storage may have, in seconds

ASSUME TimesAssumption == Times \subseteq Nat
ASSUME TicksPerSecondAssumption == TicksPerSecond \in Nat \ {0}
ASSUME KeepRulesAssumption ==
    KeepRules \subseteq [all : Nat, daily : Nat, weekly : Nat, monthly : Nat]

VARIABLES
    now,       \* the clock
    keep,      \* the keep rule of the storage
    stored,    \* the points in time in the storage
    ever,      \* history: every point in time ever stored
    pc,        \* "idle", or "add" while a prune calculates
    asof,      \* now_ of the prune
    rest,      \* the points it has not been given yet
    latest, all, daily_max, weekly_max, monthly_max

mapVars == <<latest, all, daily_max, weekly_max, monthly_max>>
vars == <<now, keep, stored, ever, pc, asof, rest, mapVars>>

Empty == [bucket \in {} |-> 0]

\* The types; the maps have calendar buckets for keys.
TypeOK ==
    /\ now \in Times
    /\ keep \in KeepRules
    /\ stored \subseteq ever /\ ever \subseteq Times
    /\ pc \in {"idle", "add"}
    /\ asof \in Times
    /\ rest \subseteq stored
    /\ latest \in Times \cup {0}
    /\ all \subseteq Times
    /\ \A max \in {daily_max, weekly_max, monthly_max} :
           max \in [DOMAIN max -> Times]

Init ==
    /\ now \in Times
    /\ keep \in KeepRules
    /\ stored = {} /\ ever = {}
    /\ pc = "idle"
    /\ asof = now
    /\ rest = {}
    /\ latest = 0
    /\ all = {}
    /\ daily_max = Empty /\ weekly_max = Empty /\ monthly_max = Empty

\* A backup is stored.  Its point in time is the newest mtime found in the
\* origin: not the clock, and not always later than the points already stored.
Store ==
    /\ pc = "idle"
    /\ \E p \in Times : stored' = stored \cup {p} /\ ever' = ever \cup {p}
    /\ UNCHANGED <<now, keep, pc, asof, rest, mapVars>>

Tick ==
    /\ \E t \in Times : t > now /\ now' = t
    /\ UNCHANGED <<keep, stored, ever, pc, asof, rest, mapVars>>

StartPrune ==
    /\ pc = "idle" /\ stored # {}
    /\ pc' = "add"
    /\ asof' = now
    /\ rest' = stored
    /\ UNCHANGED <<now, keep, stored, ever, mapVars>>

\* Seconds, as unsigned division rounds them.
Age(p, t) == (t - p) \div TicksPerSecond

\* Mutant: the first point of a bucket is remembered.
PutFirst(max, bucket, p) ==
    [b \in DOMAIN max \cup {bucket} |-> IF b \in DOMAIN max THEN max[b] ELSE p]

Put(max, bucket, p) ==
    [b \in DOMAIN max \cup {bucket} |-> IF b = bucket THEN p ELSE max[b]]

Oldest(p) == p \in rest /\ \A q \in rest : p <= q

addPointInTime(p) ==
    /\ latest' = p
    /\ all' = IF Age(p, asof) < keep.all THEN all \cup {p} ELSE all
    /\ daily_max' = IF Age(p, asof) < keep.daily
                    THEN Put(daily_max, to_days_since_epoch(p), p) ELSE daily_max
    /\ weekly_max' = IF Age(p, asof) < keep.weekly
                     THEN Put(weekly_max, to_weeks_since_epoch(p), p) ELSE weekly_max
    /\ monthly_max' = IF Age(p, asof) < keep.monthly
                      THEN Put(monthly_max, to_month_identifier_since_epoch(p), p)
                      ELSE monthly_max

AddPointInTime ==
    /\ pc = "add"
    /\ \E p \in rest :
        /\ Oldest(p) /\ p <= asof
        /\ rest' = rest \ {p}
        /\ addPointInTime(p)
    /\ UNCHANGED <<now, keep, stored, ever, pc, asof>>

\* The command ends, and with it its PruneImplementation.
EndPrune ==
    /\ pc' = "idle"
    /\ rest' = {}
    /\ latest' = 0
    /\ all' = {}
    /\ daily_max' = Empty /\ weekly_max' = Empty /\ monthly_max' = Empty

\* A point in the future: the prune is refused.
Refuse ==
    /\ pc = "add"
    /\ \E p \in rest : Oldest(p) /\ p > asof
    /\ EndPrune
    /\ UNCHANGED <<now, keep, stored, ever, asof>>

Values(max) == {max[b] : b \in DOMAIN max}

\* Mutant: a point that was latest once is not kept for that.
KeepsByBucket == all \cup Values(daily_max) \cup Values(weekly_max) \cup Values(monthly_max)

\* prune(): the points in time to keep.
Keeps == {latest} \cup all \cup Values(daily_max) \cup Values(weekly_max)
                  \cup Values(monthly_max)

\* All points are added.  What is not kept is discarded, if the user agrees.
Prune ==
    /\ pc = "add" /\ rest = {}
    /\ stored' \in {stored, stored \cap Keeps}
    /\ EndPrune
    /\ UNCHANGED <<now, keep, ever, asof>>

Next == Store \/ Tick \/ StartPrune \/ AddPointInTime \/ Refuse \/ Prune

Spec == Init /\ [][Next]_vars

-----------------------------------------------------------------------------
(* What the keep rule means (README, "Removing old backups")               *)

\* p is young enough for a level of the rule, and the last of its bucket.
LastOf(p, S, Bucket(_)) == \A q \in S : Bucket(q) = Bucket(p) => q <= p

Kept(S, rule, t) ==
    {p \in S :
        \/ \A q \in S : q <= p
        \/ Age(p, t) < rule.all
        \/ Age(p, t) < rule.daily /\ LastOf(p, S, to_days_since_epoch)
        \/ Age(p, t) < rule.weekly /\ LastOf(p, S, to_weeks_since_epoch)
        \/ Age(p, t) < rule.monthly /\ LastOf(p, S, to_month_identifier_since_epoch)}

\* When all points are added, the maps hold what the keep rule means.
KeepsByRule == pc = "add" /\ rest = {} => Keeps = Kept(stored, keep, asof)

\* However often a storage was pruned, and whatever was stored in between, it
\* holds every backup that a first prune of all the backups ever made would
\* keep now: pruning early or often loses nothing.
NothingForgotten == Kept(ever, keep, now) \subseteq stored

=============================================================================
