---------------------------- MODULE MCPruneKeep ----------------------------
(***************************************************************************)
(* Two ticks a second and a day of two seconds: a day is 4 ticks, a week   *)
(* 28.  1970-01-01 was a thursday, the first monday is tick 16, and        *)
(* february begins with tick 124.  The instants are two of a day, of a     *)
(* week and of a month, either side of the borders.                        *)
(***************************************************************************)
EXTENDS PruneKeep

MCTimes == {13, 15, 16, 43, 44, 123, 124, 130, 190}

MCKeepRules ==
    {[all |-> 1, daily |-> 4, weekly |-> 16, monthly |-> 60],
     [all |-> 0, daily |-> 1, weekly |-> 0,  monthly |-> 59]}

=============================================================================
