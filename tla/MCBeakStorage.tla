--------------------------- MODULE MCBeakStorage ---------------------------
(***************************************************************************)
(* Three points in time.  A sub directory tar is shared by the first two   *)
(* and gone from the third, a root tar is shared by the last two, and the  *)
(* first has a root tar of its own: every neighbouring pair of backups has *)
(* something in common and something apart.                                *)
(***************************************************************************)
EXTENDS BeakStorage

CONSTANTS subOld, rootOld, rootNew

MCPoints == 1..3
MCTars == {subOld, rootOld, rootNew}
MCSubFiles == [p \in MCPoints |-> IF p <= 2 THEN {subOld} ELSE {}]
MCRootTars == [p \in MCPoints |-> IF p <= 1 THEN {rootOld} ELSE {rootNew}]

=============================================================================
