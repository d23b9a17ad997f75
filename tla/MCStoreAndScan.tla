--------------------------- MODULE MCStoreAndScan ---------------------------
(***************************************************************************)
(* Two points in time that share the sub directory tar, and a root tar     *)
(* that only the first needs: what one process stores may be needed by, or *)
(* left over from, what the other one prunes.                              *)
(***************************************************************************)
EXTENDS StoreAndScan

CONSTANTS sub, rootOld

MCPoints == 1..2
MCTars == {sub, rootOld}
MCSubFiles == [p \in MCPoints |-> {sub}]
MCRootTars == [p \in MCPoints |-> IF p = 1 THEN {rootOld} ELSE {}]

=============================================================================
