-------------------------- MODULE MCRemoteStorage --------------------------
(***************************************************************************)
(* Two points in time that share a tar; the first has one of its own.  The *)
(* paths match nothing but themselves, or the one of its own lies below a  *)
(* directory with brackets in its name, or the shared one has its name,    *)
(* further down.                                                           *)
(***************************************************************************)
EXTENDS RemoteStorage

CONSTANTS both, old

MCPoints == 1..2
MCTars == {both, old}
MCPlain == {both}
MCTarsOf == [p \in MCPoints |-> IF p = 1 THEN {both, old} ELSE {both}]

Plainly == [f \in MCPoints \cup MCTars |-> {f}]
MCNoPatterns == {Plainly}
MCNamings == {Plainly, [Plainly EXCEPT ![old] = {}], [Plainly EXCEPT ![old] = {old, both}]}
=============================================================================
