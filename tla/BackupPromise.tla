---------------------------- MODULE BackupPromise ----------------------------
(***************************************************************************)
(* What a beak storage location promises its user, with no files in it.    *)
(*                                                                         *)
(* A backup is a point in time.  `intact' are the points in time that can  *)
(* be restored completely; `condemned' are the points in time the user has *)
(* agreed to discard (beak prune).  Storing may only add backups, and only *)
(* condemned backups may ever be lost.                                     *)
(*                                                                         *)
(* BeakStorage implements this specification file by file.                 *)
(***************************************************************************)
EXTENDS Naturals

CONSTANT Points

VARIABLES intact, condemned

promiseVars == <<intact, condemned>>

PromiseInit ==
    /\ intact = {}
    /\ condemned = {}

\* A store makes progress: every backup survives, some may become complete.
\* (A crashed backup can be completed by a later one that shares its tars.)
Gain ==
    /\ condemned = {}
    /\ intact \subseteq intact'
    /\ intact' \subseteq Points
    /\ UNCHANGED condemned

\* The user agrees to discard some points in time.
Condemn ==
    /\ condemned = {}
    /\ condemned' \subseteq Points
    /\ UNCHANGED intact

\* Discarding: only condemned points in time may be lost.
Discard ==
    /\ intact' \subseteq intact
    /\ intact \ condemned \subseteq intact'
    /\ UNCHANGED condemned

\* The prune command ends, or is killed.
Release ==
    /\ condemned' = {}
    /\ UNCHANGED intact

PromiseNext == Gain \/ Condemn \/ Discard \/ Release

PromiseSpec == PromiseInit /\ [][PromiseNext]_promiseVars

=============================================================================
