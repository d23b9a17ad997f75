--------------------------- MODULE MCCameraImport ---------------------------
(***************************************************************************)
(* Three photos.  The first and the third are videos of the same name,     *)
(* taken within an hour, as when the phone counts anew; the metadata of    *)
(* the first tell another day than its file.  The second is of a type that *)
(* is not known.                                                           *)
(***************************************************************************)
EXTENDS CameraImport, TLC

CONSTANTS p1, p2, p3

MCName == (p2 :> "other") @@ [p \in {p1, p2, p3} |-> "one"]
MCSizeAlike == (p2 :> 7) @@ [p \in {p1, p2, p3} |-> 5]
MCSize == (p1 :> 5) @@ (p2 :> 7) @@ (p3 :> 6)
MCSuffix == (p2 :> "heic") @@ [p \in {p1, p2, p3} |-> "mp4"]
MCHour == (p3 :> 12) @@ [p \in {p1, p2, p3} |-> 11]
MCTells == (p1 :> 3) @@ [p \in {p1, p2, p3} |-> None]
MCPathTells == ("other" :> 2) @@ ("one" :> None)
MCMeta == (p1 :> "hash") @@ [p \in {p1, p2, p3} |-> None]
=============================================================================
