------------------------- MODULE MCRestoreIndexLinks -------------------------
(***************************************************************************)
(* The tree of MCRestoreIndex with a second hard link that has moved: a/b  *)
(* has one to the file in a/g, so it is listed by the index file of a, not *)
(* by that of the root, and a/b is a directory of two index files below    *)
(* the root.                                                               *)
(***************************************************************************)
EXTENDS RestoreIndex

MCPaths == {"root", "a", "ab", "abx", "abl", "ag", "agx", "c", "ce", "cel", "cez"}
MCAbsent == {"ay", "cey"}
MCDirs == {"root", "a", "ab", "ag", "c", "ce"}
MCStorageDirs == {"root", "a", "ab", "ag", "c"}
MCLinkTarget == [l \in {"cel", "abl"} |-> IF l = "cel" THEN "abx" ELSE "agx"]

MCParent == [p \in (MCPaths \cup MCAbsent) \ {"root"} |->
               CASE p \in {"a", "c"} -> "root"
                 [] p \in {"ab", "ag", "ay"} -> "a"
                 [] p \in {"abx", "abl"} -> "ab"
                 [] p = "agx" -> "ag"
                 [] p = "ce" -> "c"
                 [] p \in {"cel", "cez", "cey"} -> "ce"]

MCAbove[p \in MCPaths \cup MCAbsent] ==
    IF p = "root" THEN {} ELSE {MCParent[p]} \cup MCAbove[MCParent[p]]

MCHome[p \in (MCPaths \cup MCAbsent) \ {"root"}] ==
    IF MCParent[p] \in MCStorageDirs THEN MCParent[p] ELSE MCHome[MCParent[p]]
=============================================================================
