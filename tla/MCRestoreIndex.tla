--------------------------- MODULE MCRestoreIndex ---------------------------
(***************************************************************************)
(* The root has the storage directories a and c, and a the storage         *)
(* directories b and g.  A hard link in c/e links to a file in a/b, so its *)
(* entry is listed by the root, and c/e by the root and by c.              *)
(***************************************************************************)
EXTENDS RestoreIndex

MCPaths == {"root", "a", "ab", "abx", "ag", "c", "ce", "cel", "cez"}
MCAbsent == {"ay", "cey"}
MCDirs == {"root", "a", "ab", "ag", "c", "ce"}
MCStorageDirs == {"root", "a", "ab", "ag", "c"}
MCLinkTarget == [l \in {"cel"} |-> "abx"]

MCParent == [p \in (MCPaths \cup MCAbsent) \ {"root"} |->
               CASE p \in {"a", "c"} -> "root"
                 [] p \in {"ab", "ag", "ay"} -> "a"
                 [] p = "abx" -> "ab"
                 [] p = "ce" -> "c"
                 [] p \in {"cel", "cez", "cey"} -> "ce"]

MCAbove[p \in MCPaths \cup MCAbsent] ==
    IF p = "root" THEN {} ELSE {MCParent[p]} \cup MCAbove[MCParent[p]]

MCHome[p \in (MCPaths \cup MCAbsent) \ {"root"}] ==
    IF MCParent[p] \in MCStorageDirs THEN MCParent[p] ELSE MCHome[MCParent[p]]
=============================================================================
