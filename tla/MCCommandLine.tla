--------------------------- MODULE MCCommandLine ---------------------------
(***************************************************************************)
(* Two lines of up to three words.  The words are two rules, of which one  *)
(* is there at first, two storage locations, of which it has one, a link   *)
(* to the other, a directory of the user, a remote that rclone knows, and  *)
(* options.                                                                *)
(***************************************************************************)
EXTENDS CommandLine, TLC

CONSTANTS a, b, l1, l2, dir, link, s3, std_dir, std, own, zero

MCFiles ==
    {<<Line("rule", a), Line("origin", None), Line("type", "local"),
       Line("local", std_dir), Line("local_keep", own), Line("remote", l1), Line("remote_keep", std)>>}

MCOptions == {"dryrun", "yesorigin", "trace", "depth", "-", "nosuch", "useconfig"}
MCPaths == {a, b, l1, l2, dir, link, s3, std_dir} \cup MCOptions
MCReal == (link :> l2) @@ [p \in MCPaths |-> p]
MCRemotes == s3 :> "rclone"
MCFirstFs ==
    (l1 :> "index") @@ (l2 :> "empty") @@ (link :> "link") @@ (dir :> "files")
    @@ [p \in MCPaths |-> "missing"]
=============================================================================
