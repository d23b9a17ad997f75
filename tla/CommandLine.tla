---------------------------- MODULE CommandLine ----------------------------
(***************************************************************************)
(* A command from its first word to its handler, again and again.  Every   *)
(* command is a process of its own: it loads the configuration file, reads *)
(* its words from left to right, options first, looks up what the one or   *)
(* two arguments name, among the rules, the storages of the rules, remote  *)
(* locations and directories, and calls the handler; or it refuses the     *)
(* line, or an assertion fails.  beak config goes on in the menus of       *)
(* Configuration.  A storage that no rule has is held in one global.       *)
(***************************************************************************)
EXTENDS Configuration

CONSTANTS
    Paths,       \* what an argument may name: directories, remote locations, other words
    Remotes,     \* remote location -> its type
    FirstFs,     \* path -> what is there to begin with
    Points,      \* the points in time that may be asked for
    Tried,       \* bound: the commands that are given
    OptionWords, \* bound: the options that are given
    MaxWords,    \* bound: the words of a line
    MaxLines     \* bound: the lines

ASSUME PathsAssumption ==
    /\ Locations \subseteq Paths /\ Names \subseteq Paths /\ DOMAIN Remotes \subseteq Paths
    /\ Locals \subseteq Paths /\ Real \in [Paths -> Paths] /\ None \notin Paths

\* A link that is a storage leads to something.
ASSUME LinksAssumption ==
    \A at \in Locations : Real[at] # at => FirstFs[Real[at]] # "missing"

VARIABLES
    stage,    \* at the shell, reading words, in the handler, or aborted
    line,     \* what has been read
    a_storage,\* the storage made on the fly
    fs,       \* path -> what is there
    lines

lineVars == <<stage, line, a_storage, fs, lines>>
allVars == <<vars, lineVars>>

-----------------------------------------------------------------------------
(* The tables                                                              *)

ExpectedFrom ==
    [bmount |-> "Origin", camera |-> "Storage", config |-> "None", delta |-> "Storage",
     diff |-> "ORS", fsck |-> "Storage", genautocomplete |-> "FileOrNone",
     genmounttrigger |-> "File", help |-> "NC", monitor |-> "None", mount |-> "StorageOrRule",
     prune |-> "Storage", pull |-> "Rule", push |-> "Rule", pushd |-> "Rule",
     restore |-> "Storage", shell |-> "StorageOrRule", stat |-> "ORS", import |-> "FileOrDir",
     index |-> "Origin", serve |-> "Origin", status |-> "RuleOrNone", stash |-> "None",
     store |-> "Origin", stored |-> "Origin", umount |-> "Dir", version |-> "None"]

Commands == DOMAIN ExpectedFrom

\* The commands that take a second argument.
TwoArguments ==
    [bmount |-> "Dir", camera |-> "Dir", delta |-> "Storage", diff |-> "ORS", mount |-> "Dir",
     restore |-> "Origin", import |-> "Storage", store |-> "Storage", stored |-> "Storage"]

ExpectedTo == [c \in Commands |-> IF c \in DOMAIN TwoArguments THEN TwoArguments[c] ELSE "None"]

GlobalOptions == {"log", "listlog", "progress", "trace", "quite", "useconfig", "verbose", "writeonly"}

ValueOptions ==
    {"cache", "contentsplit", "delta", "depth", "include", "keep", "log", "pointintimeformat",
     "progress", "tarheader", "now", "padding", "targetsize", "triggersize", "trace", "splitsize",
     "triggerglob", "useconfig", "exclude"}

\* The number is how many of the listed options the command takes.
StoreOptions ==
    [count |-> 14,
     options |-> <<"background", "contentsplit", "delta", "depth", "splitsize", "targetsize",
                   "triggersize", "triggerglob", "exclude", "include", "padding", "progress",
                   "relaxtimechecks", "tarheader", "yesorigin">>]

CommandOptions ==
    [bmount |-> [count |-> 16,
        options |-> <<"contentsplit", "depth", "foreground", "fusedebug", "splitsize", "tarheader",
                      "targetsize", "triggersize", "triggerglob", "exclude", "include", "progress",
                      "padding", "relaxtimechecks", "tarheader", "yesorigin">>],
     diff |-> [count |-> 1, options |-> <<"depth">>],
     stat |-> [count |-> 1, options |-> <<"depth">>],
     fsck |-> [count |-> 1, options |-> <<"deepcheck">>],
     import |-> [count |-> 2, options |-> <<"include", "exclude">>],
     store |-> StoreOptions,
     stored |-> StoreOptions,
     mount |-> [count |-> 3, options |-> <<"progress", "foreground", "fusedebug">>],
     prune |-> [count |-> 4, options |-> <<"keep", "now", "dryrun", "yesprune">>],
     pull |-> [count |-> 2, options |-> <<"background", "progress">>],
     push |-> [count |-> 2, options |-> <<"background", "delta", "progress">>],
     pushd |-> [count |-> 2, options |-> <<"background", "delta", "progress">>],
     restore |-> [count |-> 4,
        options |-> <<"background", "progress", "yesrestore", "forceoverwritefiles">>],
     stash |-> [count |-> 1, options |-> <<"diff", "list">>]]

\* An option that wants a value is a word.
ASSUME OptionsAssumption == None \notin ValueOptions

hasCommandOption(c, o) ==
    c \in DOMAIN CommandOptions
      /\ \E i \in 1..CommandOptions[c].count : CommandOptions[c].options[i] = o

-----------------------------------------------------------------------------
(* What an argument names                                                  *)

\* An argument refers to a storage of a rule, to the one made on the fly, to a
\* path, a rule or a command.
Argument(type, what, point) == [type |-> type, what |-> what, point |-> point]
Unspecified == Argument("Unspecified", None, None)

OnTheFly == <<None, None>>
NoStorage == [type |-> "NoSuch", at |-> None]

realpath(p) == IF fs[Real[p]] = "missing" THEN None ELSE Real[p]
Behind(p) == IF realpath(p) = None THEN p ELSE realpath(p)

\* The configuration as it was loaded.
loaded == load(file).rules

findRuleFromStorageLocation(p) == UsedBy(loaded, Behind(p))

\* Mutant: any directory is a storage.
IsAnyDirectory(p, cmd) == fs[p] \in {"empty", "index", "files"}

isFileSystemStorage(p, cmd) ==
    fs[p] \in {"empty", "index"} \/ (cmd = "import" /\ fs[p] = "files")

Found(storage) == [found |-> TRUE, what |-> OnTheFly, a |-> storage]
NotFound == [found |-> FALSE, what |-> None, a |-> a_storage]

\* rclone tells which remotes there are, if it answers.  A storage of a rule is
\* found by its real path, and then looked up by the given one.
findStorageFrom(p, cmd, answers) ==
    LET owners == findRuleFromStorageLocation(p)
        owner == CHOOSE k \in owners : TRUE
    IN  IF owners # {}
        THEN IF p \in DOMAIN loaded[owner].storages
             THEN [found |-> TRUE, what |-> <<owner, p>>, a |-> a_storage]
             ELSE NotFound
        ELSE IF p \in DOMAIN Remotes /\ (Remotes[p] = "rclone" => answers)
             THEN Found([type |-> Remotes[p], at |-> p])
             ELSE IF isFileSystemStorage(Behind(p), cmd)
                  THEN Found([type |-> "directory", at |-> Behind(p)])
                  ELSE NotFound

\* What the word names: the argument, with the storage made on the fly and the
\* directory made for it; or it is refused.
Names_(arg, a, made) == [ok |-> TRUE, arg |-> arg, a |-> a, made |-> made]
Wrong == [ok |-> FALSE, arg |-> Unspecified, a |-> a_storage, made |-> {}]
Plainly(type, what) == Names_(Argument(type, what, None), a_storage, {})

createStorageFrom(p) == [type |-> "directory", at |-> Behind(p)]

AsStorage(p, point, cmd, answers) ==
    LET s == findStorageFrom(p, cmd, answers)
        create == ~s.found /\ cmd \in {"store", "import"} /\ fs[Behind(p)] = "missing"
    IN  IF s.found THEN Names_(Argument("Storage", s.what, point), s.a, {})
        ELSE IF create
             THEN Names_(Argument("Storage", OnTheFly, point), createStorageFrom(p), {Behind(p)})
             ELSE Wrong

AsRule(p, point) ==
    IF p \in DOMAIN loaded THEN Names_(Argument("Rule", p, point), a_storage, {}) ELSE Wrong

AsOrigin(p, point, yesorigin) ==
    IF realpath(p) = None \/ (fs[realpath(p)] = "index" /\ ~yesorigin) THEN Wrong
    ELSE Names_(Argument("Origin", realpath(p), point), a_storage, {})

TakesPoint == {"Storage", "StorageOrRule", "ORS"}

\* What can be expected of an argument, in the order in which it is tried.
parseArgument(p, point, expected, yesorigin, cmd, answers) ==
    LET storage == AsStorage(p, point, cmd, answers)
        rule == AsRule(p, point)
    IN  IF point # None /\ expected \notin TakesPoint THEN Wrong
        ELSE IF expected \in {"FileOrDir", "Dir", "File", "FileOrNone"}
        THEN IF realpath(p) = None THEN Wrong
             ELSE Plainly(IF expected = "Dir" \/ (expected = "FileOrDir" /\ fs[realpath(p)] # "file")
                          THEN "Dir" ELSE "File", realpath(p))
        ELSE IF expected \in {"ORS", "Storage", "StorageOrRule"} /\ storage.ok THEN storage
        ELSE IF expected \in {"ORS", "StorageOrRule", "Rule", "RuleOrNone"} /\ rule.ok THEN rule
        ELSE IF expected \in {"Origin", "ORS"} THEN AsOrigin(p, point, yesorigin)
        ELSE IF expected = "NC" /\ p \in Commands THEN Plainly("Command", p)
        ELSE Wrong

-----------------------------------------------------------------------------
(* Reading a line                                                          *)

NoLine ==
    [cmd |-> None, words |-> 0, wants |-> None, done |-> FALSE, from |-> Unspecified,
     to |-> Unspecified, opts |-> {}, written |-> {}, eaten |-> {}]

\* The program prints an error and exits.
Refuse == stage' = "shell" /\ line' = NoLine /\ UNCHANGED <<vars, a_storage, fs, lines>>
Abort == stage' = "aborted" /\ UNCHANGED <<vars, line, a_storage, fs, lines>>
Goes(l) == line' = l /\ UNCHANGED <<vars, stage, a_storage, fs, lines>>

StartCommand ==
    /\ stage = "shell" /\ pc = "off" /\ lines < MaxLines
    /\ load(file).ok
    /\ \E c \in Tried \cap Commands :
         /\ c # "config" => edits = 0
         /\ line' = [NoLine EXCEPT !.cmd = c]
    /\ stage' = "parse" /\ a_storage' = NoStorage /\ lines' = lines + 1
    /\ UNCHANGED <<vars, fs>>

Reads == stage = "parse" /\ line.words < MaxWords
NextWord == [line EXCEPT !.words = @ + 1]

\* A lone dash is the option forceoverwritefiles, the last one without a short
\* name.
Option(o) == IF o = "-" THEN "forceoverwritefiles" ELSE o

\* A depth must be the root's at least where something is stored.
IsWrong(value, o, cmd) ==
    \/ o \in {"padding", "pointintimeformat", "progress", "tarheader", "targetsize", "triggersize",
             "splitsize"} /\ value # "fine"
    \/ o = "depth" /\ cmd \in {"store", "bmount"} /\ value # "fine"
    \/ o = "depth" /\ cmd = "diff" /\ value = "odd"

\* Nothing reads what these set.
NeverRead == {"background", "cache", "deepcheck", "list", "monitor", "pointintimeformat"}

\* The configuration file is looked for before the line is read, and found only if
\* its name is in the same word.
Obeyed(o, inline) ==
    IF o \in NeverRead \/ (o = "useconfig" /\ ~inline) THEN {} ELSE {o}

Set(l, o, inline) == [l EXCEPT !.opts = @ \cup Obeyed(o, inline), !.wants = None]

ReadOption ==
    /\ Reads /\ ~line.done /\ line.wants = None
    /\ \E word \in OptionWords, inline \in BOOLEAN :
         LET o == Option(word)
             l == [NextWord EXCEPT !.written = @ \cup {o}]
             allowed == o \in GlobalOptions \/ hasCommandOption(line.cmd, o)
         IN  IF \/ o = "nosuch" \/ ~allowed \/ o = "listlog"
                \/ inline /\ (o \notin ValueOptions \/ IsWrong("fine", o, line.cmd))
             THEN Refuse
             ELSE Goes(IF o \in ValueOptions /\ ~inline THEN [l EXCEPT !.wants = o] ELSE Set(l, o, inline))

\* The next word is the value, whatever it is.
ReadValue ==
    /\ Reads /\ line.wants # None
    /\ \E value \in {"fine", "odd"} \cup OptionWords :
         IF IsWrong(value, line.wants, line.cmd) THEN Refuse
         ELSE Goes([Set(NextWord, line.wants, FALSE) EXCEPT
                       !.written = @ \cup ({Option(value)} \cap (GlobalOptions \cup OptionWords)),
                       !.eaten = @ \cup {Option(value)}])

EndOptions ==
    /\ Reads /\ line.wants = None
    /\ Goes([NextWord EXCEPT !.done = TRUE])

\* Mutant: an argument nobody expects is passed over.
PassOver(l) == Goes(l)

NotExpected(l) == Abort

\* No file, rule, storage or remote location has this name.
NamesNothing(p) ==
    /\ fs[p] = "missing" /\ realpath(p) = None
    /\ p \notin DOMAIN loaded /\ p \notin DOMAIN Remotes /\ findRuleFromStorageLocation(p) = {}

\* After the first argument an option is an argument, too.  It is meant as an
\* option if there is nothing of that name.
TakeArgument(p, point, answers) ==
    LET first == line.from.type = "Unspecified"
        expected == IF first THEN ExpectedFrom[line.cmd] ELSE ExpectedTo[line.cmd]
        read == parseArgument(p, point, expected, "yesorigin" \in line.opts, line.cmd, answers)
        l == [NextWord EXCEPT !.done = TRUE,
                 !.written = @ \cup {Option(o) : o \in {q \in {p} \cap OptionWords : NamesNothing(q)}}]
    IN  IF ~first /\ line.to.type # "Unspecified" THEN Refuse
        ELSE IF expected = "None" THEN NotExpected(l)
        ELSE IF ~read.ok THEN Refuse
        ELSE /\ line' = IF first THEN [l EXCEPT !.from = read.arg]
                        ELSE [l EXCEPT !.to = read.arg]
             /\ a_storage' = read.a
             /\ fs' = [q \in Paths |-> IF q \in read.made THEN "empty" ELSE fs[q]]
             /\ UNCHANGED <<vars, stage, lines>>

ReadArgument ==
    /\ Reads /\ line.wants = None
    /\ \E p \in Paths, point \in Points \cup {None}, answers \in BOOLEAN :
         /\ p \in OptionWords => line.done /\ point = None
         /\ TakeArgument(p, point, answers)

Misses(l) ==
    /\ ExpectedFrom[l.cmd] \notin {"None", "FileOrNone", "RuleOrNone", "NC"}
    /\ \/ l.from.type = "Unspecified"
       \/ ExpectedTo[l.cmd] # "None" /\ l.to.type = "Unspecified"

\* An option that still wants its value gets an empty one.
EndOfLine ==
    /\ stage = "parse"
    /\ LET l == IF line.wants = None THEN line ELSE Set(line, line.wants, FALSE)
       IN  IF \/ line.wants # None /\ IsWrong("", line.wants, line.cmd)
              \/ Misses(l)
           THEN Refuse
           ELSE stage' = "run" /\ line' = l /\ UNCHANGED <<vars, a_storage, fs, lines>>

-----------------------------------------------------------------------------
(* The handlers                                                            *)

\* The types the handlers assert or go by.
HandlerFrom ==
    [store |-> {"Origin", "Rule"}, stored |-> {"Origin", "Rule"}, restore |-> {"Storage"},
     prune |-> {"Storage"}, fsck |-> {"Storage"}, camera |-> {"Storage"},
     diff |-> {"Origin", "Rule", "Storage"}, stat |-> {"Origin", "Rule", "Storage"},
     push |-> {"Rule"}, pushd |-> {"Rule"}, pull |-> {"Rule"}, bmount |-> {"Origin", "Rule"},
     shell |-> {"Rule", "Storage"}, mount |-> {"Rule", "Storage"}, import |-> {"Dir", "File"},
     index |-> {"Origin"}, serve |-> {"Origin"}, umount |-> {"Dir"}, status |-> {"Rule", "None"}]

HandlerTo ==
    [store |-> {"Storage"}, stored |-> {"Storage"}, import |-> {"Storage"}, restore |-> {"Origin"},
     diff |-> {"Origin", "Rule", "Storage"}, camera |-> {"Dir"}, bmount |-> {"Dir"}, mount |-> {"Dir"}]

Accepts(l) ==
    /\ l.cmd \in DOMAIN HandlerFrom => l.from.type \in HandlerFrom[l.cmd]
    /\ l.cmd \in DOMAIN HandlerTo => l.to.type \in HandlerTo[l.cmd]

\* The point in time of a storage that a handler asks for.
PointUsed(l, arg) ==
    CASE l.cmd = "restore" -> l.to.point
      [] l.cmd \in {"diff", "stat", "mount", "shell"} -> arg.point
      [] OTHER -> None

\* The directories a handler writes in, and what may be there then.  A store
\* that is killed leaves no index file.
Directories(S) == {Real[p] : p \in S \ (DOMAIN Remotes \cup {None})}

Where(arg) ==
    IF arg.what = OnTheFly THEN {a_storage.at} \ DOMAIN Remotes
    ELSE Directories({loaded[arg.what[1]].storages[arg.what[2]].at})

LocationsOf(rule) ==
    {rule.storages[s].at : s \in DOMAIN rule.storages}
      \cup (IF rule.type = "local" THEN {rule.local.at} ELSE {})

Writes(l) ==
    CASE l.cmd \in {"store", "stored"} -> [where |-> Where(l.to), what |-> {"index", "files"}]
      [] l.cmd \in {"push", "pushd"} ->
           [where |-> Directories(LocationsOf(loaded[l.from.what])), what |-> {"index", "files"}]
      [] l.cmd \in {"prune", "fsck"} -> [where |-> Where(l.from), what |-> {"empty"}]
      [] l.cmd = "import" -> [where |-> Where(l.to), what |-> {"files"}]
      [] l.cmd \in {"restore", "camera"} -> [where |-> {l.to.what}, what |-> {"files"}]
      [] l.cmd = "index" -> [where |-> {l.from.what}, what |-> {"files"}]
      [] OTHER -> [where |-> {}, what |-> {}]

\* Nothing may come of it, and some of the storages of a rule may be away; what
\* is written beside index files leaves them there.
Run ==
    /\ stage = "run" /\ line.cmd # "config"
    /\ IF ~Accepts(line) THEN Abort
       ELSE /\ \E S \in SUBSET {p \in Writes(line).where : fs[p] # "file"},
                  what \in Writes(line).what \cup {"index"} :
                 /\ what \in Writes(line).what \/ S = {}
                 /\ fs' = [p \in Paths |->
                       IF p \in S /\ (what = "files" => fs[p] # "index") THEN what ELSE fs[p]]
            /\ stage' = "shell" /\ line' = NoLine
            /\ UNCHANGED <<vars, a_storage, lines>>

RunConfig ==
    /\ stage = "run" /\ line.cmd = "config"
    /\ Launch
    /\ stage' = "shell" /\ line' = NoLine
    /\ UNCHANGED <<a_storage, fs, lines>>

\* The process is gone.
Gone == stage = "aborted" /\ stage' = "shell" /\ line' = NoLine /\ UNCHANGED <<vars, a_storage, fs, lines>>

InMenus == Menus /\ UNCHANGED lineVars

-----------------------------------------------------------------------------

CommandInit ==
    /\ Init
    /\ stage = "shell" /\ line = NoLine /\ a_storage = NoStorage /\ fs = FirstFs /\ lines = 0

CommandNext ==
    \/ StartCommand \/ ReadOption \/ ReadValue \/ EndOptions \/ ReadArgument \/ EndOfLine
    \/ Run \/ RunConfig \/ Gone \/ InMenus

CommandSpec == CommandInit /\ [][CommandNext]_allVars

-----------------------------------------------------------------------------
(* Properties                                                              *)

\* A command that deletes or overwrites has obeyed every option on its line,
\* wherever on the line it was written, unless it was the value of the option
\* before it or names something (parseCommandLine): no dryrun is lost.  The three
\* it takes and does not obey are known: background, deepcheck, and useconfig
\* with the name in the next word.
OptionsAreHonoured ==
    stage = "run" /\ line.cmd \in {"prune", "restore", "fsck", "push"} =>
        line.written \ line.eaten \subseteq line.opts \cup {"background", "deepcheck", "useconfig"}

\* Where the storages of the rules are, behind links, those on the way to a remote
\* location, too.
Places(rs) == UNION {Directories(LocationsOf(rs[k])) : k \in DOMAIN rs}

\* Whatever is stored, imported, pushed or restored by whatever line, a directory
\* with files of the user's own, which no rule has as a storage or as its local
\* storage, does not turn into a storage (isFileSystemStorage, createStorageFrom).
FilesStayFiles ==
    [][\A p \in Paths : fs[p] = "files" /\ p \notin Places(loaded) => fs'[p] = "files"]_allVars

\* "beak restore s3_work_crypt:@2 ...": a restore takes the point in time that is
\* asked for.
RestoresPointAsked ==
    stage = "run" /\ line.cmd = "restore" => PointUsed(line, line.from) = line.from.point
=============================================================================
