------------------------------- MODULE Startup -------------------------------
(* How ruzord and ruzor come to their settings, and how ruzord becomes a        *)
(* server: the command line, the section of the configuration file, the checks, *)
(* the paths, the daemon with its pid file (src/src/bin/ruzord.rs, parse_args   *)
(* and run; the first half of src/src/bin/ruzor.rs).                            *)
EXTENDS Configuration

CONSTANTS
    CommandLines, \* [program, args]
    ConfigFiles,  \* what the configuration file may hold
    Homes,        \* paths of a home directory
    HOME          \* the environment's

(***************************************************************************)
(* Options.  A setting is named by its long option, as is its key in the    *)
(* file; "proxysources" is a second key of --proxy-source.                  *)
(***************************************************************************)
Flags == {"--help", "--version", "--debug"}
Unfiled == {"--nice", "--homedir", "--detach", "--gevent"}
Booleans == {"--threads", "--processes"}
Whole == {"--nice", "--port", "--max-threads", "--max-processes", "--pre-fork", "--cleanup-age",
          "--db-connections", "--timeout", "--report-threshold", "--whitelist-threshold"}
ServerPaths == {"--password-file", "--access-file", "--pid-file", "--log-file", "--usage-log-file"}
ClientPaths == {"--servers-file", "--accounts-file", "--local-whitelist", "--log-file"}
Settings(program) ==
    IF program = "ruzord"
    THEN Unfiled \cup Booleans \cup ServerPaths
           \cup {"--address", "--database-engine", "--dsn", "--forward-client-homedir",
                 "--proxy-source"}
           \cup (Whole \ {"--timeout", "--report-threshold", "--whitelist-threshold"})
    ELSE ClientPaths \cup {"--nice", "--homedir", "--style", "--timeout", "--report-threshold",
                           "--whitelist-threshold"}
SettingOf(key) == IF key = "proxysources" THEN "--proxy-source" ELSE key

\* Values: a text is also the relative path of that name.
Text(w) == [form |-> "", names |-> <<w>>]
Integer(n) == [form |-> "number", n |-> n]
Flag(b) == [form |-> "flag", set |-> b]
List(parts) == [form |-> "list", names |-> parts]   \* what the commas separate
Unset == [form |-> "empty", names |-> << >>]

DefaultOf(setting, home) ==
    CASE setting \in Booleans -> Flag(FALSE)
      [] setting \in Whole -> Integer(0)   \* stands for the number in the code
      [] setting = "--database-engine" -> Text("gdbm")
      [] setting = "--proxy-source" -> List(<< >>)
      [] setting = "--homedir" -> home
      [] setting \in {"--log-file", "--usage-log-file", "--forward-client-homedir", "--detach"} -> Unset
      [] OTHER -> Text(setting)

\* A value as the program takes it, or none when it does not parse.
Parsed(setting, value) ==
    CASE setting \in Booleans -> {Flag(value = Text("true"))}
      [] setting \in Whole -> IF value.form = "number" THEN {value} ELSE {}
      [] setting = "--proxy-source" -> {List(ParseProxySources(value.names))}
      [] OTHER -> {value}

\* Only the path of no names is empty.
IsValue(v) == v.form = "empty" => v = Unset
IsArgument(arg) == IsValue(arg.value) /\ (arg.inline # << >> => IsValue(arg.inline[1]))

ASSUME StartAssumption ==
    /\ \A line \in CommandLines :
         /\ line.program \in {"ruzord", "ruzor"} /\ IsSequence(line.args)
         /\ \A i \in DOMAIN line.args : IsArgument(line.args[i])
    /\ \A file \in ConfigFiles :
         /\ IsSequence(Lines(file))
         /\ \A i \in DOMAIN Lines(file) :
              Len(Lines(file)[i]) = 3 => IsValue(Lines(file)[i][3])
    /\ \A path \in Homes : IsValue(path)

VARIABLES
    program, home,
    args,      \* the arguments not yet read
    config,    \* [setting -> value]
    given,     \* ServerOverrides: the settings of the command line
    seen,      \* the flags and commands of the command line
    section,   \* the keys of the file
    pending,   \* those not yet applied; a HashMap has no order
    phase, exit,
    cwd,       \* the working directory
    pidFile,   \* it exists, and is this server's
    asked      \* history: the settings when the command line had been read

startVars == <<program, home, args, config, given, seen, section, pending, phase, exit, cwd,
               pidFile, asked>>

StartInit ==
    /\ \E line \in CommandLines : program = line.program /\ args = line.args
    /\ home \in Homes
    /\ \E file \in ConfigFiles :
         section = ReadIniSection(file, IF program = "ruzord" THEN "server" ELSE "client")
    /\ config = [s \in Settings(program) |-> DefaultOf(s, home)]
    /\ given = {} /\ seen = {} /\ pending = {}
    /\ phase = "parsing" /\ exit = -1
    /\ cwd = <<"work">> /\ pidFile = FALSE
    /\ asked = config

(***************************************************************************)
(* The command line: an argument is [kind, options, inline, value]         *)
(*   "long"   --word or --word=value, options those it is a beginning of   *)
(*   "short"  a letter, options the one it stands for                      *)
(*   "--" or a "word"                                                      *)
(***************************************************************************)
\* resolve_long_option: exact, or the only one with this beginning.
Resolved(arg) ==
    {option \in arg.options \cap (Settings(program) \cup Flags) :
       arg.exact \/ Cardinality(arg.options \cap (Settings(program) \cup Flags)) = 1}

Exits(code) == phase' = "ended" /\ exit' = code
Leaves(code) == /\ Exits(code)
                /\ UNCHANGED <<program, home, args, config, given, seen, section, pending, cwd,
                               pidFile, asked>>

\* option_value: the value behind the sign, or whatever argument comes next.
Values(arg) ==
    IF arg.inline # << >> THEN arg.inline
    ELSE IF Len(args) > 1 THEN <<args[2].value>> ELSE << >>
Behind(arg) == IF arg.inline # << >> \/ Len(args) < 2 THEN Tail(args) ELSE Tail(Tail(args))

SetFlag(arg, option) ==
    IF arg.inline # << >> THEN Leaves(2)
    ELSE /\ seen' = seen \cup {option} /\ args' = Tail(args)
         /\ UNCHANGED <<program, home, config, given, section, pending, phase, exit, cwd, pidFile,
                        asked>>

SetOption(arg, option) ==
    IF Values(arg) = << >> \/ Parsed(option, Values(arg)[1]) = {} THEN Leaves(2)
    ELSE /\ config' = [config EXCEPT ![option] = CHOOSE v \in Parsed(option, Values(arg)[1]) : TRUE]
         /\ given' = given \cup {option} /\ args' = Behind(arg)
         /\ UNCHANGED <<program, home, seen, section, pending, phase, exit, cwd, pidFile, asked>>

\* A word is a command of ruzor; ruzord answers one with its help.
Command == IF program = "ruzord" THEN {"--help"} ELSE {"command"}

ParseArgument ==
    /\ phase = "parsing" /\ args # << >>
    /\ LET arg == Head(args)
       IN IF arg.kind \in {"--", "word"}
          THEN /\ args' = IF arg.kind = "--" THEN << >> ELSE Tail(args)
               /\ seen' = seen \cup (IF arg.kind = "--" /\ Len(args) = 1 THEN {} ELSE Command)
               /\ UNCHANGED <<program, home, config, given, section, pending, phase, exit, cwd,
                              pidFile, asked>>
          ELSE IF Resolved(arg) = {} THEN Leaves(2)
          ELSE \E option \in Resolved(arg) :
                 IF option \in Flags THEN SetFlag(arg, option) ELSE SetOption(arg, option)

\* Help and the version end the program, and ruzor without a command; then
\* nice and create_dir_all may fail.
ParsingEnds ==
    /\ phase = "parsing" /\ args = << >>
    /\ \/ /\ seen \cap {"--help", "--version"} # {} \/ (program = "ruzor" /\ "command" \notin seen)
          /\ Leaves(0)
       \/ /\ seen \cap {"--help", "--version"} = {} /\ (program = "ruzor" => "command" \in seen)
          /\ \/ Leaves(1)
             \/ /\ phase' = "file" /\ pending' = DOMAIN section /\ asked' = config
                /\ UNCHANGED <<program, home, args, config, given, seen, section, exit, cwd, pidFile>>

(***************************************************************************)
(* The configuration file                                                  *)
(***************************************************************************)
\* Mutant: the second key of a setting does not ask for the override.
OverriddenByKey(key) == key \in given
\* The command line has already said it.
Overridden(key) == SettingOf(key) \in given

\* A number that does not parse changes nothing, except that a cleanup age
\* that does not parse is none.
FromFile(key, current) ==
    LET parsed == Parsed(SettingOf(key), section[key])
    IN IF parsed # {} THEN CHOOSE v \in parsed : TRUE
       ELSE IF key = "--cleanup-age" THEN Unset ELSE current

ApplyKey(key) ==
    /\ phase = "file" /\ key \in pending
    /\ pending' = pending \ {key}
    /\ config' = IF SettingOf(key) \notin Settings(program) \ Unfiled \/ Overridden(key) THEN config
                 ELSE [config EXCEPT ![SettingOf(key)] = FromFile(key, @)]
    /\ UNCHANGED <<program, home, args, given, seen, section, phase, exit, cwd, pidFile, asked>>

(***************************************************************************)
(* Checks and paths                                                        *)
(***************************************************************************)
Engine == config["--database-engine"]
PreFork == config["--pre-fork"].n
Accepted ==
    /\ Engine \in {Text(e) : e \in {"gdbm", "redis", "redis_v0", "mysql"}}
    /\ ~(config["--threads"].set /\ config["--processes"].set)
    /\ PreFork # 1
    /\ PreFork > 0 => Engine # Text("gdbm")     \* supports_prefork

PathSettings ==
    IF program = "ruzor" THEN ClientPaths
    ELSE ServerPaths \cup (IF Engine = Text("gdbm") THEN {"--dsn"} ELSE {})
\* Paths of ruzord that are opened as they were given.
RawPaths == {"--forward-client-homedir", "--detach"}

\* expand_config_paths; then the log files are opened, which may fail.
Check ==
    /\ phase = "file" /\ pending = {}
    /\ IF program = "ruzord" /\ ~Accepted THEN Leaves(1)
       ELSE \/ Leaves(1)
            \/ /\ config' = [s \in DOMAIN config |->
                    IF s \in PathSettings THEN ExpandHomefile(config["--homedir"], config[s], HOME)
                    ELSE config[s]]
               /\ phase' = IF program = "ruzor" THEN "client"
                           ELSE IF config["--detach"] = Unset THEN "serving" ELSE "detaching"
               /\ UNCHANGED <<program, home, args, given, seen, section, pending, exit, cwd,
                              pidFile, asked>>

(***************************************************************************)
(* The daemon                                                              *)
(***************************************************************************)
\* fork, setsid, chdir and the output file may fail, and then dup2.
Detach ==
    /\ phase = "detaching"
    /\ \/ Leaves(1)
       \/ /\ phase' = "detached" /\ cwd' = << >> /\ pidFile' = TRUE
          /\ UNCHANGED <<program, home, args, config, given, seen, section, pending, exit, asked>>
Redirect ==
    /\ phase = "detached"
    /\ \/ Leaves(1)
       \/ /\ phase' = "serving"
          /\ UNCHANGED <<program, home, args, config, given, seen, section, pending, exit, cwd,
                         pidFile, asked>>

Mode ==
    IF PreFork > 0 THEN "prefork"
    ELSE IF config["--processes"].set /\ Engine = Text("mysql") THEN "processes"
    ELSE IF config["--threads"].set THEN "threads" ELSE "inline"

\* Mutant: only the normal mode removes the pid file.
RemovedInline == pidFile /\ Mode \in {"prefork", "processes"}
\* Every mode removes the file it has written before its error is passed on.
PidFileLeft == pidFile /\ config["--detach"] = Unset

\* The database is opened by the server itself, except in pre-fork mode.
DsnAccepted ==
    CASE Mode = "prefork" \/ Engine = Text("gdbm") -> TRUE
      [] Engine = Text("mysql") -> MySqlDsn(config["--dsn"].names) # {}
      [] OTHER -> RedisDsn(config["--dsn"].names) # {}

\* The server of the mode ends, with or without an error.
Serve ==
    /\ phase = "serving"
    /\ pidFile' = PidFileLeft
    /\ \E code \in IF DsnAccepted THEN {0, 1} ELSE {1} : Exits(code)
    /\ UNCHANGED <<program, home, args, config, given, seen, section, pending, cwd, asked>>

StartNext ==
    \/ ParseArgument \/ ParsingEnds
    \/ \E key \in pending : ApplyKey(key)
    \/ Check \/ Detach \/ Redirect \/ Serve

StartSpec == StartInit /\ [][StartNext]_startVars

(***************************************************************************)
(* Properties                                                              *)
(***************************************************************************)
FileRead == phase \in {"serving", "client", "detaching", "detached"}
KeysOf(setting) == {key \in DOMAIN section : SettingOf(key) = setting}

Expanded(s, value) ==
    IF s \in PathSettings THEN ExpandHomefile(config["--homedir"], value, HOME) ELSE value

\* In whatever order the keys of the file are applied, a setting of the command
\* line keeps its value, another takes one that the file gives it, and the rest
\* keep their defaults (the overrides of parse_args and apply_config_file).
CommandLineWins ==
    FileRead => \A s \in DOMAIN config :
        IF s \in given \cup Unfiled \/ KeysOf(s) = {} THEN config[s] = Expanded(s, asked[s])
        ELSE \E key \in KeysOf(s) : config[s] = Expanded(s, FromFile(key, asked[s]))

\* A detached server has its pid file for as long as it serves, and leaves none
\* behind unless it fails between writing it and serving (daemonize, run).
PidFileFollowsServer ==
    /\ phase = "serving" /\ config["--detach"] # Unset => pidFile
    /\ phase = "ended" /\ pidFile => exit = 1 /\ cwd = << >>

Located(path, dir) == IF path.form = "/" THEN path.names ELSE dir \o path.names

\* A daemon works in /.  With an absolute home directory the files of the settings
\* that expand_config_paths resolves are still those meant in the directory it was
\* started in, in every mode and whatever the command line and the file say; what
\* moves is a relative home of the forwarder's client and a relative output file,
\* which nothing resolves, and both only in a daemon (expand_config_paths, daemonize).
OnlyRawPathsMove ==
    phase = "serving" /\ config["--homedir"].form = "/" =>
        \A s \in PathSettings \cup RawPaths :
            \/ config[s] = Unset
            \/ Located(config[s], cwd) = Located(config[s], <<"work">>)
            \/ s \in RawPaths /\ config["--detach"] # Unset /\ config[s].form # "/"

\* All of it: the settings, the pid file and the paths.
ServesAsConfigured == CommandLineWins /\ PidFileFollowsServer /\ OnlyRawPathsMove
=============================================================================
