-------------------------- MODULE ConversionsProofs --------------------------
(* Proofs about what is read and written: the settings of the two programs are *)
(* those asked for, the last line of a file counts, the dates of the records   *)
(* are the days and the seconds they were made from, what an engine stores of  *)
(* a record is read as that record, a packet is read as the message that was   *)
(* sent, and a signature is accepted for that message, in time and by its key. *)
EXTENDS Startup, Codecs, Conversions, SequenceFacts

(***************************************************************************)
(* The section of the file                                                 *)
(***************************************************************************)
LEMMA GreatestOf ==
  ASSUME NEW n \in Nat, NEW S \in SUBSET (1..n), S # {}
  PROVE  Max(S) \in S /\ \A i \in S : Max(S) >= i
<1> DEFINE T == {m \in Nat : \A i \in S : i <= m}
<1>1. n \in T
  OBVIOUS
<1>2. PICK m \in T : \A k \in T : m <= k
  <2>1. T \in SUBSET Nat /\ T # {}
    BY <1>1
  <2> HIDE DEF T
  <2> QED BY <2>1, Least
<1>3. m \in S
  <2> SUFFICES ASSUME m \notin S PROVE FALSE
    OBVIOUS
  <2>1. \A i \in S : i \in Nat /\ i >= 1 /\ i <= m - 1
    BY <1>2
  <2>2. m - 1 \in Nat
    <3>1. m \in Nat /\ \E i \in S : i \in Nat /\ i >= 1 /\ i <= m - 1
      BY <2>1, <1>2
    <3> QED BY <3>1
  <2>3. m - 1 \in T
    BY <2>1, <2>2
  <2> QED BY <2>3, <1>2
<1>4. \A i \in S : m >= i
  BY <1>2
<1> QED BY <1>3, <1>4 DEF Max

LEMMA SectionValues ==
  ASSUME NEW file \in ConfigFiles, NEW name, NEW k \in DOMAIN ReadIniSection(file, name)
  PROVE  IsValue(ReadIniSection(file, name)[k])
<1> DEFINE lines == Lines(file)
           current(i) == LET heads == {j \in 1..i : Len(lines[j]) = 2}
                         IN IF heads = {} THEN "" ELSE Lower(lines[Max(heads)][2])
           mine == {i \in DOMAIN lines : Len(lines[i]) = 3 /\ current(i) = name}
           key(i) == Lower(lines[i][2])
           ofKey == {i \in mine : key(i) = k}
<1>1. DOMAIN lines = 1..Len(lines) /\ Len(lines) \in Nat
  BY StartAssumption DEF IsSequence
<1>2. ReadIniSection(file, name) = [l \in {key(i) : i \in mine} |-> lines[Max({i \in mine : key(i) = l})][3]]
  BY Zenon DEF ReadIniSection
<1>3. \E i \in mine : k = key(i)
  <2> HIDE DEF mine, key
  <2> QED BY <1>2
<1>4. ReadIniSection(file, name)[k] = lines[Max(ofKey)][3]
  <2> HIDE DEF mine, key
  <2> QED BY <1>2, <1>3
<1>5. mine \subseteq 1..Len(lines) /\ \A i \in mine : Len(lines[i]) = 3
  <2> HIDE DEF current
  <2> QED BY <1>1
<1>6. Max(ofKey) \in mine
  <2>1. ofKey # {} /\ ofKey \in SUBSET (1..Len(lines)) /\ ofKey \subseteq mine
    <3> HIDE DEF mine, key
    <3> QED BY <1>3, <1>5
  <2> HIDE DEF ofKey
  <2> QED BY <2>1, <1>1, GreatestOf
<1>7. Max(ofKey) \in DOMAIN lines /\ Len(lines[Max(ofKey)]) = 3
  <2> HIDE DEF mine, ofKey
  <2> QED BY <1>1, <1>5, <1>6
<1> HIDE DEF ofKey
<1>8. IsValue(lines[Max(ofKey)][3])
  BY <1>7, StartAssumption
<1> QED BY <1>4, <1>8

(***************************************************************************)
(* What a setting is read as                                               *)
(***************************************************************************)
LEMMA ParsedValue ==
  ASSUME NEW setting, NEW value, IsValue(value), Parsed(setting, value) # {}
  PROVE  IsValue(CHOOSE v \in Parsed(setting, value) : TRUE)
<1>1. \A v \in Parsed(setting, value) : IsValue(v)
  BY DEF Parsed, IsValue, Flag, List
<1> QED BY <1>1

LEMMA FromFileValue ==
  ASSUME NEW key \in DOMAIN section, IsValue(section[key]), NEW current, IsValue(current)
  PROVE  IsValue(FromFile(key, current))
BY ParsedValue, Zenon DEF FromFile, IsValue

\* A key gives a setting a value of its own or leaves the one it has.
LEMMA FromFileKinds ==
  ASSUME NEW key, NEW a, NEW b
  PROVE  \/ FromFile(key, a) = FromFile(key, b)
         \/ FromFile(key, a) = a /\ FromFile(key, b) = b
BY DEF FromFile

(***************************************************************************)
(* The invariant                                                           *)
(***************************************************************************)
Filed(s) == s \notin given \cup Unfiled

StartTypes ==
    /\ program \in {"ruzord", "ruzor"}
    /\ DOMAIN config = Settings(program) /\ DOMAIN asked = Settings(program)
    /\ \A key \in DOMAIN section : IsValue(section[key])
    /\ pending \subseteq DOMAIN section

\* While arguments are read; what is left of them is still a command line.
ParsingInv ==
    phase = "parsing" =>
        /\ IsSequence(args) /\ \A i \in DOMAIN args : IsArgument(args[i])
        /\ \A s \in DOMAIN config : IsValue(config[s])

\* While keys are applied, in any order: a setting has the value it had or that
\* of one of its keys, and has one of the file once none of its keys is pending.
FileInv ==
    phase = "file" =>
        /\ \A s \in DOMAIN config : IsValue(config[s])
        /\ \A s \in DOMAIN config :
             \/ config[s] = asked[s] /\ (Filed(s) => KeysOf(s) \subseteq pending)
             \/ Filed(s) /\ \E key \in KeysOf(s) : config[s] = FromFile(key, asked[s])

PidInv ==
    /\ phase \in {"parsing", "file", "detaching", "client"} => ~pidFile
    /\ pidFile \in BOOLEAN /\ (phase = "detached" => pidFile)
    /\ phase \in {"detaching", "detached"} => config["--detach"] # Unset
    /\ phase = "serving" => (pidFile <=> config["--detach"] # Unset)
    /\ pidFile => cwd = << >>
    /\ phase \in {"parsing", "file", "client", "detaching"} => cwd = <<"work">>
    /\ phase = "serving" /\ config["--detach"] = Unset => cwd = <<"work">>
    /\ phase = "ended" /\ pidFile => exit = 1

PathsInv ==
    phase \in {"detaching", "detached", "serving"} /\ config["--homedir"].form = "/" =>
        \A s \in PathSettings : config[s] = Unset \/ config[s].form = "/"

StartInv == StartTypes /\ ParsingInv /\ FileInv /\ CommandLineWins /\ PidInv /\ PathsInv

LEMMA InitInv == StartInit => StartInv
<1> SUFFICES ASSUME StartInit PROVE StartInv
  OBVIOUS
<1>1. program \in {"ruzord", "ruzor"} /\ IsSequence(args) /\ \A i \in DOMAIN args : IsArgument(args[i])
  BY StartAssumption DEF StartInit, IsArgument
<1>2. \A key \in DOMAIN section : IsValue(section[key])
  BY SectionValues DEF StartInit
<1>3. \A s \in DOMAIN config : IsValue(config[s])
  <2>1. IsValue(home)
    BY StartAssumption DEF StartInit
  <2>2. \A s : \/ DefaultOf(s, home) = home \/ DefaultOf(s, home) = Unset
               \/ DefaultOf(s, home).form \in {"", "number", "flag", "list"}
    BY DEF DefaultOf, Flag, Integer, Text, List
  <2>3. \A s : IsValue(DefaultOf(s, home))
    BY <2>1, <2>2 DEF IsValue
  <2> QED BY <2>3 DEF StartInit
<1> QED BY <1>1, <1>2, <1>3 DEF StartInit, StartInv, StartTypes, ParsingInv, FileInv,
                                CommandLineWins, FileRead, PidInv, PathsInv

LEMMA LeavesInv == ASSUME NEW code, StartInv, Leaves(code), pidFile => code = 1 PROVE StartInv'
BY DEF Leaves, Exits, StartInv, StartTypes, ParsingInv, FileInv, CommandLineWins, FileRead, PidInv, PathsInv

\* The rest of a command line is one.
LEMMA RestOfArguments ==
  ASSUME IsSequence(args), args # << >>, \A i \in DOMAIN args : IsArgument(args[i])
  PROVE  /\ IsSequence(Tail(args)) /\ \A i \in DOMAIN Tail(args) : IsArgument(Tail(args)[i])
         /\ Len(args) > 1 => /\ IsSequence(Tail(Tail(args)))
                             /\ \A i \in DOMAIN Tail(Tail(args)) : IsArgument(Tail(Tail(args))[i])
<1>1. ASSUME NEW s, IsSequence(s), s # << >>
      PROVE  /\ IsSequence(Tail(s)) /\ Len(Tail(s)) = Len(s) - 1 /\ Len(s) \in Nat
             /\ \A i \in DOMAIN Tail(s) : i + 1 \in DOMAIN s /\ Tail(s)[i] = s[i + 1]
  <2> DEFINE S == {s[i] : i \in DOMAIN s}  t == Tail(s)
  <2>1. s \in Seq(S)
    BY <1>1 DEF IsSequence
  <2> HIDE DEF S
  <2>2. t \in Seq(S) /\ Len(t) = Len(s) - 1 /\ Len(s) \in Nat /\ \A i \in 1..Len(t) : t[i] = s[i + 1]
    BY <2>1, <1>1
  <2>3. DOMAIN s = 1..Len(s) /\ DOMAIN t = 1..Len(t)
    BY <2>1, <2>2
  <2> HIDE DEF t
  <2>4. t \in Seq({t[i] : i \in DOMAIN t})
    BY <2>2
  <2> QED BY <2>2, <2>3, <2>4, SMTT(40) DEF IsSequence, t
<1> DEFINE t == Tail(args)
<1>2. /\ IsSequence(t) /\ Len(t) = Len(args) - 1 /\ Len(args) \in Nat
      /\ \A i \in DOMAIN t : IsArgument(t[i])
  BY <1>1
<1> HIDE DEF t
<1>3. Len(args) > 1 => t # << >>
  BY <1>2
<1>4. Len(args) > 1 => IsSequence(Tail(t)) /\ \A i \in DOMAIN Tail(t) : IsArgument(Tail(t)[i])
  BY <1>1, <1>2, <1>3
<1> QED BY <1>2, <1>4 DEF t

LEMMA ParseInv == StartInv /\ ParseArgument => StartInv'
<1> SUFFICES ASSUME StartInv, ParseArgument PROVE StartInv'
  OBVIOUS
<1> DEFINE arg == Head(args)
<1>1. phase = "parsing" /\ args # << >> /\ ~pidFile
  BY DEF ParseArgument, StartInv, PidInv
<1>2. IsSequence(args) /\ \A i \in DOMAIN args : IsArgument(args[i])
  BY <1>1 DEF StartInv, ParsingInv
<1>3. IsArgument(arg) /\ (Len(args) > 1 => IsArgument(args[2])) /\ Len(args) \in Nat
  <2>1. args \in Seq({args[i] : i \in DOMAIN args})
    BY <1>2 DEF IsSequence
  <2>2. Len(args) \in Nat /\ Len(args) > 0 /\ DOMAIN args = 1..Len(args) /\ arg = args[1]
    BY <1>1, <2>1
  <2> QED BY <1>2, <2>2
<1>4. CASE UNCHANGED <<program, config, given, section, pending, phase, exit, cwd, pidFile, asked>>
           /\ args' \in {<< >>, Tail(args)}
  <2>1. IsSequence(<< >>)
    BY DEF IsSequence
  <2>2. IsSequence(Tail(args)) /\ \A i \in DOMAIN Tail(args) : IsArgument(Tail(args)[i])
    BY <1>1, <1>2, RestOfArguments
  <2>3. CASE args' = << >>
    BY <1>1, <1>4, <2>1, <2>3 DEF StartInv, StartTypes, ParsingInv, FileInv, CommandLineWins,
                                  FileRead, PidInv, PathsInv
  <2>4. CASE args' = Tail(args)
    BY <1>1, <1>4, <2>2, <2>4 DEF StartInv, StartTypes, ParsingInv, FileInv, CommandLineWins,
                                  FileRead, PidInv, PathsInv
  <2> QED BY <1>4, <2>3, <2>4
<1>5. CASE Leaves(2)
  BY <1>1, <1>5, LeavesInv
<1>6. ASSUME NEW option \in Resolved(arg) \ Flags, SetOption(arg, option), ~Leaves(2) PROVE StartInv'
  <2> DEFINE value == Values(arg)[1]
             new == CHOOSE v \in Parsed(option, value) : TRUE
  <2>1. /\ Values(arg) # << >> /\ Parsed(option, value) # {}
        /\ config' = [config EXCEPT ![option] = new] /\ args' = Behind(arg)
        /\ UNCHANGED <<program, section, pending, phase, exit, cwd, pidFile, asked>>
    BY <1>6 DEF SetOption
  <2>2. IsValue(value)
    BY <1>3, <2>1 DEF Values, IsArgument
  <2>3. IsValue(new)
    BY <2>1, <2>2, ParsedValue
  <2> HIDE DEF new
  <2>4. DOMAIN config' = DOMAIN config /\ \A s \in DOMAIN config : config'[s] \in {config[s], new}
    BY <2>1
  <2>5. IsSequence(args') /\ \A i \in DOMAIN args' : IsArgument(args'[i])
    BY <1>1, <1>2, <1>3, <2>1, RestOfArguments DEF Behind
  <2>6. StartTypes' /\ ParsingInv'
    BY <2>1, <2>3, <2>4, <2>5 DEF StartInv, StartTypes, ParsingInv
  <2> QED BY <1>1, <2>1, <2>6 DEF StartInv, FileInv, CommandLineWins, FileRead, PidInv, PathsInv
<1>7. \/ UNCHANGED <<program, config, given, section, pending, phase, exit, cwd, pidFile, asked>>
         /\ args' \in {<< >>, Tail(args)}
      \/ Leaves(2)
      \/ \E option \in Resolved(arg) \ Flags : SetOption(arg, option)
  BY DEF ParseArgument, SetFlag
<1> QED BY <1>4, <1>5, <1>6, <1>7

LEMMA ParsingEndsInv == StartInv /\ ParsingEnds => StartInv'
<1> SUFFICES ASSUME StartInv, ParsingEnds PROVE StartInv'
  OBVIOUS
<1>1. phase = "parsing" /\ ~pidFile
  BY DEF ParsingEnds, StartInv, PidInv
<1>2. CASE Leaves(0) \/ Leaves(1)
  BY <1>1, <1>2, LeavesInv
<1>3. CASE /\ phase' = "file" /\ pending' = DOMAIN section /\ asked' = config
           /\ UNCHANGED <<program, home, args, config, given, seen, section, exit, cwd, pidFile>>
  BY <1>1, <1>3 DEF StartInv, StartTypes, ParsingInv, FileInv, CommandLineWins, FileRead, PidInv,
                    PathsInv, KeysOf
<1> QED BY <1>2, <1>3 DEF ParsingEnds

LEMMA ApplyKeyInv == ASSUME NEW key, StartInv, ApplyKey(key) PROVE StartInv'
<1> DEFINE t == SettingOf(key)
<1>1. /\ phase = "file" /\ phase' = "file" /\ key \in pending /\ pending' = pending \ {key}
      /\ UNCHANGED <<program, args, given, section, cwd, pidFile, asked, exit>>
  BY DEF ApplyKey
<1>2. key \in DOMAIN section /\ IsValue(section[key])
  BY <1>1 DEF StartInv, StartTypes
<1>3. \A s \in DOMAIN config : IsValue(config[s])
  BY <1>1 DEF StartInv, FileInv
<1>4. key \in KeysOf(t) /\ \A s : KeysOf(s)' = KeysOf(s) /\ (key \in KeysOf(s) => s = t)
  BY <1>1, <1>2 DEF KeysOf
<1>5. \A s : Filed(s)' <=> Filed(s)
  BY <1>1 DEF Filed
<1>6. \A k, c : FromFile(k, c)' = FromFile(k, c)
  BY <1>1 DEF FromFile
<1>7. DOMAIN config' = DOMAIN config /\ \A s \in DOMAIN config : s # t => config'[s] = config[s]
  BY DEF ApplyKey
<1>8. CASE t \notin DOMAIN config \/ ~Filed(t)
  <2>1. config' = config
    BY <1>8 DEF ApplyKey, Overridden, Filed, StartInv, StartTypes
  <2>2. \A s \in DOMAIN config :
          \/ config[s] = asked[s] /\ (Filed(s) => KeysOf(s) \subseteq pending \ {key})
          \/ Filed(s) /\ \E k \in KeysOf(s) : config[s] = FromFile(k, asked[s])
    BY <1>1, <1>4, <1>8 DEF StartInv, FileInv
  <2>3. FileInv'
    BY <1>1, <1>3, <1>4, <1>5, <1>6, <2>1, <2>2 DEF FileInv
  <2> QED BY <1>1, <2>1, <2>3 DEF StartInv, StartTypes, ParsingInv, CommandLineWins, FileRead, PidInv,
                                PathsInv
<1>9. CASE t \in DOMAIN config /\ Filed(t)
  <2>1. config' = [config EXCEPT ![t] = FromFile(key, config[t])]
    BY <1>9 DEF ApplyKey, Overridden, Filed, StartInv, StartTypes
  <2>2. config'[t] = FromFile(key, config[t])
    BY <1>9, <2>1
  <2>3. IsValue(config'[t])
    BY <1>2, <1>3, <1>9, <2>2, FromFileValue
  <2>4. \E k \in KeysOf(t) : config'[t] = FromFile(k, asked[t])
    <3>1. config[t] = asked[t] \/ \E k \in KeysOf(t) : config[t] = FromFile(k, asked[t])
      BY <1>1, <1>9 DEF StartInv, FileInv
    <3>2. CASE config[t] = asked[t]
      BY <1>4, <2>2, <3>2
    <3>3. CASE \E k \in KeysOf(t) : config[t] = FromFile(k, asked[t])
      BY <1>4, <2>2, <3>3, FromFileKinds
    <3> QED BY <3>1, <3>2, <3>3
  <2>5. \A s \in DOMAIN config \ {t} :
          \/ config[s] = asked[s] /\ (Filed(s) => KeysOf(s) \subseteq pending \ {key})
          \/ Filed(s) /\ \E k \in KeysOf(s) : config[s] = FromFile(k, asked[s])
    BY <1>1, <1>4 DEF StartInv, FileInv
  <2>6. FileInv'
    BY <1>1, <1>3, <1>4, <1>5, <1>6, <1>7, <1>9, <2>3, <2>4, <2>5 DEF FileInv
  <2> QED BY <1>1, <1>7, <2>6 DEF StartInv, StartTypes, ParsingInv, CommandLineWins, FileRead, PidInv,
                                PathsInv
<1> QED BY <1>8, <1>9

LEMMA CheckInv == StartInv /\ Check => StartInv'
<1> SUFFICES ASSUME StartInv, Check PROVE StartInv'
  OBVIOUS
<1>1. phase = "file" /\ pending = {} /\ ~pidFile
  BY DEF Check, StartInv, PidInv
<1>2. CASE Leaves(1)
  BY <1>2, LeavesInv
<1>3. CASE ~Leaves(1)
  <2>1. /\ config' = [s \in DOMAIN config |->
              IF s \in PathSettings THEN ExpandHomefile(config["--homedir"], config[s], HOME)
              ELSE config[s]]
        /\ phase' = IF program = "ruzor" THEN "client"
                    ELSE IF config["--detach"] = Unset THEN "serving" ELSE "detaching"
        /\ UNCHANGED <<program, home, args, given, seen, section, pending, exit, cwd, pidFile, asked>>
    BY <1>3 DEF Check
  <2>2. DOMAIN config = Settings(program) /\ program \in {"ruzord", "ruzor"}
    BY DEF StartInv, StartTypes
  <2>3. /\ config'["--homedir"] = config["--homedir"]
        /\ program = "ruzord" => /\ config'["--database-engine"] = config["--database-engine"]
                                 /\ config'["--detach"] = config["--detach"]
    BY <2>1, <2>2 DEF Settings, Unfiled, PathSettings, ClientPaths, ServerPaths
  <2>4. PathSettings' = PathSettings
    BY <2>1, <2>2, <2>3 DEF PathSettings, Engine
  <2>5. \A s \in DOMAIN config : config'[s] = Expanded(s, config[s])
    BY <2>1 DEF Expanded
  <2>6. \A s \in DOMAIN config :
          \/ config[s] = asked[s] /\ (Filed(s) => KeysOf(s) = {})
          \/ Filed(s) /\ \E k \in KeysOf(s) : config[s] = FromFile(k, asked[s])
    BY <1>1 DEF StartInv, FileInv
  <2>7. CommandLineWins'
    <3>1. /\ given' = given /\ asked' = asked /\ DOMAIN config' = DOMAIN config
          /\ \A s : KeysOf(s)' = KeysOf(s)
          /\ \A k, c : FromFile(k, c)' = FromFile(k, c) /\ Expanded(k, c)' = Expanded(k, c)
      BY <2>1, <2>3, <2>4 DEF KeysOf, FromFile, Expanded
    <3> QED BY <2>5, <2>6, <3>1 DEF CommandLineWins, Filed
  <2>8. PathsInv'
    <3> SUFFICES ASSUME program = "ruzord", config["--homedir"].form = "/", NEW s \in PathSettings
                 PROVE  config'[s] = Unset \/ config'[s].form = "/"
      BY <2>1, <2>2, <2>3, <2>4 DEF PathsInv
    <3>1. s \in DOMAIN config
      BY <2>2 DEF PathSettings, ServerPaths, Settings
    <3>2. IsValue(config[s])
      BY <1>1, <3>1 DEF StartInv, FileInv
    <3> QED BY <2>1, <3>1, <3>2 DEF ExpandHomefile, IsValue, Unset
  <2> QED BY <1>1, <2>1, <2>2, <2>3, <2>7, <2>8 DEF StartInv, StartTypes, ParsingInv, FileInv, PidInv
<1> QED BY <1>2, <1>3

LEMMA DaemonInv == StartInv /\ (Detach \/ Redirect \/ Serve) => StartInv'
<1> SUFFICES ASSUME StartInv, Detach \/ Redirect \/ Serve PROVE StartInv'
  OBVIOUS
<1>1. CASE Leaves(1)
  BY <1>1, LeavesInv
<1>2. ASSUME UNCHANGED <<program, home, args, config, given, seen, section, pending, asked>>
      PROVE  /\ StartTypes' /\ PathSettings' = PathSettings
             /\ (FileRead' => FileRead) => CommandLineWins'
  <2>1. /\ \A s : KeysOf(s)' = KeysOf(s)
        /\ \A k, c : FromFile(k, c)' = FromFile(k, c) /\ PathSettings' = PathSettings
    BY <1>2 DEF KeysOf, FromFile, PathSettings, Engine
  <2>2. \A s, c : Expanded(s, c)' = Expanded(s, c)
    BY <1>2, <2>1 DEF Expanded
  <2> QED BY <1>2, <2>1, <2>2 DEF StartInv, StartTypes, CommandLineWins
<1>3. CASE Detach /\ ~Leaves(1)
  BY <1>2, <1>3 DEF Detach, StartInv, ParsingInv, FileInv, FileRead, PidInv, PathsInv
<1>4. CASE Redirect /\ ~Leaves(1)
  <2>1. /\ phase = "detached" /\ phase' = "serving"
        /\ UNCHANGED <<program, home, args, config, given, seen, section, pending, exit, cwd, pidFile,
                       asked>>
    BY <1>4 DEF Redirect
  <2>2. PidInv'
    BY <2>1 DEF StartInv, PidInv
  <2>3. PathsInv'
    BY <1>2, <2>1 DEF StartInv, PathsInv
  <2> QED BY <1>2, <2>1, <2>2, <2>3 DEF StartInv, ParsingInv, FileInv, FileRead
<1>5. CASE Serve
  BY <1>2, <1>5 DEF Serve, Exits, PidFileLeft, StartInv, ParsingInv, FileInv, FileRead, PidInv, PathsInv
<1> QED BY <1>1, <1>3, <1>4, <1>5

LEMMA StartStep == StartInv /\ [StartNext]_startVars => StartInv'
<1> SUFFICES ASSUME StartInv, [StartNext]_startVars PROVE StartInv'
  OBVIOUS
<1>1. CASE UNCHANGED startVars
  <2>1. /\ \A s : KeysOf(s)' = KeysOf(s)
        /\ \A k, c : FromFile(k, c)' = FromFile(k, c) /\ PathSettings' = PathSettings
    BY <1>1 DEF startVars, KeysOf, FromFile, PathSettings, Engine
  <2>2. \A s, c : Expanded(s, c)' = Expanded(s, c)
    BY <1>1, <2>1 DEF startVars, Expanded
  <2> QED BY <1>1, <2>1, <2>2 DEF startVars, StartInv, StartTypes, ParsingInv, FileInv, CommandLineWins,
                                  FileRead, Filed, PidInv, PathsInv
<1> QED BY <1>1, ParseInv, ParsingEndsInv, ApplyKeyInv, CheckInv, DaemonInv DEF StartNext

\* A program that serves, or asks, has the settings of its command line and
\* configuration file, whatever their options and in whatever order the keys of
\* the file are applied; a daemon keeps its pid file, and of its paths only the
\* two that nothing resolves, when they are relative, change their meaning in /.
THEOREM ConfiguredSafe == StartSpec => []ServesAsConfigured
<1>1. StartInv => ServesAsConfigured
  <2> SUFFICES ASSUME StartInv PROVE ServesAsConfigured
    OBVIOUS
  <2>1. PidFileFollowsServer
    BY DEF StartInv, PidInv, PidFileFollowsServer
  <2>2. OnlyRawPathsMove
    BY DEF StartInv, PidInv, PathsInv, OnlyRawPathsMove, Located
  <2> QED BY <2>1, <2>2 DEF StartInv, ServesAsConfigured
<1> QED BY <1>1, InitInv, StartStep, PTL DEF StartSpec

(***************************************************************************)
(* The passwd file                                                         *)
(***************************************************************************)
AccountStep(f, lines, i) == IF i = 0 THEN << >> ELSE Account(f[i - 1], lines[i])
AccountsAfter(lines) == CHOOSE f : f = [i \in 0..Len(lines) |-> AccountStep(f, lines, i)]

PartsOf(lines) == UNION {{lines[i][1], lines[i][2]} : i \in DOMAIN lines}
AccountsOf(lines) == UNION {[U -> PartsOf(lines)] : U \in SUBSET PartsOf(lines)}

LEMMA AccountsDefined ==
  ASSUME NEW lines, IsSequence(lines)
  PROVE  LET c == AccountsAfter(lines) IN
         c[0] = << >> /\ \A n \in 0..(Len(lines) - 1) : c[n + 1] = Account(c[n], lines[n + 1])
<1> DEFINE V == AccountsOf(lines)  P == PartsOf(lines)
           step == [i \in 1..Len(lines) |-> [v \in V |-> Account(v, lines[i])]]
<1>1. Len(lines) \in Nat /\ DOMAIN lines = 1..Len(lines)
  BY DEF IsSequence
<1>2. ASSUME NEW i \in 1..Len(lines), NEW v \in V PROVE Account(v, lines[i]) \in V
  <2>1. lines[i][1] \in P /\ lines[i][2] \in P
    BY <1>1 DEF PartsOf
  <2>2. PICK U \in SUBSET P : v \in [U -> P]
    BY DEF AccountsOf
  <2> HIDE DEF P
  <2>3. Account(v, lines[i]) \in [U -> P] \/ Account(v, lines[i]) \in [U \cup {lines[i][1]} -> P]
    BY <2>1, <2>2 DEF Account
  <2> QED BY <2>1, <2>2, <2>3 DEF AccountsOf, P
<1>3. << >> \in V
  <2>1. << >> \in [{} -> P] /\ {} \in SUBSET P
    OBVIOUS
  <2> QED BY <2>1 DEF AccountsOf
<1> HIDE DEF V, P
<1>4. step \in [1..Len(lines) -> [V -> V]]
  BY <1>2
<1>5. PICK h \in [0..Len(lines) -> V] :
        h = [i \in 0..Len(lines) |-> IF i = 0 THEN << >> ELSE step[i][h[i - 1]]]
  <2> HIDE DEF step
  <2> QED BY <1>1, <1>3, <1>4, Stepwise
<1>6. h = [i \in 0..Len(lines) |-> AccountStep(h, lines, i)]
  <2>1. ASSUME NEW i \in 0..Len(lines)
        PROVE  AccountStep(h, lines, i) = IF i = 0 THEN << >> ELSE step[i][h[i - 1]]
    BY <1>1 DEF AccountStep
  <2> HIDE DEF step
  <2> QED BY <1>5, <2>1
<1> DEFINE c == AccountsAfter(lines)
<1>7. c = [i \in 0..Len(lines) |-> AccountStep(c, lines, i)]
  BY <1>6, Zenon DEF AccountsAfter
<1> HIDE DEF c
<1>8. \A i \in 0..Len(lines) : c[i] = AccountStep(c, lines, i)
  BY <1>7
<1>9. /\ 0 \in 0..Len(lines)
      /\ \A n \in 0..(Len(lines) - 1) : n + 1 \in 0..Len(lines) /\ n + 1 # 0 /\ (n + 1) - 1 = n
  BY <1>1
<1>10. \A n \in 0..(Len(lines) - 1) : c[n + 1] = Account(c[n], lines[n + 1])
  BY <1>8, <1>9 DEF AccountStep
<1> QED BY <1>8, <1>9, <1>10 DEF AccountStep, c

Names(line, user) == Len(line) = 2 /\ line[1] = user

\* The last of the first n lines that name the user has this key.
KeyBy(lines, n, user, key) ==
    \E i \in 1..n : /\ Names(lines[i], user) /\ lines[i][2] = key
                    /\ \A j \in (i + 1)..n : ~Names(lines[j], user)
HasKey(accounts, user, key) == user \in DOMAIN accounts /\ accounts[user] = key

\* A user has the key of the last line of the passwd file that names it, and one
\* that no line names has none, whatever the file (load_passwd_file_with_logger).
THEOREM LastKeyCounts ==
  ASSUME NEW file, IsSequence(Lines(file)), NEW user, NEW key
  PROVE  HasKey(LoadPasswdFile(file), user, key) <=> KeyBy(Lines(file), Len(Lines(file)), user, key)
<1> DEFINE lines == Lines(file)  c == AccountsAfter(lines)
           T == {n \in Nat : n <= Len(lines) => (HasKey(c[n], user, key) <=> KeyBy(lines, n, user, key))}
<1>1. c[0] = << >> /\ \A n \in 0..(Len(lines) - 1) : c[n + 1] = Account(c[n], lines[n + 1])
  BY AccountsDefined
<1>2. Len(lines) \in Nat
  BY DEF IsSequence
<1>3. LoadPasswdFile(file) = c[Len(lines)]
  BY Zenon DEF LoadPasswdFile, AccountsAfter, AccountStep
<1> HIDE DEF c, lines
<1>4. 0 \in T
  BY <1>1 DEF HasKey, KeyBy
<1>5. ASSUME NEW n \in Nat, n \in T PROVE n + 1 \in T
  <2> SUFFICES ASSUME n + 1 <= Len(lines)
               PROVE  HasKey(c[n + 1], user, key) <=> KeyBy(lines, n + 1, user, key)
    OBVIOUS
  <2> DEFINE line == lines[n + 1]  names(i) == Names(lines[i], user)
  <2>1. HasKey(c[n + 1], user, key) <=> IF names(n + 1) THEN line[2] = key ELSE HasKey(c[n], user, key)
    <3>1. c[n + 1] = Account(c[n], line)
      BY <1>1, <1>2
    <3> QED BY <3>1 DEF Account, HasKey, Names
  <2>2. HasKey(c[n], user, key) <=> KeyBy(lines, n, user, key)
    BY <1>5, <1>2
  <2> HIDE DEF names
  <2>3. KeyBy(lines, n + 1, user, key)
          <=> IF names(n + 1) THEN line[2] = key ELSE KeyBy(lines, n, user, key)
    <3>1. \A m \in Nat : KeyBy(lines, m, user, key)
            <=> \E i \in 1..m : names(i) /\ lines[i][2] = key /\ \A j \in (i + 1)..m : ~names(j)
      BY DEF KeyBy, names
    <3>2. CASE names(n + 1)
      BY <3>1, <3>2
    <3>3. CASE ~names(n + 1)
      BY <3>1, <3>3
    <3> QED BY <3>2, <3>3
  <2> QED BY <2>1, <2>2, <2>3
<1> HIDE DEF T
<1>6. Len(lines) \in T
  BY <1>2, <1>4, <1>5, Induction
<1> QED BY <1>3, <1>6 DEF T, lines

(***************************************************************************)
(* The access file                                                         *)
(***************************************************************************)
AclStep(f, lines, accounts, i) == IF i = 0 THEN << >> ELSE ApplyLine(f[i - 1], lines[i], accounts)

\* The state of the access list after each line: the function LoadAccessFile
\* ends with.
AclAfter(lines, accounts) ==
    CHOOSE f : f = [i \in 0..Len(lines) |-> AclStep(f, lines, accounts, i)]

UsersNamed(lines, accounts) == UNION {UsersOf(lines[i], accounts) : i \in DOMAIN lines}
Operations(lines) == UNION {OperationsOf(lines[i]) : i \in DOMAIN lines}
AclsOf(lines, accounts) ==
    UNION {[U -> SUBSET Operations(lines)] : U \in SUBSET UsersNamed(lines, accounts)}

LEMMA ApplyLineType ==
  ASSUME NEW lines, NEW accounts, NEW i \in DOMAIN lines, NEW acl \in AclsOf(lines, accounts)
  PROVE  ApplyLine(acl, lines[i], accounts) \in AclsOf(lines, accounts)
<1> DEFINE N == UsersNamed(lines, accounts)  O == Operations(lines)
           line == lines[i]  U == UsersOf(line, accounts)  P == OperationsOf(line)
<1>1. U \subseteq N /\ P \subseteq O
  BY DEF UsersNamed, Operations
<1>2. PICK D \in SUBSET N : acl \in [D -> SUBSET O]
  BY DEF AclsOf
<1> HIDE DEF N, O, U, P
<1>3. CASE IsRule(line)
  <2> DEFINE new == [user \in DOMAIN acl \cup U |->
                       IF user \notin U THEN acl[user]
                       ELSE IF line[3] = "allow" THEN Granted(acl, user, line)
                       ELSE Denied(acl, user, line)]
  <2>1. \A user : OpsOf(acl, user) \in SUBSET O
    BY <1>2 DEF OpsOf
  <2>2. \A user : Granted(acl, user, line) \in SUBSET O /\ Denied(acl, user, line) \in SUBSET O
    BY <1>1, <2>1 DEF Granted, Denied, P
  <2>3. DOMAIN acl \cup U \in SUBSET N
    BY <1>1, <1>2
  <2>4. new \in [DOMAIN acl \cup U -> SUBSET O]
    BY <1>2, <2>2
  <2>5. ApplyLine(acl, line, accounts) = new
    BY <1>3, Zenon DEF ApplyLine, U
  <2> HIDE DEF new
  <2> QED BY <2>3, <2>4, <2>5 DEF AclsOf, N, O
<1>4. CASE ~IsRule(line)
  BY <1>4 DEF ApplyLine
<1> QED BY <1>3, <1>4

LEMMA AclDefined ==
  ASSUME NEW lines, IsSequence(lines), NEW accounts
  PROVE  LET c == AclAfter(lines, accounts) IN
         /\ c[0] = << >>
         /\ \A n \in 0..(Len(lines) - 1) : c[n + 1] = ApplyLine(c[n], lines[n + 1], accounts)
<1> DEFINE V == AclsOf(lines, accounts)
           step == [i \in 1..Len(lines) |-> [v \in V |-> ApplyLine(v, lines[i], accounts)]]
<1>0. Len(lines) \in Nat /\ DOMAIN lines = 1..Len(lines)
  BY DEF IsSequence
<1>1. \A i \in 1..Len(lines), v \in V : ApplyLine(v, lines[i], accounts) \in V
  BY <1>0, ApplyLineType
<1>2. << >> \in V
  <2>1. << >> \in [{} -> SUBSET Operations(lines)] /\ {} \in SUBSET UsersNamed(lines, accounts)
    OBVIOUS
  <2> QED BY <2>1 DEF AclsOf
<1> HIDE DEF V
<1>3. step \in [1..Len(lines) -> [V -> V]]
  BY <1>1
<1>4. PICK h \in [0..Len(lines) -> V] :
        h = [i \in 0..Len(lines) |-> IF i = 0 THEN << >> ELSE step[i][h[i - 1]]]
  <2> HIDE DEF step
  <2> QED BY <1>0, <1>2, <1>3, Stepwise
<1>5. h = [i \in 0..Len(lines) |-> AclStep(h, lines, accounts, i)]
  <2>1. ASSUME NEW i \in 0..Len(lines)
        PROVE  AclStep(h, lines, accounts, i) = IF i = 0 THEN << >> ELSE step[i][h[i - 1]]
    BY <1>0 DEF AclStep
  <2> HIDE DEF step
  <2> QED BY <1>4, <2>1
<1> DEFINE c == AclAfter(lines, accounts)
<1>6. c = [i \in 0..Len(lines) |-> AclStep(c, lines, accounts, i)]
  BY <1>5, Zenon DEF AclAfter
<1> HIDE DEF c
<1>7. \A i \in 0..Len(lines) : c[i] = AclStep(c, lines, accounts, i)
  BY <1>6
<1>8. /\ 0 \in 0..Len(lines)
      /\ \A n \in 0..(Len(lines) - 1) : n + 1 \in 0..Len(lines) /\ n + 1 # 0 /\ (n + 1) - 1 = n
  BY <1>0
<1>9. \A n \in 0..(Len(lines) - 1) : c[n + 1] = ApplyLine(c[n], lines[n + 1], accounts)
  BY <1>7, <1>8 DEF AclStep
<1> QED BY <1>7, <1>8, <1>9 DEF AclStep, c

\* The line is a rule about this operation of this user.
About(line, accounts, user, op) ==
    IsRule(line) /\ user \in UsersOf(line, accounts) /\ op \in OperationsOf(line)

\* The last of the first n lines that is about it allows it.
AllowedBy(lines, n, accounts, user, op) ==
    \E i \in 1..n : /\ About(lines[i], accounts, user, op) /\ lines[i][3] = "allow"
                    /\ \A j \in (i + 1)..n : ~About(lines[j], accounts, user, op)

\* One line decides what it is about, and nothing else.
LEMMA OneLine ==
  ASSUME NEW acl, NEW line, NEW accounts, NEW user, NEW op
  PROVE  op \in OpsOf(ApplyLine(acl, line, accounts), user)
           <=> IF About(line, accounts, user, op) THEN line[3] = "allow" ELSE op \in OpsOf(acl, user)
<1> DEFINE new == ApplyLine(acl, line, accounts)
<1>1. CASE ~IsRule(line)
  BY <1>1, Zenon DEF ApplyLine, About
<1>2. CASE IsRule(line)
  <2>1. DOMAIN new = DOMAIN acl \cup UsersOf(line, accounts)
    BY <1>2 DEF ApplyLine
  <2>2. CASE user \notin UsersOf(line, accounts)
    <3>1. user \in DOMAIN acl => new[user] = acl[user]
      BY <1>2, <2>2 DEF ApplyLine
    <3>2. OpsOf(new, user) = OpsOf(acl, user)
      BY <2>1, <2>2, <3>1 DEF OpsOf
    <3> QED BY <2>2, <3>2, Zenon DEF About
  <2>3. CASE user \in UsersOf(line, accounts)
    <3>1. OpsOf(new, user) = IF line[3] = "allow" THEN Granted(acl, user, line)
                             ELSE Denied(acl, user, line)
      BY <1>2, <2>1, <2>3 DEF ApplyLine, OpsOf
    <3> QED BY <1>2, <2>3, <3>1 DEF About, Granted, Denied, IsRule
  <2> QED BY <2>2, <2>3
<1> QED BY <1>1, <1>2

\* A user may do an operation exactly if the last line of the access file that is
\* about both allows it, whatever the file and the accounts
\* (load_access_file_with_logger).
THEOREM LastLineDecides ==
  ASSUME NEW file, file # Missing, IsSequence(file), NEW accounts, NEW user, NEW op
  PROVE  op \in OpsOf(LoadAccessFile(file, accounts), user)
           <=> AllowedBy(file, Len(file), accounts, user, op)
<1> DEFINE c == AclAfter(file, accounts)
           T == {n \in Nat : n <= Len(file) =>
                   (op \in OpsOf(c[n], user) <=> AllowedBy(file, n, accounts, user, op))}
<1>1. /\ c[0] = << >>
      /\ \A n \in 0..(Len(file) - 1) : c[n + 1] = ApplyLine(c[n], file[n + 1], accounts)
  BY AclDefined
<1>2. Len(file) \in Nat
  BY DEF IsSequence
<1>3. LoadAccessFile(file, accounts) = c[Len(file)]
  BY Zenon DEF LoadAccessFile, AclAfter, AclStep
<1> HIDE DEF c
<1>4. 0 \in T
  BY <1>1 DEF OpsOf, AllowedBy
<1>5. ASSUME NEW n \in Nat, n \in T PROVE n + 1 \in T
  <2> SUFFICES ASSUME n + 1 <= Len(file)
               PROVE  op \in OpsOf(c[n + 1], user) <=> AllowedBy(file, n + 1, accounts, user, op)
    OBVIOUS
  <2> DEFINE line == file[n + 1]  about(i) == About(file[i], accounts, user, op)
  <2>1. op \in OpsOf(c[n + 1], user)
          <=> IF about(n + 1) THEN line[3] = "allow" ELSE op \in OpsOf(c[n], user)
    <3>1. n \in 0..(Len(file) - 1)
      BY <1>2
    <3>2. c[n + 1] = ApplyLine(c[n], line, accounts)
      BY <1>1, <3>1
    <3> HIDE DEF line
    <3>3. op \in OpsOf(c[n + 1], user)
            <=> IF About(line, accounts, user, op) THEN line[3] = "allow" ELSE op \in OpsOf(c[n], user)
      BY <3>2, OneLine, Zenon
    <3> QED BY <3>3 DEF line
  <2>2. op \in OpsOf(c[n], user) <=> AllowedBy(file, n, accounts, user, op)
    BY <1>5, <1>2
  <2> HIDE DEF about
  <2>3. AllowedBy(file, n + 1, accounts, user, op)
          <=> IF about(n + 1) THEN line[3] = "allow" ELSE AllowedBy(file, n, accounts, user, op)
    <3>1. \A m \in Nat : AllowedBy(file, m, accounts, user, op)
            <=> \E i \in 1..m : about(i) /\ file[i][3] = "allow" /\ \A j \in (i + 1)..m : ~about(j)
      BY DEF AllowedBy, about
    <3>2. CASE about(n + 1)
      BY <3>1, <3>2
    <3>3. CASE ~about(n + 1)
      BY <3>1, <3>3
    <3> QED BY <3>2, <3>3
  <2> QED BY <2>1, <2>2, <2>3
<1> HIDE DEF T
<1>6. Len(file) \in T
  BY <1>2, <1>4, <1>5, Induction
<1> QED BY <1>3, <1>6 DEF T

(***************************************************************************)
(* The servers and accounts of the client                                  *)
(***************************************************************************)
\* v are the lines of the file that name a server, in their order.
NamesServers(v, lines) ==
    \E p \in [1..Len(v) -> 1..Len(lines)] :
       /\ \A i, j \in 1..Len(v) : i < j => p[i] < p[j]
       /\ \A i \in 1..Len(v) : v[i] = lines[p[i]]
       /\ \A k \in 1..Len(lines) : IsServer(lines[k]) <=> \E i \in 1..Len(v) : p[i] = k

\* The client asks the servers of its file, each line that names one once and in
\* the order of the lines, and the public server exactly when no line names one,
\* which is when it says so: it is never without a server (load_servers and
\* servers_file_has_entries).
THEOREM ServersInOrder ==
  ASSUME NEW file, IsSequence(Lines(file))
  PROVE  /\ ServersFileHasEntries(file) => NamesServers(LoadServers(file), Lines(file))
         /\ ~ServersFileHasEntries(file) => LoadServers(file) = <<PublicServer>>
         /\ Len(LoadServers(file)) \in Nat \ {0}
<1> DEFINE lines == Lines(file)  D == DOMAIN lines
           S == {lines[i] : i \in D}
           P == {lines[i] : i \in {j \in D : IsServer(lines[j])}}
           v == Sift(lines, P)
<1>1. Len(lines) \in Nat /\ D = 1..Len(lines) /\ lines \in Seq(S)
  BY DEF IsSequence
<1>2. \A k \in D : lines[k] \in P <=> IsServer(lines[k])
  OBVIOUS
<1>3. ServersFileHasEntries(file) <=> \E k \in D : IsServer(lines[k])
  BY DEF ServersFileHasEntries
<1>4. LoadServers(file) = IF v = << >> THEN <<PublicServer>> ELSE v
  BY Zenon DEF LoadServers
<1> HIDE DEF lines, S, P
<1>5. v \in Seq(S)
  BY <1>1, SiftType
<1>6. PICK p : Picks(p, v, lines, P)
  BY <1>1, SiftPlaces
<1> HIDE DEF v
<1>7. NamesServers(v, lines)
  <2>1. \A k \in 1..Len(lines) : IsServer(lines[k]) <=> \E i \in 1..Len(v) : p[i] = k
    BY <1>1, <1>2, <1>6 DEF Picks
  <2> QED BY <1>6, <2>1, Zenon DEF Picks, NamesServers
<1>8. Len(v) \in Nat /\ (v = << >> <=> Len(v) = 0)
  BY <1>5
<1>9. Len(v) = 0 <=> ~ServersFileHasEntries(file)
  <2>1. (\E k \in 1..Len(lines) : lines[k] \in P) <=> \E i \in 1..Len(v) : p[i] \in 1..Len(lines)
    BY <1>6 DEF Picks
  <2>2. (\E i \in 1..Len(v) : p[i] \in 1..Len(lines)) <=> Len(v) # 0
    <3>1. p \in [1..Len(v) -> 1..Len(lines)]
      BY <1>6 DEF Picks
    <3>2. Len(v) # 0 => 1 \in 1..Len(v)
      BY <1>8
    <3> QED BY <3>1, <3>2, <1>8
  <2> QED BY <1>1, <1>2, <1>3, <2>1, <2>2
<1>10. Len(<<PublicServer>>) = 1
  OBVIOUS
<1> QED BY <1>4, <1>7, <1>8, <1>9, <1>10 DEF lines

ClientStep(f, lines, i) == IF i = 0 THEN << >> ELSE ClientAccount(f[i - 1], lines[i])
ClientsAfter(lines) == CHOOSE f : f = [i \in 0..Len(lines) |-> ClientStep(f, lines, i)]

KeyOf(line) == [user |-> line[3], salt |-> line[4][1], key |-> line[4][2]]
ServersNamed(lines) == {ServerOf(lines[i]) : i \in DOMAIN lines}
KeysNamed(lines) == {KeyOf(lines[i]) : i \in DOMAIN lines}
ClientsOf(lines) == UNION {[U -> KeysNamed(lines)] : U \in SUBSET ServersNamed(lines)}

LEMMA ClientsDefined ==
  ASSUME NEW lines, IsSequence(lines)
  PROVE  LET c == ClientsAfter(lines) IN
         c[0] = << >> /\ \A n \in 0..(Len(lines) - 1) : c[n + 1] = ClientAccount(c[n], lines[n + 1])
<1> DEFINE V == ClientsOf(lines)  N == ServersNamed(lines)  K == KeysNamed(lines)
           step == [i \in 1..Len(lines) |-> [v \in V |-> ClientAccount(v, lines[i])]]
<1>1. Len(lines) \in Nat /\ DOMAIN lines = 1..Len(lines)
  BY DEF IsSequence
<1>2. ASSUME NEW i \in 1..Len(lines), NEW v \in V PROVE ClientAccount(v, lines[i]) \in V
  <2>1. ServerOf(lines[i]) \in N /\ KeyOf(lines[i]) \in K
    BY <1>1 DEF ServersNamed, KeysNamed
  <2>2. PICK U \in SUBSET N : v \in [U -> K]
    BY DEF ClientsOf
  <2> DEFINE x == ServerOf(lines[i])  k == KeyOf(lines[i])
  <2>3. ClientAccount(v, lines[i])
          = IF ~IsAccount(lines[i]) THEN v
            ELSE [y \in DOMAIN v \cup {x} |-> IF y # x THEN v[y] ELSE k]
    BY Zenon DEF ClientAccount, KeyOf
  <2> HIDE DEF N, K, x, k
  <2>4. ClientAccount(v, lines[i]) \in [U -> K] \/ ClientAccount(v, lines[i]) \in [U \cup {x} -> K]
    <3>1. DOMAIN v = U /\ \A y \in U : v[y] \in K
      BY <2>2
    <3>2. k \in K
      BY <2>1 DEF k
    <3> QED BY <2>2, <2>3, <3>1, <3>2
  <2>5. U \cup {x} \in SUBSET N
    BY <2>1, <2>2 DEF x
  <2> QED BY <2>2, <2>4, <2>5 DEF ClientsOf, N, K
<1>3. << >> \in V
  <2>1. << >> \in [{} -> K] /\ {} \in SUBSET N
    OBVIOUS
  <2> QED BY <2>1 DEF ClientsOf
<1> HIDE DEF V, N, K
<1>4. step \in [1..Len(lines) -> [V -> V]]
  BY <1>2
<1>5. PICK h \in [0..Len(lines) -> V] :
        h = [i \in 0..Len(lines) |-> IF i = 0 THEN << >> ELSE step[i][h[i - 1]]]
  <2> HIDE DEF step
  <2> QED BY <1>1, <1>3, <1>4, Stepwise
<1>6. h = [i \in 0..Len(lines) |-> ClientStep(h, lines, i)]
  <2>1. ASSUME NEW i \in 0..Len(lines)
        PROVE  ClientStep(h, lines, i) = IF i = 0 THEN << >> ELSE step[i][h[i - 1]]
    BY <1>1 DEF ClientStep
  <2> HIDE DEF step
  <2> QED BY <1>5, <2>1
<1> DEFINE c == ClientsAfter(lines)
<1>7. c = [i \in 0..Len(lines) |-> ClientStep(c, lines, i)]
  BY <1>6, Zenon DEF ClientsAfter
<1> HIDE DEF c
<1>8. \A i \in 0..Len(lines) : c[i] = ClientStep(c, lines, i)
  BY <1>7
<1>9. /\ 0 \in 0..Len(lines)
      /\ \A n \in 0..(Len(lines) - 1) : n + 1 \in 0..Len(lines) /\ n + 1 # 0 /\ (n + 1) - 1 = n
  BY <1>1
<1>10. \A n \in 0..(Len(lines) - 1) : c[n + 1] = ClientAccount(c[n], lines[n + 1])
  BY <1>8, <1>9 DEF ClientStep
<1> QED BY <1>8, <1>9, <1>10 DEF ClientStep, c

AccountFor(line, server) == IsAccount(line) /\ ServerOf(line) = server

\* The last of the first n lines that are an account for the server has this
\* user, salt and key.
SignsBy(lines, n, server, account) ==
    \E i \in 1..n : /\ AccountFor(lines[i], server) /\ account = KeyOf(lines[i])
                    /\ \A j \in (i + 1)..n : ~AccountFor(lines[j], server)

\* The client signs for a server with the account of the last usable line of that
\* host and port, and for a server without one as the anonymous user, whatever the
\* file (load_accounts_with_logger).
THEOREM LastAccountCounts ==
  ASSUME NEW file, IsSequence(Lines(file)), NEW server, NEW account
  PROVE  HasKey(LoadAccounts(file), server, account)
           <=> SignsBy(Lines(file), Len(Lines(file)), server, account)
<1> DEFINE lines == Lines(file)  c == ClientsAfter(lines)
           T == {n \in Nat : n <= Len(lines) => (HasKey(c[n], server, account)
                                                   <=> SignsBy(lines, n, server, account))}
<1>1. c[0] = << >> /\ \A n \in 0..(Len(lines) - 1) : c[n + 1] = ClientAccount(c[n], lines[n + 1])
  BY ClientsDefined
<1>2. Len(lines) \in Nat
  BY DEF IsSequence
<1>3. LoadAccounts(file) = c[Len(lines)]
  BY Zenon DEF LoadAccounts, ClientsAfter, ClientStep
<1> HIDE DEF c, lines
<1>4. 0 \in T
  BY <1>1 DEF HasKey, SignsBy
<1>5. ASSUME NEW n \in Nat, n \in T PROVE n + 1 \in T
  <2> SUFFICES ASSUME n + 1 <= Len(lines)
               PROVE  HasKey(c[n + 1], server, account) <=> SignsBy(lines, n + 1, server, account)
    OBVIOUS
  <2> DEFINE line == lines[n + 1]  names(i) == AccountFor(lines[i], server)
             has(i) == account = KeyOf(lines[i])
  <2>1. HasKey(c[n + 1], server, account)
          <=> IF names(n + 1) THEN has(n + 1) ELSE HasKey(c[n], server, account)
    <3> DEFINE x == ServerOf(line)  k == KeyOf(line)
    <3>1. c[n + 1] = IF ~IsAccount(line) THEN c[n]
                     ELSE [y \in DOMAIN c[n] \cup {x} |-> IF y # x THEN c[n][y] ELSE k]
      <4>1. c[n + 1] = ClientAccount(c[n], line)
        BY <1>1, <1>2
      <4> QED BY <4>1, Zenon DEF ClientAccount, KeyOf
    <3>2. names(n + 1) <=> IsAccount(line) /\ x = server
      BY Zenon DEF AccountFor
    <3>3. has(n + 1) <=> account = k
      OBVIOUS
    <3> HIDE DEF line, names, has, x, k
    <3> QED BY <3>1, <3>2, <3>3 DEF HasKey
  <2>2. HasKey(c[n], server, account) <=> SignsBy(lines, n, server, account)
    BY <1>5, <1>2
  <2> HIDE DEF names, has
  <2>3. SignsBy(lines, n + 1, server, account)
          <=> IF names(n + 1) THEN has(n + 1) ELSE SignsBy(lines, n, server, account)
    <3>1. \A m \in Nat : SignsBy(lines, m, server, account)
            <=> \E i \in 1..m : names(i) /\ has(i) /\ \A j \in (i + 1)..m : ~names(j)
      BY Zenon DEF SignsBy, names, has
    <3>2. CASE names(n + 1)
      BY <3>1, <3>2
    <3>3. CASE ~names(n + 1)
      BY <3>1, <3>3
    <3> QED BY <3>2, <3>3
  <2> QED BY <2>1, <2>2, <2>3
<1> HIDE DEF T
<1>6. Len(lines) \in T
  BY <1>2, <1>4, <1>5, Induction
<1> QED BY <1>3, <1>6 DEF T, lines

(***************************************************************************)
(* The calendar                                                            *)
(***************************************************************************)
\* The code's division towards zero, of a number that is shifted when it is
\* negative, is the division of TLA+.
LEMMA QuotientIsDiv ==
  /\ \A z \in Int : Quotient(IF z >= 0 THEN z ELSE z - (EraDays - 1), EraDays) = z \div EraDays
  /\ \A y \in Int : Quotient(IF y >= 0 THEN y ELSE y - 399, 400) = y \div 400
<1>1. ASSUME NEW z \in Int PROVE  Quotient(IF z >= 0 THEN z ELSE z - (EraDays - 1), EraDays) = z \div EraDays
  BY DEF Quotient, EraDays
<1>2. ASSUME NEW y \in Int PROVE Quotient(IF y >= 0 THEN y ELSE y - 399, 400) = y \div 400
  BY DEF Quotient
<1> QED BY <1>1, <1>2

\* Years begin with March here, and are counted within an era of 400.
\* The year ends with a February of 29 days.
Long(yoe) == (yoe + 1) % 4 = 0 /\ ((yoe + 1) % 100 # 0 \/ yoe = 399)
OfEra(doe) == doe \in Int /\ 0 <= doe /\ doe <= 146096
Within(n, least, most) == n \in Int /\ least <= n /\ n <= most
InYear(yoe, doy) == Within(doy, 0, 364) \/ (doy = 365 /\ Long(yoe))

LEMMA DayHasYear ==
  ASSUME NEW doe, OfEra(doe)
  PROVE  Within(YearOf(doe), 0, 399) /\ InYear(YearOf(doe), doe - YearStart(YearOf(doe)))
<1> DEFINE y == YearOf(doe)
<1>1. doe \in Int /\ 0 <= doe /\ doe <= 146096
  BY DEF OfEra
<1>2. y \in Int /\ y = (doe - doe \div 1460 + doe \div 36524 - doe \div 146096) \div 365
  BY <1>1 DEF YearOf
<1> HIDE DEF y
<1>3. 0 <= y /\ y <= 399
  BY <1>1, <1>2, SMTT(20)
<1>4. /\ 0 <= doe - YearStart(y) /\ doe - YearStart(y) <= 365
      /\ doe - YearStart(y) \in Int
  BY <1>1, <1>2, <1>3, SMTT(20) DEF YearStart
<1>5. doe - YearStart(y) = 365 => Long(y)
  BY <1>1, <1>2, <1>3, SMTT(20) DEF YearStart, Long
<1> QED BY <1>2, <1>3, <1>4, <1>5, SMTT(20) DEF InYear, Within, y

LEMMA YearHasDay ==
  ASSUME NEW yoe, Within(yoe, 0, 399), NEW doy, InYear(yoe, doy)
  PROVE  OfEra(YearStart(yoe) + doy) /\ YearOf(YearStart(yoe) + doy) = yoe
<1> DEFINE doe == YearStart(yoe) + doy
<1>1. yoe \in Int /\ 0 <= yoe /\ yoe <= 399 /\ doy \in Int /\ 0 <= doy /\ doy <= 365
  BY SMTT(20) DEF Within, InYear
<1>2. doe \in Int /\ doe = yoe * 365 + yoe \div 4 - yoe \div 100 + doy
  BY <1>1, SMTT(20) DEF YearStart
<1>3. doy # 365 \/ ((yoe + 1) % 4 = 0 /\ ((yoe + 1) % 100 # 0 \/ yoe = 399))
  BY <1>1, SMTT(20) DEF InYear, Long, Within
<1> HIDE DEF doe
<1>4. 0 <= doe /\ doe <= 146096
  BY <1>1, <1>2, <1>3, SMTT(20)
<1>5. YearOf(doe) = yoe
  BY <1>1, <1>2, <1>3, <1>4, SMTT(20) DEF YearOf
<1> QED BY <1>2, <1>4, <1>5, SMTT(20) DEF OfEra, doe

LEMMA LongIsLeap ==
  ASSUME NEW era \in Int, NEW yoe, Within(yoe, 0, 399)
  PROVE  Leap(yoe + era * 400 + 1) <=> Long(yoe)
<1>1. yoe \in Int /\ 0 <= yoe /\ yoe <= 399
  BY DEF Within
<1> DEFINE year == yoe + era * 400 + 1
<1>2. year % 4 = (yoe + 1) % 4 /\ year % 100 = (yoe + 1) % 100
  BY <1>1, SMTT(20)
<1>3. year % 400 = 0 <=> yoe = 399
  BY <1>1, SMTT(20)
<1> QED BY <1>2, <1>3, SMTT(20) DEF Leap, Long

\* Months, too, begin with March.
DayOfYear(d) == MonthStart(SinceMarch(d.month)) + d.day - 1
\* The date of a day of a year of an era.
Civil(era, yoe, doy) ==
    LET mp == MonthOf(doy)  m == FromMarch(mp)
    IN [year |-> yoe + era * 400 + (IF m <= 2 THEN 1 ELSE 0),
        month |-> m, day |-> doy - MonthStart(mp) + 1]
IsDate(d) ==
    /\ d \in [year : Int, month : Int, day : Int]
    /\ 1 <= d.month /\ d.month <= 12 /\ 1 <= d.day /\ d.day <= DaysIn(d.year, d.month)

LEMMA February ==
  ASSUME NEW year
  PROVE  DaysIn(year, 2) = IF Leap(year) THEN 29 ELSE 28
<1>1. 2 \notin {4, 6, 9, 11}
  OBVIOUS
<1>2. CASE Leap(year)
  BY <1>1, <1>2, Zenon DEF DaysIn
<1>3. CASE ~Leap(year)
  BY <1>1, <1>3, Zenon DEF DaysIn
<1> QED BY <1>2, <1>3, Zenon

LEMMA DayHasMonth ==
  ASSUME NEW doy \in Int, 0 <= doy, doy <= 365
  PROVE  LET mp == MonthOf(doy)  day == doy - MonthStart(mp) + 1  m == FromMarch(mp)
         IN /\ mp \in Int /\ 0 <= mp /\ mp <= 11 /\ day \in Int /\ 1 <= day /\ day <= 31
            /\ m \in Int /\ 1 <= m /\ m <= 12 /\ SinceMarch(m) = mp
            /\ m \in {4, 6, 9, 11} => day <= 30
            /\ m = 2 => day <= 29 /\ (day = 29 <=> doy = 365)
            /\ doy = 365 => m = 2
<1> DEFINE mp == MonthOf(doy)  day == doy - MonthStart(mp) + 1  m == FromMarch(mp)
<1>1. mp \in Int /\ mp = (5 * doy + 2) \div 153
  BY DEF MonthOf
<1> HIDE DEF mp
<1>2. 0 <= mp /\ mp <= 11
  BY <1>1, SMTT(20)
<1>3. day \in Int /\ day = doy - ((153 * mp + 2) \div 5) + 1
  BY <1>1, SMTT(20) DEF MonthStart
<1>4. m \in Int /\ 1 <= m /\ m <= 12 /\ SinceMarch(m) = mp
  BY <1>1, <1>2, SMTT(20) DEF FromMarch, SinceMarch
<1>5. mp \in {0, 1, 2, 3, 4, 5, 6, 7, 8, 9, 10, 11}
  BY <1>1, <1>2, SMTT(20)
<1> HIDE DEF day
<1>6. 1 <= day /\ day <= 31
  BY <1>1, <1>2, <1>3, SMTT(20)
<1>7. mp \in {1, 3, 6, 8} => day <= 30
  BY <1>1, <1>2, <1>3, SMTT(20)
<1>8. mp = 11 => day <= 29 /\ (day = 29 <=> doy = 365)
  BY <1>1, <1>2, <1>3, SMTT(20)
<1>9. doy = 365 => mp = 11
  BY <1>1, <1>2, SMTT(20)
<1>10. (m \in {4, 6, 9, 11} => mp \in {1, 3, 6, 8}) /\ (m = 2 <=> mp = 11)
  BY <1>1, <1>5, SMTT(20) DEF FromMarch
<1> HIDE DEF m
<1>11. /\ mp \in Int /\ 0 <= mp /\ mp <= 11 /\ day \in Int /\ 1 <= day /\ day <= 31
       /\ m \in Int /\ 1 <= m /\ m <= 12 /\ SinceMarch(m) = mp
       /\ m \in {4, 6, 9, 11} => day <= 30
       /\ m = 2 => day <= 29 /\ (day = 29 <=> doy = 365)
       /\ doy = 365 => m = 2
  BY <1>1, <1>2, <1>3, <1>4, <1>6, <1>7, <1>8, <1>9, <1>10, SMTT(20)
<1> QED BY <1>11, Zenon DEF mp, day, m

LEMMA MonthHasDay ==
  ASSUME NEW d, IsDate(d)
  PROVE  LET doy == DayOfYear(d) IN
         /\ doy \in Int /\ 0 <= doy /\ doy <= 365
         /\ MonthOf(doy) = SinceMarch(d.month)
         /\ FromMarch(SinceMarch(d.month)) = d.month
         /\ doy - MonthStart(SinceMarch(d.month)) + 1 = d.day
         /\ doy = 365 => d.month = 2 /\ d.day = 29
<1> DEFINE doy == DayOfYear(d)  mp == SinceMarch(d.month)
<1>1. PICK m \in Int, day \in Int : m = d.month /\ day = d.day
  BY DEF IsDate
<1>2. 1 <= m /\ m <= 12 /\ 1 <= day /\ day <= 31 /\ (m \in {4, 6, 9, 11} => day <= 30) /\ (m = 2 => day <= 29)
  BY <1>1 DEF IsDate, DaysIn
<1>3. mp = IF m > 2 THEN m - 3 ELSE m + 9
  BY <1>1 DEF SinceMarch
<1>4. mp \in Int /\ 0 <= mp /\ mp <= 11
  BY <1>2, <1>3, SMTT(20)
<1> HIDE DEF mp
<1>5. doy = ((153 * mp + 2) \div 5) + day - 1 /\ doy \in Int
  BY <1>1, <1>4, SMTT(20) DEF mp, DayOfYear, MonthStart
<1>6. doy - MonthStart(mp) + 1 = day
  BY <1>4, <1>5, SMTT(20) DEF MonthStart
<1> HIDE DEF doy
<1>7. /\ mp \in {1, 3, 6, 8} => day <= 30
      /\ mp = 11 => day <= 29
  BY <1>2, <1>3, SMTT(20)
<1>8. 0 <= doy /\ doy <= 365
  BY <1>2, <1>4, <1>5, <1>7, SMTT(20)
<1>9. MonthOf(doy) = mp
  BY <1>2, <1>4, <1>5, <1>7, <1>8, SMTT(20) DEF MonthOf
<1>10. doy = 365 => mp = 11 /\ day = 29
  BY <1>2, <1>4, <1>5, <1>7, SMTT(20)
<1>11. FromMarch(mp) = m /\ (mp = 11 => m = 2)
  BY <1>2, <1>3, SMTT(20) DEF FromMarch
<1>12. /\ doy \in Int /\ 0 <= doy /\ doy <= 365
       /\ MonthOf(doy) = mp /\ FromMarch(mp) = d.month
       /\ doy - MonthStart(mp) + 1 = d.day
       /\ doy = 365 => d.month = 2 /\ d.day = 29
  BY <1>1, <1>5, <1>6, <1>8, <1>9, <1>10, <1>11
<1> QED BY <1>12, Zenon DEF doy, mp

\* Day n of the epoch is this day of this year of this era.
IsDay(n, era, yoe, doy) ==
    /\ era \in Int /\ Within(yoe, 0, 399) /\ InYear(yoe, doy)
    /\ n = era * EraDays + YearStart(yoe) + doy - EpochDays

LEMMA YearStartType == ASSUME NEW yoe \in Int PROVE YearStart(yoe) \in Int
BY DEF YearStart

LEMMA DayHasDate ==
  ASSUME NEW n \in Int
  PROVE  \E era, yoe, doy : IsDay(n, era, yoe, doy) /\ CivilFromDays(n) = Civil(era, yoe, doy)
<1> DEFINE z == n + EpochDays  era == z \div EraDays  doe == z - era * EraDays
           yoe == YearOf(doe)  doy == doe - YearStart(yoe)
<1>1. z \in Int /\ EpochDays \in Int /\ EraDays \in Int
  BY DEF EpochDays, EraDays
<1>2. era \in Int /\ OfEra(doe)
  <2> HIDE DEF z
  <2>1. era \in Int /\ 0 <= doe /\ doe <= 146096 /\ doe \in Int
    BY <1>1, SMTT(20) DEF EraDays
  <2> QED BY <2>1, SMTT(20) DEF OfEra
<1>3. Quotient(IF z >= 0 THEN z ELSE z - (EraDays - 1), EraDays) = era
  <2> HIDE DEF z
  <2> QED BY <1>1, QuotientIsDiv, Zenon
<1>4. Within(yoe, 0, 399) /\ InYear(yoe, doy)
  <2> HIDE DEF doe
  <2> QED BY <1>2, DayHasYear, Zenon
<1>5. CivilFromDays(n) = Civil(era, yoe, doy)
  BY <1>3 DEF CivilFromDays, Civil
<1>6. n = era * EraDays + YearStart(yoe) + doy - EpochDays
  <2>1. n + EpochDays = era * EraDays + doe /\ era * EraDays \in Int /\ doe \in Int
    <3> HIDE DEF era
    <3> QED BY <1>1, <1>2, SMTT(20) DEF OfEra
  <2> HIDE DEF doe
  <2>2. YearStart(yoe) \in Int
    BY <1>4, YearStartType DEF Within
  <2> HIDE DEF yoe, era
  <2> QED BY <1>1, <2>1, <2>2
<1> HIDE DEF era, yoe, doy
<1> QED BY <1>2, <1>4, <1>5, <1>6, Zenon DEF IsDay

LEMMA CivilIsDate ==
  ASSUME NEW n, NEW era, NEW yoe, NEW doy, IsDay(n, era, yoe, doy)
  PROVE  IsDate(Civil(era, yoe, doy)) /\ DaysFromCivil(Civil(era, yoe, doy)) = n
<1>1. /\ era \in Int /\ yoe \in Int /\ 0 <= yoe /\ yoe <= 399
      /\ doy \in Int /\ 0 <= doy /\ doy <= 365 /\ (doy = 365 => Long(yoe))
  <2>1. era \in Int /\ Within(yoe, 0, 399) /\ InYear(yoe, doy)
    BY Zenon DEF IsDay
  <2> QED BY <2>1, SMTT(20) DEF Within, InYear
<1> DEFINE d == Civil(era, yoe, doy)
           mp == MonthOf(doy)  day == doy - MonthStart(mp) + 1  m == FromMarch(mp)
<1>2. /\ mp \in Int /\ 0 <= mp /\ mp <= 11 /\ day \in Int /\ 1 <= day /\ day <= 31
      /\ m \in Int /\ 1 <= m /\ m <= 12 /\ SinceMarch(m) = mp
      /\ m \in {4, 6, 9, 11} => day <= 30
      /\ m = 2 => day <= 29 /\ (day = 29 <=> doy = 365)
      /\ doy = 365 => m = 2
  BY <1>1, DayHasMonth
<1>3. d = [year |-> yoe + era * 400 + (IF m <= 2 THEN 1 ELSE 0), month |-> m, day |-> day]
  BY Zenon DEF Civil
<1>4. MonthStart(mp) \in Int /\ day = doy - MonthStart(mp) + 1
  <2> HIDE DEF mp
  <2> QED BY <1>2 DEF MonthStart
<1> HIDE DEF mp, day, m, d
<1>5. d.month = m /\ d.day = day /\ d.year = yoe + era * 400 + (IF m <= 2 THEN 1 ELSE 0)
      /\ d \in [year : Int, month : Int, day : Int]
  BY <1>1, <1>2, <1>3
<1>6. IsDate(d)
  <2>1. day <= DaysIn(d.year, m)
    <3>1. CASE m = 2
      <4>1. d.year = yoe + era * 400 + 1
        BY <1>5, <3>1
      <4>2. Leap(d.year) <=> Long(yoe)
        <5>1. Leap(yoe + era * 400 + 1) <=> Long(yoe)
          BY LongIsLeap DEF IsDay
        <5> QED BY <4>1, <5>1, Zenon
      <4>3. CASE Long(yoe)
        <5>1. DaysIn(d.year, m) = 29
          BY <3>1, <4>2, <4>3, February, Zenon
        <5> QED BY <1>2, <3>1, <5>1
      <4>4. CASE ~Long(yoe)
        <5>1. DaysIn(d.year, m) = 28
          BY <3>1, <4>2, <4>4, February, Zenon
        <5> QED BY <1>1, <1>2, <3>1, <4>4, <5>1
      <4> QED BY <4>3, <4>4
    <3>2. CASE m # 2
      BY <1>2, <3>2 DEF DaysIn
    <3> QED BY <3>1, <3>2
  <2> QED BY <1>2, <1>5, <2>1 DEF IsDate
<1> DEFINE year == MarchYear(d)
<1>7. year = yoe + era * 400 /\ year \in Int /\ year - era * 400 = yoe
  BY <1>1, <1>2, <1>5 DEF MarchYear
<1> HIDE DEF year
<1>8. year \div 400 = era
  BY <1>1, <1>7, SMTT(20)
<1>9. Quotient(IF year >= 0 THEN year ELSE year - 399, 400) = era
  BY <1>7, <1>8, QuotientIsDiv, SMTT(20)
<1>10. DaysFromCivil(d) = era * EraDays + YearStart(yoe) + (MonthStart(mp) + day - 1) - EpochDays
  BY <1>2, <1>5, <1>7, <1>9, SMTT(20) DEF DaysFromCivil, year
<1>11. MonthStart(mp) + day - 1 = doy
  BY <1>1, <1>4
<1>12. DaysFromCivil(d) = n
  BY <1>10, <1>11, Zenon DEF IsDay
<1> QED BY <1>6, <1>12 DEF d

LEMMA DateIsCivil ==
  ASSUME NEW d, IsDate(d)
  PROVE  \E n, era, yoe, doy : n \in Int /\ IsDay(n, era, yoe, doy) /\ d = Civil(era, yoe, doy)
<1> DEFINE year == MarchYear(d)  era == year \div 400  yoe == year - era * 400  doy == DayOfYear(d)
           n == era * EraDays + YearStart(yoe) + doy - EpochDays
<1>1. d \in [year : Int, month : Int, day : Int] /\ 1 <= d.month /\ d.month <= 12
      /\ d.day <= DaysIn(d.year, d.month)
  BY DEF IsDate
<1>2. year \in Int /\ d.year = year + (IF d.month <= 2 THEN 1 ELSE 0)
  BY <1>1 DEF MarchYear
<1>3. /\ doy \in Int /\ 0 <= doy /\ doy <= 365
      /\ MonthOf(doy) = SinceMarch(d.month)
      /\ FromMarch(SinceMarch(d.month)) = d.month
      /\ doy - MonthStart(SinceMarch(d.month)) + 1 = d.day
      /\ doy = 365 => d.month = 2 /\ d.day = 29
  BY MonthHasDay
<1> HIDE DEF year, doy
<1>4. era \in Int /\ yoe \in Int /\ 0 <= yoe /\ yoe <= 399 /\ year = yoe + era * 400
  BY <1>2, SMTT(20)
<1> HIDE DEF era, yoe
<1>5. Within(yoe, 0, 399)
  BY <1>4 DEF Within
<1>6. InYear(yoe, doy)
  <2>1. CASE doy = 365
    <3>1. Leap(d.year)
      <4>1. CASE ~Leap(d.year)
        <5>1. DaysIn(d.year, d.month) = 28
          BY <1>3, <2>1, <4>1, February, Zenon
        <5>2. d.day = 29
          BY <1>3, <2>1
        <5> QED BY <1>1, <5>1, <5>2
      <4> QED BY <4>1
    <3>2. d.year = yoe + era * 400 + 1
      BY <1>2, <1>3, <1>4, <2>1
    <3>3. Long(yoe)
      <4>1. Leap(yoe + era * 400 + 1) <=> Long(yoe)
        BY <1>4, <1>5, LongIsLeap, ZenonT(60)
      <4> QED BY <3>1, <3>2, <4>1, Zenon
    <3> QED BY <2>1, <3>3, Zenon DEF InYear
  <2>2. CASE doy # 365
    BY <1>3, <2>2, SMTT(20) DEF InYear, Within
  <2> QED BY <2>1, <2>2
<1>7. d = Civil(era, yoe, doy)
  <2>1. d = [year |-> year + (IF d.month <= 2 THEN 1 ELSE 0), month |-> d.month, day |-> d.day]
    BY <1>1, <1>2
  <2>2. Civil(era, yoe, doy)
          = [year |-> yoe + era * 400 + (IF d.month <= 2 THEN 1 ELSE 0), month |-> d.month, day |-> d.day]
    BY <1>3 DEF Civil
  <2> QED BY <1>4, <2>1, <2>2, Zenon
<1>8. n \in Int
  BY <1>3, <1>4, YearStartType, SMTT(20) DEF EraDays, EpochDays
<1>9. IsDay(n, era, yoe, doy)
  BY <1>4, <1>5, <1>6, Zenon DEF IsDay
<1> QED BY <1>7, <1>8, <1>9

\* A day is in one era, year and day of the year.
LEMMA OneCivil ==
  ASSUME NEW n, NEW era1, NEW yoe1, NEW doy1, NEW era2, NEW yoe2, NEW doy2,
         IsDay(n, era1, yoe1, doy1), IsDay(n, era2, yoe2, doy2)
  PROVE  era1 = era2 /\ yoe1 = yoe2 /\ doy1 = doy2
<1> DEFINE doe1 == YearStart(yoe1) + doy1  doe2 == YearStart(yoe2) + doy2
<1>1. OfEra(doe1) /\ YearOf(doe1) = yoe1 /\ OfEra(doe2) /\ YearOf(doe2) = yoe2
  BY YearHasDay, Zenon DEF IsDay
<1>2. /\ era1 \in Int /\ yoe1 \in Int /\ doy1 \in Int /\ era2 \in Int /\ yoe2 \in Int /\ doy2 \in Int
      /\ YearStart(yoe1) \in Int /\ YearStart(yoe2) \in Int
      /\ n = era1 * EraDays + YearStart(yoe1) + doy1 - EpochDays
      /\ n = era2 * EraDays + YearStart(yoe2) + doy2 - EpochDays
  BY YearStartType, SMTT(20) DEF IsDay, Within, InYear
<1>3. era1 * EraDays + doe1 = era2 * EraDays + doe2
  BY <1>2, SMTT(20) DEF EraDays, EpochDays
<1> HIDE DEF doe1, doe2
<1>4. era1 = era2 /\ doe1 = doe2
  BY <1>1, <1>2, <1>3, SMTT(20) DEF EraDays, OfEra
<1>5. yoe1 = yoe2
  BY <1>1, <1>4, Zenon
<1>6. doy1 = doy2
  BY <1>2, <1>4, <1>5 DEF doe1, doe2
<1> QED BY <1>4, <1>5, <1>6

\* Every day since the epoch, and before it, has a date and every date is of one
\* day (civil_from_days and days_from_civil).
THEOREM DatesAreDays ==
  /\ \A n \in Int : IsDate(CivilFromDays(n)) /\ DaysFromCivil(CivilFromDays(n)) = n
  /\ \A d : IsDate(d) => DaysFromCivil(d) \in Int /\ CivilFromDays(DaysFromCivil(d)) = d
<1>1. ASSUME NEW n \in Int
      PROVE  IsDate(CivilFromDays(n)) /\ DaysFromCivil(CivilFromDays(n)) = n
  <2>1. PICK era, yoe, doy : IsDay(n, era, yoe, doy) /\ CivilFromDays(n) = Civil(era, yoe, doy)
    BY DayHasDate, Zenon
  <2>2. IsDate(Civil(era, yoe, doy)) /\ DaysFromCivil(Civil(era, yoe, doy)) = n
    BY <2>1, CivilIsDate, Zenon
  <2> QED BY <2>1, <2>2, Zenon
<1>2. ASSUME NEW d, IsDate(d)
      PROVE  DaysFromCivil(d) \in Int /\ CivilFromDays(DaysFromCivil(d)) = d
  <2>1. PICK n, era, yoe, doy : n \in Int /\ IsDay(n, era, yoe, doy) /\ d = Civil(era, yoe, doy)
    BY <1>2, DateIsCivil, Zenon
  <2>2. DaysFromCivil(d) = n
    BY <2>1, CivilIsDate, Zenon
  <2>3. PICK era2, yoe2, doy2 : IsDay(n, era2, yoe2, doy2) /\ CivilFromDays(n) = Civil(era2, yoe2, doy2)
    BY <2>1, DayHasDate, Zenon
  <2> QED BY <2>1, <2>2, <2>3, OneCivil, Zenon
<1> QED BY <1>1, <1>2, Zenon

\* The day of the first of March of a year.
MarchFirst(year) ==
    (year \div 400) * EraDays + YearStart(year - (year \div 400) * 400) - EpochDays

LEMMA DayNumber ==
  ASSUME NEW d, IsDate(d)
  PROVE  /\ MarchYear(d) = d.year - (IF d.month <= 2 THEN 1 ELSE 0)
         /\ MarchFirst(MarchYear(d)) \in Int /\ DayOfYear(d) \in Int
         /\ DaysFromCivil(d) = MarchFirst(MarchYear(d)) + DayOfYear(d)
<1> DEFINE year == MarchYear(d)  era == year \div 400
<1>1. year \in Int
  BY DEF IsDate, MarchYear
<1>2. DayOfYear(d) \in Int /\ DayOfYear(d) = MonthStart(SinceMarch(d.month)) + d.day - 1
  BY MonthHasDay, Zenon DEF DayOfYear
<1> HIDE DEF year
<1>3. Quotient(IF year >= 0 THEN year ELSE year - 399, 400) = era
  <2>1. era = year \div 400
    OBVIOUS
  <2> HIDE DEF era
  <2>2. \A y \in Int : Quotient(IF y >= 0 THEN y ELSE y - 399, 400) = y \div 400
    BY QuotientIsDiv, Zenon
  <2> QED BY <1>1, <2>1, <2>2, ZenonT(60)
<1>4. era \in Int /\ YearStart(year - era * 400) \in Int
  <2>1. era \in Int /\ year - era * 400 \in Int
    BY <1>1, SMTT(20)
  <2> QED BY <2>1, YearStartType, Zenon
<1> DEFINE start == YearStart(year - era * 400)
<1>5. DaysFromCivil(d) = era * EraDays + start + DayOfYear(d) - EpochDays
  BY <1>2, <1>3, SMTT(20) DEF DaysFromCivil, year
<1> HIDE DEF era
<1>6. MarchFirst(year) = era * EraDays + start - EpochDays
  BY Zenon DEF MarchFirst, era
<1> HIDE DEF start
<1>7. MarchFirst(year) \in Int /\ DaysFromCivil(d) = MarchFirst(year) + DayOfYear(d)
  BY <1>2, <1>4, <1>5, <1>6, SMTT(20) DEF EraDays, EpochDays, start
<1> QED BY <1>2, <1>7, Zenon DEF year, MarchYear

LEMMA NextYear ==
  ASSUME NEW year \in Int
  PROVE  MarchFirst(year + 1) = MarchFirst(year) + (IF Leap(year + 1) THEN 366 ELSE 365)
<1> DEFINE era == year \div 400  yoe == year - era * 400
<1>1. era \in Int /\ yoe \in Int /\ 0 <= yoe /\ yoe <= 399 /\ year = yoe + era * 400
  BY SMTT(20)
<1> HIDE DEF era, yoe
<1>2. Leap(year + 1) <=> Long(yoe)
  <2>1. Leap(yoe + era * 400 + 1) <=> Long(yoe)
    BY <1>1, LongIsLeap, ZenonT(60) DEF Within
  <2>2. year + 1 = yoe + era * 400 + 1
    BY <1>1
  <2> QED BY <2>1, <2>2, Zenon
<1>3. MarchFirst(year) = era * EraDays + YearStart(yoe) - EpochDays
  BY Zenon DEF MarchFirst, era, yoe
<1>4. CASE yoe = 399
  <2>1. (year + 1) \div 400 = era + 1 /\ (year + 1) - (era + 1) * 400 = 0
    BY <1>1, <1>4, SMTT(20)
  <2>2. MarchFirst(year + 1) = (era + 1) * EraDays + YearStart(0) - EpochDays
    BY <2>1 DEF MarchFirst
  <2>3. MarchFirst(year + 1) = MarchFirst(year) + 366
    BY <1>1, <1>3, <1>4, <2>2, SMTT(20) DEF EraDays, EpochDays, YearStart
  <2>4. Long(yoe)
    BY <1>4, SMTT(20) DEF Long
  <2> QED BY <1>2, <2>3, <2>4, Zenon
<1>5. CASE yoe # 399
  <2>1. (year + 1) \div 400 = era /\ (year + 1) - era * 400 = yoe + 1
    BY <1>1, <1>5, SMTT(20)
  <2>2. MarchFirst(year + 1) = era * EraDays + YearStart(yoe + 1) - EpochDays
    BY <2>1 DEF MarchFirst
  <2>3. YearStart(yoe + 1) - YearStart(yoe)
          = 365 + (IF (yoe + 1) % 4 = 0 /\ (yoe + 1) % 100 # 0 THEN 1 ELSE 0)
    BY <1>1, <1>5, SMTT(20) DEF YearStart
  <2>4. YearStart(yoe) \in Int /\ YearStart(yoe + 1) \in Int
    BY <1>1, YearStartType
  <2>5. CASE Long(yoe)
    <3>1. MarchFirst(year + 1) = MarchFirst(year) + 366
      BY <1>1, <1>3, <1>5, <2>2, <2>3, <2>4, <2>5, SMTT(20) DEF EraDays, EpochDays, Long
    <3> QED BY <1>2, <2>5, <3>1, Zenon
  <2>6. CASE ~Long(yoe)
    <3>1. MarchFirst(year + 1) = MarchFirst(year) + 365
      BY <1>1, <1>3, <1>5, <2>2, <2>3, <2>4, <2>6, SMTT(20) DEF EraDays, EpochDays, Long
    <3> QED BY <1>2, <2>6, <3>1, Zenon
  <2> QED BY <2>5, <2>6
<1> QED BY <1>4, <1>5

\* A new month: either also of a new year of March, or with the days of the last.
LEMMA NextMonth ==
  ASSUME NEW month \in Int, 1 <= month, month <= 12, month # 2
  PROVE  LET next == IF month = 12 THEN 1 ELSE month + 1 IN
         MonthStart(SinceMarch(next))
           = MonthStart(SinceMarch(month)) + (IF month \in {4, 6, 9, 11} THEN 30 ELSE 31)
<1>1. month \in {1, 3, 4, 5, 6, 7, 8, 9, 10, 11, 12}
  OBVIOUS
<1> QED BY <1>1, SMTT(20) DEF MonthStart, SinceMarch

LEMMA OtherMonths ==
  ASSUME NEW year, NEW month \in Int, month # 2
  PROVE  DaysIn(year, month) = IF month \in {4, 6, 9, 11} THEN 30 ELSE 31
<1>1. CASE month \in {4, 6, 9, 11}
  BY <1>1, Zenon DEF DaysIn
<1>2. CASE month \notin {4, 6, 9, 11}
  BY <1>2, Zenon DEF DaysIn
<1> QED BY <1>1, <1>2, Zenon

\* The date after a date is the date of the day after.
LEMMA DayAfter ==
  ASSUME NEW d, IsDate(d)
  PROVE  IsDate(Tomorrow(d)) /\ DaysFromCivil(Tomorrow(d)) = DaysFromCivil(d) + 1
<1> DEFINE t == Tomorrow(d)
<1>1. PICK y \in Int, m \in Int, k \in Int : d = [year |-> y, month |-> m, day |-> k]
  BY DEF IsDate
<1>2. d.year = y /\ d.month = m /\ d.day = k
  BY <1>1
<1>3. 1 <= m /\ m <= 12 /\ 1 <= k /\ k <= DaysIn(y, m)
  BY <1>2 DEF IsDate
<1>4. /\ DaysIn(y, m) \in Int /\ 28 <= DaysIn(y, m)
      /\ m = 2 => DaysIn(y, m) = IF Leap(y) THEN 29 ELSE 28
      /\ m # 2 => DaysIn(y, m) = IF m \in {4, 6, 9, 11} THEN 30 ELSE 31
  <2>1. m = 2 => DaysIn(y, m) = IF Leap(y) THEN 29 ELSE 28
    BY February, Zenon
  <2>2. m # 2 => DaysIn(y, m) = IF m \in {4, 6, 9, 11} THEN 30 ELSE 31
    BY OtherMonths, Zenon
  <2>3. CASE m = 2 /\ Leap(y)
    BY <2>1, <2>2, <2>3
  <2>4. CASE m = 2 /\ ~Leap(y)
    BY <2>1, <2>2, <2>4
  <2>5. CASE m # 2
    BY <2>1, <2>2, <2>5
  <2> QED BY <2>3, <2>4, <2>5
<1>5. /\ MarchYear(d) = y - (IF m <= 2 THEN 1 ELSE 0)
      /\ MarchFirst(MarchYear(d)) \in Int /\ DayOfYear(d) \in Int
      /\ DaysFromCivil(d) = MarchFirst(MarchYear(d)) + DayOfYear(d)
      /\ DayOfYear(d) = MonthStart(SinceMarch(m)) + k - 1
  BY <1>2, DayNumber, Zenon DEF DayOfYear
<1>6. CASE k < DaysIn(y, m)
  <2>1. t = [year |-> y, month |-> m, day |-> k + 1]
    BY <1>1, <1>6 DEF Tomorrow
  <2> HIDE DEF t
  <2>2. t \in [year : Int, month : Int, day : Int] /\ t.year = y /\ t.month = m /\ t.day = k + 1
    BY <2>1
  <2>3. IsDate(t)
    BY <1>3, <1>4, <1>6, <2>2 DEF IsDate
  <2>4. DaysFromCivil(t) = MarchFirst(MarchYear(t)) + DayOfYear(t)
        /\ MarchYear(t) = MarchYear(d) /\ DayOfYear(t) = MonthStart(SinceMarch(m)) + (k + 1) - 1
    BY <1>5, <2>2, <2>3, DayNumber, Zenon DEF DayOfYear
  <2>5. MonthStart(SinceMarch(m)) \in Int
    BY <1>3 DEF MonthStart, SinceMarch
  <2>6. DaysFromCivil(t) = DaysFromCivil(d) + 1
    BY <1>5, <2>4, <2>5
  <2> QED BY <2>3, <2>6 DEF t
<1>7. CASE ~(k < DaysIn(y, m))
  <2> DEFINE next == IF m = 12 THEN 1 ELSE m + 1  year == IF m = 12 THEN y + 1 ELSE y
  <2>1. t = [year |-> year, month |-> next, day |-> 1]
    <3>1. CASE m < 12
      <4>1. t = [d EXCEPT !.month = @ + 1, !.day = 1]
        BY <1>2, <1>7, <3>1, Zenon DEF Tomorrow
      <4>2. year = y /\ next = m + 1
        BY <3>1
      <4> HIDE DEF t
      <4> QED BY <1>1, <4>1, <4>2
    <3>2. CASE ~(m < 12)
      <4>1. t = [year |-> y + 1, month |-> 1, day |-> 1]
        BY <1>2, <1>7, <3>2, Zenon DEF Tomorrow
      <4>2. year = y + 1 /\ next = 1
        BY <1>3, <3>2
      <4> QED BY <4>1, <4>2, Zenon
    <3> QED BY <3>1, <3>2
  <2> HIDE DEF t
  <2>2. year \in Int /\ next \in Int /\ 1 <= next /\ next <= 12
    <3>1. CASE m = 12
      BY <3>1
    <3>2. CASE m # 12
      BY <1>3, <3>2
    <3> QED BY <3>1, <3>2
  <2>3. k = DaysIn(y, m)
    BY <1>3, <1>4, <1>7
  <2>4. t \in [year : Int, month : Int, day : Int] /\ t.year = year /\ t.month = next /\ t.day = 1
    <3> HIDE DEF year, next
    <3> QED BY <2>1, <2>2
  <2>5. DaysIn(year, next) \in Int /\ 1 <= DaysIn(year, next)
    <3> HIDE DEF year, next
    <3>1. CASE next = 2 /\ Leap(year)
      BY <3>1, February
    <3>2. CASE next = 2 /\ ~Leap(year)
      BY <3>2, February
    <3>3. CASE next # 2
      BY <2>2, <3>3, OtherMonths
    <3> QED BY <3>1, <3>2, <3>3
  <2>6. IsDate(t)
    <3> HIDE DEF year, next
    <3> QED BY <2>2, <2>4, <2>5 DEF IsDate
  <2>7. /\ DaysFromCivil(t) = MarchFirst(MarchYear(t)) + DayOfYear(t)
        /\ MarchYear(t) = year - (IF next <= 2 THEN 1 ELSE 0)
        /\ DayOfYear(t) = MonthStart(SinceMarch(next)) + 1 - 1
    <3> HIDE DEF year, next
    <3> QED BY <2>4, <2>6, DayNumber, Zenon DEF DayOfYear
  <2>8. MonthStart(SinceMarch(m)) \in Int /\ MonthStart(SinceMarch(next)) \in Int
    <3> HIDE DEF next
    <3> QED BY <1>3, <2>2 DEF MonthStart, SinceMarch
  <2>9. CASE m = 2
    <3>1. MarchYear(d) = y - 1 /\ MarchYear(t) = y /\ next = 3
      BY <1>5, <2>7, <2>9
    <3>2. MarchFirst((y - 1) + 1) = MarchFirst(y - 1) + (IF Leap((y - 1) + 1) THEN 366 ELSE 365)
      <4>1. y - 1 \in Int
        OBVIOUS
      <4> HIDE DEF next, year
      <4> QED BY <4>1, NextYear, Zenon
    <3>3. (y - 1) + 1 = y
      OBVIOUS
    <3>4. MonthStart(SinceMarch(m)) = 337 /\ MonthStart(SinceMarch(next)) = 0
      BY <2>9, <3>1 DEF MonthStart, SinceMarch
    <3>5. CASE Leap(y)
      <4>1. MarchFirst(y) = MarchFirst(y - 1) + 366 /\ k = 29
        BY <1>4, <2>3, <2>9, <3>2, <3>3, <3>5, Zenon
      <4>2. DaysFromCivil(t) = DaysFromCivil(d) + 1
        BY <1>5, <2>7, <3>1, <3>4, <4>1
      <4> QED BY <2>6, <4>2 DEF t
    <3>6. CASE ~Leap(y)
      <4>1. MarchFirst(y) = MarchFirst(y - 1) + 365 /\ k = 28
        BY <1>4, <2>3, <2>9, <3>2, <3>3, <3>6, Zenon
      <4>2. DaysFromCivil(t) = DaysFromCivil(d) + 1
        BY <1>5, <2>7, <3>1, <3>4, <4>1
      <4> QED BY <2>6, <4>2 DEF t
    <3> QED BY <3>5, <3>6
  <2>10. CASE m # 2
    <3>1. MarchYear(t) = MarchYear(d)
      BY <1>3, <1>5, <2>7, <2>10
    <3>2. MonthStart(SinceMarch(next)) = MonthStart(SinceMarch(m)) + DaysIn(y, m)
      <4>1. MonthStart(SinceMarch(next))
              = MonthStart(SinceMarch(m)) + (IF m \in {4, 6, 9, 11} THEN 30 ELSE 31)
        BY <1>3, <2>10, NextMonth, Zenon
      <4> QED BY <1>4, <2>10, <4>1, Zenon
    <3>3. DaysFromCivil(t) = DaysFromCivil(d) + 1
      <4> HIDE DEF next
      <4> QED BY <1>4, <1>5, <2>3, <2>7, <2>8, <3>1, <3>2
    <3> QED BY <2>6, <3>3 DEF t
  <2> QED BY <2>9, <2>10
<1> QED BY <1>6, <1>7

\* The dates of the days follow one another as on the calendar
\* (civil_from_days).
THEOREM DaysFollow == \A n \in Int : CivilFromDays(n + 1) = Tomorrow(CivilFromDays(n))
<1> SUFFICES ASSUME NEW n \in Int PROVE CivilFromDays(n + 1) = Tomorrow(CivilFromDays(n))
  OBVIOUS
<1> DEFINE d == CivilFromDays(n)
<1>1. IsDate(d) /\ DaysFromCivil(d) = n
  BY DatesAreDays, Zenon
<1> HIDE DEF d
<1>2. IsDate(Tomorrow(d)) /\ DaysFromCivil(Tomorrow(d)) = n + 1
  BY <1>1, DayAfter, Zenon
<1>3. CivilFromDays(n + 1) = Tomorrow(d)
  BY <1>2, DatesAreDays, Zenon
<1> QED BY <1>3 DEF d

(***************************************************************************)
(* Civil and local times                                                   *)
(***************************************************************************)
\* The components of a time are those of a clock, and give the time back
\* (utc_components, parse_datetime).
THEOREM TimesAreDates ==
  ASSUME NEW t \in Int
  PROVE  /\ FromUtc(Utc(t)) = t /\ IsDate(Utc(t).date)
         /\ Utc(t).hour \in Int /\ 0 <= Utc(t).hour /\ Utc(t).hour <= 23
         /\ Utc(t).minute \in Int /\ 0 <= Utc(t).minute /\ Utc(t).minute <= 59
         /\ Utc(t).second \in Int /\ 0 <= Utc(t).second /\ Utc(t).second <= 59
<1> DEFINE n == t \div 86400  s == t % 86400
           h == s \div 3600  m == (s % 3600) \div 60  sec == s % 60  c == Utc(t)
<1>1. n \in Int /\ s \in Int /\ 0 <= s /\ s <= 86399 /\ t = n * 86400 + s
  BY SMTT(20)
<1>2. c = [date |-> CivilFromDays(n), hour |-> h, minute |-> m, second |-> sec]
  BY SMTT(20) DEF Utc
<1> HIDE DEF n, s
<1>3. /\ h \in Int /\ 0 <= h /\ h <= 23 /\ m \in Int /\ 0 <= m /\ m <= 59
      /\ sec \in Int /\ 0 <= sec /\ sec <= 59 /\ s = h * 3600 + m * 60 + sec
  BY <1>1, SMTT(20)
<1> HIDE DEF h, m, sec, c
<1>4. /\ c.date = CivilFromDays(n) /\ c.hour = h /\ c.minute = m /\ c.second = sec
  BY <1>2
<1>5. IsDate(CivilFromDays(n)) /\ DaysFromCivil(CivilFromDays(n)) = n
  BY <1>1, DatesAreDays, SMTT(20)
<1>6. FromUtc(c) = t
  BY <1>1, <1>3, <1>4, <1>5, SMTT(20) DEF FromUtc
<1> QED BY <1>3, <1>4, <1>5, <1>6, SMTT(20) DEF c

LEMMA OffsetIsOne ==
  ASSUME ZoneAssumption, ~NoZone, NEW t \in Int
  PROVE  OffsetAt(t) \in Int /\ OffsetAt(t) \in Offsets
<1> DEFINE T == {i \in 1..Len(Zone) : i = 1 \/ Zone[i].from <= t}
           good(i) == /\ i = 1 \/ Zone[i].from <= t
                      /\ \A j \in (i + 1)..Len(Zone) : t < Zone[j].from
<1>1. Len(Zone) \in Nat /\ Len(Zone) >= 1 /\ DOMAIN Zone = 1..Len(Zone)
      /\ \A i \in DOMAIN Zone : Zone[i].from \in Int /\ Zone[i].offset \in Int
  <2> DEFINE R == [from : Int, offset : Int]
  <2>1. Zone \in Seq(R) /\ Zone # << >>
    BY Zenon DEF ZoneAssumption, NoZone
  <2> HIDE DEF R
  <2>2. /\ Len(Zone) \in Nat /\ Len(Zone) >= 1 /\ DOMAIN Zone = 1..Len(Zone)
        /\ \A i \in 1..Len(Zone) : Zone[i] \in R
    BY <2>1
  <2>3. \A z \in R : z.from \in Int /\ z.offset \in Int
    BY DEF R
  <2> QED BY <2>2, <2>3
<1>2. T \in SUBSET (1..Len(Zone)) /\ T # {}
  BY <1>1
<1>3. PICK i \in T : \A j \in T : i >= j
  <2> HIDE DEF T
  <2> QED BY <1>1, <1>2, GreatestOf
<1>4. i \in DOMAIN Zone /\ good(i)
  <2>1. \A j \in (i + 1)..Len(Zone) : j \notin T /\ j \in 1..Len(Zone) /\ j # 1
    BY <1>1, <1>3
  <2>2. \A j \in (i + 1)..Len(Zone) : t < Zone[j].from
    BY <1>1, <2>1
  <2> QED BY <1>1, <1>3, <2>2
<1> DEFINE k == CHOOSE l \in DOMAIN Zone : good(l)
<1> HIDE DEF good
<1>5. k \in DOMAIN Zone
  BY <1>4, Zenon
<1>6. OffsetAt(t) = Zone[k].offset
  BY Zenon DEF OffsetAt, good
<1> HIDE DEF k
<1> QED BY <1>1, <1>5, <1>6 DEF Offsets

LEMMA OffsetsType == ASSUME ZoneAssumption PROVE Offsets \subseteq Int
<1> DEFINE R == [from : Int, offset : Int]
<1>1. Zone \in Seq(R)
  BY Zenon DEF ZoneAssumption
<1>2. \A z \in R : z.offset \in Int
  BY DEF R
<1> HIDE DEF R
<1>3. \A i \in DOMAIN Zone : Zone[i] \in R
  BY <1>1
<1> QED BY <1>2, <1>3 DEF Offsets

\* A time that is written and read back is one that a clock on the wall shows
\* alike, and the same time if there is only one: none is lost in the gap of a
\* spring, whatever the zone (format_timestamp, parse_datetime).
THEOREM ReadingsSurvive ==
  ASSUME ZoneAssumption, NEW t \in Int
  PROVE  /\ t \in ParseDatetime(FormatTimestamp(t))
         /\ \A u \in ParseDatetime(FormatTimestamp(t)) : u \in Int /\ Reading(u) = Reading(t)
<1> DEFINE r == Reading(t)
<1>1. r \in Int
  BY OffsetIsOne DEF Reading
<1>2. ParseDatetime(FormatTimestamp(t)) = MkTime(r)
  BY <1>1, TimesAreDates, Zenon DEF ParseDatetime, FormatTimestamp
<1>3. CASE NoZone
  BY <1>2, <1>3 DEF MkTime, Reading
<1>4. CASE ~NoZone
  <2> DEFINE ts == {u \in {r - o : o \in Offsets} : Reading(u) = r}
  <2>1. OffsetAt(t) \in Offsets /\ OffsetAt(t) \in Int /\ r = t + OffsetAt(t)
    BY <1>4, OffsetIsOne DEF Reading
  <2> HIDE DEF r
  <2>2. t = r - OffsetAt(t) /\ Reading(t) = r
    BY <2>1 DEF r
  <2>3. t \in ts
    BY <2>1, <2>2
  <2>4. MkTime(r) = ts
    BY <1>4, <2>3, Zenon DEF MkTime
  <2>5. \A u \in ts : u \in Int /\ Reading(u) = r
    BY <1>1, <1>4, OffsetsType
  <2> QED BY <1>2, <2>3, <2>4, <2>5, Zenon DEF r
<1> QED BY <1>3, <1>4
(***************************************************************************)
(* Records as texts                                                        *)
(***************************************************************************)
\* What may be read for the time t of a record.
Kept(t, read) == t \in read /\ \A u \in read : SameTime("gdbm", t, u)

LEMMA TimeKept ==
  ASSUME ZoneAssumption, NEW t \in Times, NEW none
  PROVE  Kept(t, DecodeTime(EncodeTime(t, none)))
<1>1. NoTime \notin Int
  BY RecordsAssumption
<1>2. CASE t = NoTime
  <2>1. DecodeTime(Word(none)) = {NoTime}
    BY DEF DecodeTime, Word
  <2> QED BY <1>2, <2>1 DEF EncodeTime, Kept, SameTime, Epoch
<1>3. CASE t # NoTime
  <2>1. t \in Int
    BY <1>3 DEF Times
  <2>2. DecodeTime(DateTime(t)) = ParseDatetime(FormatTimestamp(t))
    BY Zenon DEF DecodeTime, DateTime
  <2>3. \A u \in ParseDatetime(FormatTimestamp(t)) : SameTime("gdbm", t, u)
    BY <1>1, <1>3, <2>1, ReadingsSurvive DEF SameTime, Epoch
  <2> QED BY <1>3, <2>1, <2>2, <2>3, ReadingsSurvive DEF EncodeTime, Kept
<1> QED BY <1>2, <1>3

LEMMA ColumnKept ==
  ASSUME ZoneAssumption, NEW t \in Times
  PROVE  LET text == EncodeTime(t, "NULL") IN
         (Null(text) \/ text.form = "datetime") /\ Kept(t, NullableTime(text))
<1>1. NoTime \notin Int
  BY RecordsAssumption
<1>2. CASE t = NoTime
  <2>1. Null(Word("NULL"))
    BY DEF Null, Word
  <2> QED BY <1>2, <2>1 DEF EncodeTime, NullableTime, Kept, SameTime, Epoch
<1>3. CASE t # NoTime
  <2>1. t \in Int
    BY <1>3 DEF Times
  <2>2. ~Null(DateTime(t)) /\ DateTime(t).form = "datetime" /\ DateTime(t).at = FormatTimestamp(t)
    BY DEF Null, DateTime
  <2>3. \A u \in ParseDatetime(FormatTimestamp(t)) : SameTime("gdbm", t, u)
    BY <1>1, <1>3, <2>1, ReadingsSurvive DEF SameTime, Epoch
  <2> QED BY <1>3, <2>1, <2>2, <2>3, ReadingsSurvive DEF EncodeTime, NullableTime, Kept
<1> QED BY <1>2, <1>3

\* The records read are rec, or one that shows the same.
KeptRecord(codec, rec, copies) == rec \in copies /\ \A copy \in copies : SameRecord(codec, rec, copy)

LEMMA FieldsKept ==
  ASSUME NEW rec \in Record, NEW re, NEW ru, NEW we, NEW wu,
         Kept(rec.r_entered, re), Kept(rec.r_updated, ru),
         Kept(rec.wl_entered, we), Kept(rec.wl_updated, wu),
         NEW codec \in {"gdbm", "redis_v0", "mysql"}
  PROVE  KeptRecord(codec, rec, RecordsOf(rec.r_count, re, ru, rec.wl_count, we, wu))
<1> DEFINE copies == RecordsOf(rec.r_count, re, ru, rec.wl_count, we, wu)
<1>1. rec = [r_count |-> rec.r_count, wl_count |-> rec.wl_count, r_entered |-> rec.r_entered,
             r_updated |-> rec.r_updated, wl_entered |-> rec.wl_entered, wl_updated |-> rec.wl_updated]
  BY DEF Record
<1>2. rec.r_entered \in re /\ rec.r_updated \in ru /\ rec.wl_entered \in we /\ rec.wl_updated \in wu
  BY DEF Kept
<1>3. rec \in copies
  BY <1>1, <1>2 DEF RecordsOf
<1>4. ASSUME NEW copy \in copies PROVE SameRecord(codec, rec, copy)
  <2>1. /\ copy.r_count = rec.r_count /\ copy.wl_count = rec.wl_count
        /\ copy.r_entered \in re /\ copy.r_updated \in ru
        /\ copy.wl_entered \in we /\ copy.wl_updated \in wu
    BY <1>4 DEF RecordsOf
  <2>2. /\ SameTime("gdbm", rec.r_entered, copy.r_entered) /\ SameTime("gdbm", rec.r_updated, copy.r_updated)
        /\ SameTime("gdbm", rec.wl_entered, copy.wl_entered) /\ SameTime("gdbm", rec.wl_updated, copy.wl_updated)
    BY <2>1 DEF Kept
  <2>3. \A t, u : SameTime("gdbm", t, u) => SameTime(codec, t, u)
    BY DEF SameTime, Epoch
  <2>4. /\ SameTime(codec, rec.r_entered, copy.r_entered) /\ SameTime(codec, rec.r_updated, copy.r_updated)
        /\ SameTime(codec, rec.wl_entered, copy.wl_entered) /\ SameTime(codec, rec.wl_updated, copy.wl_updated)
    BY <2>2, <2>3, Zenon
  <2> QED BY <2>1, <2>4, Zenon DEF SameRecord
<1> HIDE DEF copies
<1> QED BY <1>3, <1>4 DEF KeptRecord, copies

LEMMA SixKept ==
  ASSUME ZoneAssumption, NEW rec \in Record, NEW none, NEW codec \in {"gdbm", "redis_v0"}
  PROVE  KeptRecord(codec, rec, DecodeSix(EncodeFields(rec, none)))
<1> DEFINE f == EncodeFields(rec, none)
<1>1. /\ f[1] = Number(rec.r_count) /\ f[2] = EncodeTime(rec.r_entered, none)
      /\ f[3] = EncodeTime(rec.r_updated, none) /\ f[4] = Number(rec.wl_count)
      /\ f[5] = EncodeTime(rec.wl_entered, none) /\ f[6] = EncodeTime(rec.wl_updated, none)
  BY DEF EncodeFields
<1> HIDE DEF f
<1>2. /\ rec.r_count \in Int /\ rec.r_count <= MaxCount /\ rec.wl_count \in Int /\ rec.wl_count <= MaxCount
      /\ rec.r_entered \in Times /\ rec.r_updated \in Times
      /\ rec.wl_entered \in Times /\ rec.wl_updated \in Times
  BY DEF Record, Counts
<1>3. /\ IsCount(f[1]) /\ IsCount(f[4]) /\ f[1].n = rec.r_count /\ f[4].n = rec.wl_count
  BY <1>1, <1>2 DEF IsCount, Number
<1>4. DecodeSix(f) = RecordsOf(rec.r_count, DecodeTime(f[2]), DecodeTime(f[3]),
                               rec.wl_count, DecodeTime(f[5]), DecodeTime(f[6]))
  BY <1>3, Zenon DEF DecodeSix
<1>5. /\ Kept(rec.r_entered, DecodeTime(f[2])) /\ Kept(rec.r_updated, DecodeTime(f[3]))
      /\ Kept(rec.wl_entered, DecodeTime(f[5])) /\ Kept(rec.wl_updated, DecodeTime(f[6]))
  BY <1>1, <1>2, TimeKept, Zenon
<1>6. KeptRecord(codec, rec, RecordsOf(rec.r_count, DecodeTime(f[2]), DecodeTime(f[3]),
                                       rec.wl_count, DecodeTime(f[5]), DecodeTime(f[6])))
  BY <1>5, FieldsKept, Zenon
<1> QED BY <1>4, <1>6, Zenon DEF f

LEMMA LineRest ==
  ASSUME NEW S, NEW one \in S, NEW f \in Seq(S), Len(f) = 6
  PROVE  LET g == <<one>> \o f IN Len(g) = 7 /\ g[1] = one /\ Tail(g) = f
<1> DEFINE v == <<one>>  g == v \o f  rest == Tail(g)
<1>1. v \in Seq(S) /\ Len(v) = 1 /\ v[1] = one
  OBVIOUS
<1> HIDE DEF v
<1>2. /\ g \in Seq(S) /\ Len(g) = Len(v) + Len(f)
      /\ \A i \in 1..Len(v) + Len(f) : g[i] = IF i <= Len(v) THEN v[i] ELSE f[i - Len(v)]
  BY <1>1, ConcatProperties, Zenon
<1> HIDE DEF g
<1>3. Len(g) = 7 /\ \A i \in 1..7 : g[i] = IF i <= 1 THEN v[i] ELSE f[i - 1]
  <2>1. Len(v) + Len(f) = 7
    BY <1>1
  <2> QED BY <1>1, <1>2, <2>1
<1>4. g # << >>
  <2>1. Len(g) # 0
    BY <1>3
  <2>2. Len(<< >>) = 0
    OBVIOUS
  <2> QED BY <2>1, <2>2, Zenon
<1>5. rest \in Seq(S) /\ Len(rest) = Len(g) - 1 /\ \A i \in 1..Len(rest) : rest[i] = g[i + 1]
  BY <1>2, <1>4, HeadTailProperties, Zenon
<1> HIDE DEF rest
<1>6. Len(rest) = 6 /\ \A i \in 1..6 : rest[i] = f[i]
  BY <1>3, <1>5
<1>7. rest = f
  BY <1>5, <1>6, SeqEqual
<1>8. Len(g) = 7 /\ g[1] = one
  BY <1>1, <1>3
<1> QED BY <1>7, <1>8, Zenon DEF g, v, rest

\* Whatever an engine has stored of a record, gdbm and FileDatabase as a line,
\* Redis as a string or a hash, MySQL as a row, is read as that record, but for a
\* time of the hour that the clocks repeat, and the time 0 in a hash (encode_record,
\* decode_record and their counterparts).
THEOREM RecordsSurvive ==
  ASSUME ZoneAssumption, NEW rec \in Record
  PROVE  /\ KeptRecord("gdbm", rec, DecodeRecord(EncodeRecord(rec)))
         /\ KeptRecord("redis_v0", rec, RedisV0Decode(RedisV0Encode(rec)))
         /\ KeptRecord("mysql", rec, ParseRow(Row(rec)))
         /\ RedisV1Decode(RedisV1Encode(rec)) # {}
         /\ \A copy \in RedisV1Decode(RedisV1Encode(rec)) : SameRecord("redis", rec, copy)
<1>0. /\ rec.r_count \in Int /\ rec.r_count <= MaxCount /\ rec.wl_count \in Int /\ rec.wl_count <= MaxCount
      /\ rec.r_entered \in Times /\ rec.r_updated \in Times
      /\ rec.wl_entered \in Times /\ rec.wl_updated \in Times
  BY DEF Record, Counts
<1>1. KeptRecord("gdbm", rec, DecodeRecord(EncodeRecord(rec)))
  <2> DEFINE f == EncodeFields(rec, "None")  one == Number(1)  g == <<one>> \o f
  <2>1. PICK S : f \in Seq(S) /\ one \in S
    <3> DEFINE T == {f[i] : i \in 1..6} \cup {one}
    <3>1. f \in Seq(T)
      BY DEF EncodeFields
    <3> QED BY <3>1
  <2>2. Len(f) = 6
    BY DEF EncodeFields
  <2> HIDE DEF f, one
  <2>3. Len(g) = 7 /\ g[1] = one /\ Tail(g) = f
    BY <2>1, <2>2, LineRest
  <2> HIDE DEF g
  <2>4. DecodeRecord(g) = DecodeSix(f)
    <3>1. Len(g) # 3
      BY <2>3
    <3> QED BY <2>3, <3>1, Zenon DEF DecodeRecord, one
  <2>5. EncodeRecord(rec) = g
    BY Zenon DEF EncodeRecord, f, g, one
  <2> QED BY <2>4, <2>5, SixKept, Zenon DEF f
<1>2. KeptRecord("redis_v0", rec, RedisV0Decode(RedisV0Encode(rec)))
  <2>1. Len(EncodeFields(rec, "")) = 6
    BY DEF EncodeFields
  <2>2. RedisV0Decode(RedisV0Encode(rec)) = DecodeSix(EncodeFields(rec, ""))
    BY <2>1, Zenon DEF RedisV0Decode, RedisV0Encode
  <2> QED BY <2>2, SixKept, Zenon
<1>3. KeptRecord("mysql", rec, ParseRow(Row(rec)))
  <2> DEFINE row == Row(rec)
  <2>1. /\ Len(row) = 6 /\ row[1] = Number(rec.r_count) /\ row[2] = Number(rec.wl_count)
        /\ row[3] = EncodeTime(rec.r_entered, "NULL") /\ row[4] = EncodeTime(rec.r_updated, "NULL")
        /\ row[5] = EncodeTime(rec.wl_entered, "NULL") /\ row[6] = EncodeTime(rec.wl_updated, "NULL")
    BY DEF Row, Columns, MySqlText
  <2> HIDE DEF row
  <2>2. /\ ~Null(row[1]) /\ IsCount(row[1]) /\ row[1].n = rec.r_count
        /\ ~Null(row[2]) /\ IsCount(row[2]) /\ row[2].n = rec.wl_count
    BY <1>0, <2>1 DEF Null, IsCount, Number
  <2>3. /\ Kept(rec.r_entered, NullableTime(row[3])) /\ Kept(rec.r_updated, NullableTime(row[4]))
        /\ Kept(rec.wl_entered, NullableTime(row[5])) /\ Kept(rec.wl_updated, NullableTime(row[6]))
        /\ Null(row[3]) \/ row[3].form = "datetime"
        /\ Null(row[4]) \/ row[4].form = "datetime"
        /\ Null(row[5]) \/ row[5].form = "datetime"
        /\ Null(row[6]) \/ row[6].form = "datetime"
    BY <1>0, <2>1, ColumnKept, Zenon
  <2>4. \A i \in 3..6 : Null(row[i]) \/ row[i].form = "datetime"
    <3>1. \A i \in 3..6 : i = 3 \/ i = 4 \/ i = 5 \/ i = 6
      OBVIOUS
    <3> QED BY <2>3, <3>1, Zenon
  <2>5. \A i \in {1, 2} : Null(row[i]) \/ IsCount(row[i])
    BY <2>2
  <2>6. ParseRow(row) = RecordsOf(rec.r_count, NullableTime(row[3]), NullableTime(row[4]),
                                  rec.wl_count, NullableTime(row[5]), NullableTime(row[6]))
    BY <2>1, <2>2, <2>4, <2>5, Zenon DEF ParseRow
  <2>7. KeptRecord("mysql", rec, RecordsOf(rec.r_count, NullableTime(row[3]), NullableTime(row[4]),
                                           rec.wl_count, NullableTime(row[5]), NullableTime(row[6])))
    BY <2>3, FieldsKept, Zenon
  <2> QED BY <2>6, <2>7, Zenon DEF row
<1>4. /\ RedisV1Decode(RedisV1Encode(rec)) # {}
      /\ \A copy \in RedisV1Decode(RedisV1Encode(rec)) : SameRecord("redis", rec, copy)
  <2> DEFINE hash == RedisV1Encode(rec)
             read(t) == IF t = NoTime \/ t = 0 THEN NoTime ELSE t
             copied == [r_count |-> rec.r_count, wl_count |-> rec.wl_count,
                        r_entered |-> read(rec.r_entered), r_updated |-> read(rec.r_updated),
                        wl_entered |-> read(rec.wl_entered), wl_updated |-> read(rec.wl_updated)]
  <2>1. DOMAIN hash = {"r_count", "wl_count", "r_entered", "r_updated", "wl_entered", "wl_updated"}
    BY DEF RedisV1Encode
  <2>2. \A n \in Int : DecodeTime(Number(n)) = {IF n = 0 THEN NoTime ELSE n}
    BY DEF DecodeTime, Number
  <2>3. /\ hash["r_count"] = Number(rec.r_count) /\ hash["wl_count"] = Number(rec.wl_count)
        /\ DecodeTime(hash["r_entered"]) = {read(rec.r_entered)}
        /\ DecodeTime(hash["r_updated"]) = {read(rec.r_updated)}
        /\ DecodeTime(hash["wl_entered"]) = {read(rec.wl_entered)}
        /\ DecodeTime(hash["wl_updated"]) = {read(rec.wl_updated)}
    BY <1>0, <2>2 DEF RedisV1Encode, Times
  <2>4. /\ IsCount(hash["r_count"]) /\ hash["r_count"].n = rec.r_count
        /\ IsCount(hash["wl_count"]) /\ hash["wl_count"].n = rec.wl_count
    BY <1>0, <2>3 DEF IsCount, Number
  <2> HIDE DEF hash, read
  <2>5. RedisV1Decode(hash) = RecordsOf(rec.r_count, {read(rec.r_entered)}, {read(rec.r_updated)},
                                        rec.wl_count, {read(rec.wl_entered)}, {read(rec.wl_updated)})
    BY <2>1, <2>3, <2>4, SMTT(20) DEF RedisV1Decode
  <2>6. copied \in RedisV1Decode(hash)
    BY <2>5 DEF RecordsOf
  <2>7. ASSUME NEW copy \in RedisV1Decode(hash)
        PROVE  SameRecord("redis", rec, copy)
    <3>1. /\ copy.r_count = rec.r_count /\ copy.wl_count = rec.wl_count
          /\ copy.r_entered = read(rec.r_entered) /\ copy.r_updated = read(rec.r_updated)
          /\ copy.wl_entered = read(rec.wl_entered) /\ copy.wl_updated = read(rec.wl_updated)
      BY <2>5, <2>7, SMTT(20) DEF RecordsOf
    <3>2. \A t : SameTime("redis", t, read(t))
      BY DEF SameTime, Epoch, read
    <3> QED BY <3>1, <3>2, Zenon DEF SameRecord
  <2> QED BY <2>6, <2>7, Zenon DEF hash
<1> QED BY <1>1, <1>2, <1>3, <1>4

(***************************************************************************)
(* Signatures                                                              *)
(***************************************************************************)
LEMMA SmallRemainder ==
  ASSUME NEW M \in Nat \ {0}, NEW a \in Nat, a < M
  PROVE  a % M = a
<1> DEFINE q == a \div M  r == a % M
<1>1. q \in Int /\ r \in Int /\ a = M * q + r /\ 0 <= r /\ r < M
  BY SMTT(20)
<1> HIDE DEF q, r
<1>2. ~(q >= 1)
  <2> SUFFICES ASSUME q >= 1 PROVE FALSE
    OBVIOUS
  <2>1. M * q >= M
    BY <1>1, SMTT(20)
  <2> QED BY <1>1, <2>1
<1>3. ~(q <= -1)
  <2> SUFFICES ASSUME q <= -1 PROVE FALSE
    OBVIOUS
  <2>1. M * q <= -M
    BY <1>1, SMTT(20)
  <2> QED BY <1>1, <2>1
<1>4. q = 0
  BY <1>1, <1>2, <1>3
<1>5. r = a
  BY <1>1, <1>4
<1> QED BY <1>5 DEF r

LEMMA WrappedOnce ==
  ASSUME NEW P \in Nat \ {0}, P = 2^(Width - 1), 2^Width = 2 * P, NEW n \in Int,
         -P <= n, n <= 2 * P
  PROVE  Wrapped(n) = IF n < P THEN n ELSE n - 2 * P
<1>1. Wrapped(n) = ((n + P) % (2 * P)) - P
  BY Zenon DEF Wrapped
<1>2. CASE n < P
  <2> DEFINE M == 2 * P  a == n + P
  <2>1. M \in Nat \ {0} /\ a \in Nat /\ a < M
    BY <1>2
  <2>2. a % M = a
    <3> HIDE DEF M, a
    <3> QED BY <2>1, SmallRemainder
  <2>3. Wrapped(n) = a - P
    BY <1>1, <2>2, Zenon
  <2>4. a - P = n
    OBVIOUS
  <2> HIDE DEF M, a
  <2> QED BY <1>2, <2>3, <2>4
<1>3. CASE n >= P
  <2>1. (n + P) % (2 * P) = n - P
    BY <1>3, SMTT(20)
  <2> QED BY <1>1, <1>3, <2>1
<1> QED BY <1>2, <1>3

\* When a time is taken for near: it is, or it is so long before 1970 that the
\* difference wraps.
Near(now, timestamp, P) ==
    \/ timestamp - MaxTimestampDifference <= now /\ now <= timestamp + MaxTimestampDifference
    \/ now - timestamp = P
    \/ 2 * P - (now - timestamp) <= MaxTimestampDifference

LEMMA NearOrNot ==
  ASSUME MaxTimestampDifference \in Nat, NEW P \in Nat \ {0}, P = 2^(Width - 1), 2^Width = 2 * P,
         NEW now \in Int, 0 <= now, now < P, NEW timestamp \in Int, -P <= timestamp, timestamp < P
  PROVE  /\ Overflows(now, timestamp) <=> now - timestamp >= P
         /\ Distance(now, timestamp) <= MaxTimestampDifference <=> Near(now, timestamp, P)
<1> DEFINE d == now - timestamp  w == Wrapped(d)  M == MaxTimestampDifference
           far == \/ d <= M /\ -d <= M
                  \/ d = P
                  \/ 2 * P - d <= M
<1>1. d \in Int /\ -P < d /\ d < 2 * P /\ M \in Nat
  OBVIOUS
<1>2. w = IF d < P THEN d ELSE d - 2 * P
  <2>1. d \in Int /\ -P <= d /\ d <= 2 * P
    BY <1>1
  <2> HIDE DEF d, w
  <2> QED BY <2>1, WrappedOnce DEF w
<1>3. Distance(now, timestamp) = Wrapped(Abs(w))
  BY Zenon DEF Distance
<1>4. Overflows(now, timestamp) <=> w # d \/ d = -P
  BY Zenon DEF Overflows
<1>5. Near(now, timestamp, P) <=> far
  BY DEF Near
<1> HIDE DEF d, w, M
<1>6. Overflows(now, timestamp) <=> d >= P
  BY <1>1, <1>2, <1>4
<1>7. Wrapped(Abs(w)) <= M <=> far
  <2>1. CASE d < P
    <3>1. w = d
      BY <1>2, <2>1
    <3>2. /\ Abs(d) \in Int /\ -P <= Abs(d) /\ Abs(d) < P
          /\ Abs(d) <= M <=> d <= M /\ -d <= M
      BY <1>1, <2>1 DEF Abs
    <3>3. Wrapped(Abs(d)) = Abs(d)
      <4>1. Abs(d) <= 2 * P
        BY <3>2
      <4> QED BY <3>2, <4>1, WrappedOnce
    <3>4. 2 * P - d <= M => d <= M /\ -d <= M
      BY <1>1, <2>1
    <3>5. d # P
      BY <2>1
    <3> QED BY <3>1, <3>2, <3>3, <3>4, <3>5
  <2>2. CASE d > P
    <3>1. w = d - 2 * P
      BY <1>1, <1>2, <2>2
    <3>2. Abs(w) = 2 * P - d /\ Abs(w) \in Int /\ -P <= Abs(w) /\ Abs(w) < P
      BY <1>1, <2>2, <3>1 DEF Abs
    <3>3. Wrapped(Abs(w)) = Abs(w)
      <4>1. Abs(w) <= 2 * P
        BY <3>2
      <4> QED BY <3>2, <4>1, WrappedOnce
    <3>4. d <= M => 2 * P - d <= M
      BY <1>1, <2>2
    <3> QED BY <2>2, <3>2, <3>3, <3>4
  <2>3. CASE d = P
    <3>1. w = -P /\ Abs(w) = P /\ P \in Int
      BY <1>1, <1>2, <2>3 DEF Abs
    <3>2. Wrapped(P) = -P
      <4>1. Wrapped(P) = IF P < P THEN P ELSE P - 2 * P
        <5>1. -P <= P /\ P <= 2 * P /\ P \in Int
          OBVIOUS
        <5> QED BY <5>1, WrappedOnce
      <4> QED BY <4>1
    <3> QED BY <1>1, <2>3, <3>1, <3>2
  <2> QED BY <1>1, <2>1, <2>2, <2>3
<1> QED BY <1>3, <1>5, <1>6, <1>7, Zenon DEF d, M

\* An accepted signature is one of this key, of the user named and of what the
\* message says, and as old as is allowed.  Only a build without overflow checks
\* accepts others, whose times are so long before 1970 that the difference wraps
\* (verify of account.rs).  P is half the range of a timestamp; the first two
\* facts about it are arithmetic.
THEOREM VerifiedIsTimely ==
  ASSUME NEW P \in Nat \ {0}, P = 2^(Width - 1), 2^Width = 2 * P,
         NEW now \in Int, 0 <= now, now < P, NEW timestamp \in Int, -P <= timestamp, timestamp < P,
         NEW msg, NEW key, NEW checks \in BOOLEAN, FirstOf(msg, "Time") = <<Number(timestamp)>>,
         VerifySignature(msg, key, now, checks) = "ok"
  PROVE  /\ FirstOf(msg, "Sig") = <<SignMsg(HashKey(key, FirstOf(msg, "User")), timestamp,
                                            RemoveAll(msg, "Sig"))>>
         /\ \/ timestamp - MaxTimestampDifference <= now /\ now <= timestamp + MaxTimestampDifference
            \/ /\ ~checks
               /\ \/ now - timestamp = P
                  \/ 2 * P - (now - timestamp) <= MaxTimestampDifference
<1>1. FirstOf(msg, "Time")[1].n = timestamp
  BY DEF Number
<1>2. /\ ~(checks /\ Overflows(now, timestamp))
      /\ Distance(now, timestamp) <= MaxTimestampDifference
      /\ FirstOf(msg, "Sig") = <<SignMsg(HashKey(key, FirstOf(msg, "User")), timestamp,
                                         RemoveAll(msg, "Sig"))>>
  BY <1>1, Zenon DEF VerifySignature
<1>3. MaxTimestampDifference \in Nat
  BY WireAssumption
<1>4. /\ Overflows(now, timestamp) <=> now - timestamp >= P
      /\ Distance(now, timestamp) <= MaxTimestampDifference <=> Near(now, timestamp, P)
  BY <1>3, NearOrNot
<1>5. Near(now, timestamp, P) /\ (checks => now - timestamp < P)
  <2>1. Near(now, timestamp, P) /\ ~(checks /\ now - timestamp >= P)
    BY <1>2, <1>4, Zenon
  <2> QED BY <2>1
<1>6. CASE checks
  <2>1. timestamp - MaxTimestampDifference <= now /\ now <= timestamp + MaxTimestampDifference
    <3>1. now - timestamp < P
      BY <1>5, <1>6
    <3> QED BY <1>3, <1>5, <3>1 DEF Near
  <2> QED BY <1>2, <2>1
<1>7. CASE ~checks
  <2>1. \/ timestamp - MaxTimestampDifference <= now /\ now <= timestamp + MaxTimestampDifference
        \/ now - timestamp = P
        \/ 2 * P - (now - timestamp) <= MaxTimestampDifference
    BY <1>5, Zenon DEF Near
  <2> QED BY <1>2, <1>7, <2>1, Zenon
<1> QED BY <1>6, <1>7

(***************************************************************************)
(* clean_legacy_packet                                                     *)
(***************************************************************************)
Fresh == [out |-> << >>, paired |-> FALSE]
CleanStates(S) == [out : Seq(S), paired : BOOLEAN]
CleanStep(S) == [p \in CleanStates(S) \X S |-> Cleaned(p[1], p[2])]
CleanOf(S, text) == FoldOf(CleanStep(S), Fresh, text)
Cleans(acc, packet) ==
    acc = [n \in 0..Len(packet) |-> IF n = 0 THEN Fresh ELSE Cleaned(acc[n - 1], packet[n])]

LEMMA CleanedType ==
  ASSUME NEW S, NEW acc \in CleanStates(S), NEW token \in S
  PROVE  Cleaned(acc, token) \in CleanStates(S)
<1>1. acc.out \in Seq(S) /\ acc = [out |-> acc.out, paired |-> acc.paired]
  BY DEF CleanStates
<1>2. Append(acc.out, token) \in Seq(S)
  BY <1>1, AppendProperties
<1> QED BY <1>1, <1>2 DEF Cleaned, CleanStates

LEMMA CleanStepping ==
  ASSUME NEW S
  PROVE  /\ Stepping(CleanStep(S), CleanStates(S), S) /\ Fresh \in CleanStates(S)
         /\ \A acc \in CleanStates(S), token \in S : CleanStep(S)[<<acc, token>>] = Cleaned(acc, token)
<1> DEFINE V == CleanStates(S)
<1>0. Fresh \in V
  BY DEF Fresh, CleanStates
<1> HIDE DEF V
<1>1. \A p \in V \X S : Cleaned(p[1], p[2]) \in V
  <2>1. \A p \in V \X S : p[1] \in V /\ p[2] \in S
    OBVIOUS
  <2> QED BY <2>1, CleanedType, Zenon DEF V
<1>2. Stepping(CleanStep(S), V, S)
  BY <1>1, Zenon DEF Stepping, CleanStep, V
<1>3. \A acc \in V, token \in S : <<acc, token>> \in V \X S /\ <<acc, token>>[1] = acc /\ <<acc, token>>[2] = token
  OBVIOUS
<1>4. \A acc \in V, token \in S : CleanStep(S)[<<acc, token>>] = Cleaned(acc, token)
  BY <1>3, Zenon DEF CleanStep, V
<1> QED BY <1>0, <1>2, <1>4 DEF V

LEMMA CleanFolds ==
  ASSUME NEW S, NEW packet \in Seq(S)
  PROVE  /\ CleanLegacyPacket(packet) = Append(CleanOf(S, packet).out, NewLine)
         /\ CleanOf(S, packet) \in CleanStates(S)
<1> DEFINE V == CleanStates(S)  step == CleanStep(S)
           c == CHOOSE f : Cleans(f, packet)
<1>1. Stepping(step, V, S) /\ Fresh \in V /\ \A acc \in V, token \in S : step[<<acc, token>>] = Cleaned(acc, token)
  BY CleanStepping
<1>2. CleanLegacyPacket(packet) = Append(c[Len(packet)].out, NewLine)
  BY Zenon DEF CleanLegacyPacket, Cleans, Fresh
<1> HIDE DEF V, step, c
<1>3. PICK g \in [0..Len(packet) -> V] : Recursive(g, step, Fresh, packet)
  BY <1>1, FoldDefined
<1>4. \A n \in 0..Len(packet) : g[n] = FoldStep(g, step, Fresh, packet, n)
  BY <1>3, Zenon DEF Recursive
<1>5. Cleans(g, packet)
  <2>1. ASSUME NEW n \in 0..Len(packet)
        PROVE  g[n] = IF n = 0 THEN Fresh ELSE Cleaned(g[n - 1], packet[n])
    <3>1. CASE n = 0
      BY <1>4, <3>1, Zenon DEF FoldStep
    <3>2. CASE n # 0
      <4>1. n - 1 \in 0..Len(packet) /\ packet[n] \in S
        BY <3>2
      <4>2. g[n - 1] \in V
        BY <4>1
      <4> QED BY <1>1, <1>4, <3>2, <4>1, <4>2, Zenon DEF FoldStep
    <3> QED BY <3>1, <3>2
  <2>2. g = [n \in 0..Len(packet) |-> g[n]]
    OBVIOUS
  <2> QED BY <2>1, <2>2, Zenon DEF Cleans
<1>6. Cleans(c, packet)
  BY <1>5, Zenon DEF c
<1>7. Folds(c, V, step, Fresh, packet)
  <2>1. /\ 0 \in 0..Len(packet)
        /\ \A n \in 0..(Len(packet) - 1) :
             n + 1 \in 0..Len(packet) /\ n + 1 # 0 /\ (n + 1) - 1 = n /\ packet[n + 1] \in S
    OBVIOUS
  <2>2. c[0] = Fresh /\ \A n \in 0..(Len(packet) - 1) : c[n + 1] = Cleaned(c[n], packet[n + 1])
    BY <1>6, <2>1, Zenon DEF Cleans
  <2> QED BY <1>1, <2>1, <2>2, Zenon DEF Folds
<1>8. c[Len(packet)] = FoldOf(step, Fresh, packet) /\ c[Len(packet)] \in V
  BY <1>1, <1>7, FoldIs
<1> QED BY <1>2, <1>8, Zenon DEF CleanOf, V, step

LEMMA CleanLaws ==
  ASSUME NEW S, NEW packet \in Seq(S), NEW token \in S
  PROVE  /\ CleanOf(S, << >>) = Fresh
         /\ CleanOf(S, Append(packet, token)) = Cleaned(CleanOf(S, packet), token)
<1> DEFINE V == CleanStates(S)  step == CleanStep(S)
<1>1. Stepping(step, V, S) /\ Fresh \in V /\ \A acc \in V, e \in S : step[<<acc, e>>] = Cleaned(acc, e)
  BY CleanStepping
<1>2. CleanOf(S, packet) \in V
  BY CleanFolds
<1> HIDE DEF V, step
<1>3. FoldOf(step, Fresh, << >>) = Fresh
  <2>1. Fresh \in V
    BY <1>1
  <2>2. Stepping(step, V, S)
    BY <1>1
  <2> QED BY <2>1, <2>2, FoldEmpty
<1>4. FoldOf(step, Fresh, Append(packet, token)) = step[<<FoldOf(step, Fresh, packet), token>>]
  <2>1. Fresh \in V
    BY <1>1
  <2>2. Stepping(step, V, S)
    BY <1>1
  <2> QED BY <2>1, <2>2, FoldAppend
<1> QED BY <1>1, <1>2, <1>3, <1>4, Zenon DEF CleanOf, step

(***************************************************************************)
(* The lines of a packet                                                   *)
(***************************************************************************)
Readable(L, V) == << >> \in V /\ \A msg \in V, line \in L : AddLine(msg, line) \in V
ReadStep(L, V) == [p \in V \X L |-> AddLine(p[1], p[2])]
Adds(msg, lines, v0) ==
    msg = [n \in 0..Len(lines) |-> IF n = 0 THEN v0 ELSE AddLine(msg[n - 1], lines[n])]

LEMMA ReadStepping ==
  ASSUME NEW L, NEW V, Readable(L, V)
  PROVE  /\ Stepping(ReadStep(L, V), V, L) /\ << >> \in V
         /\ \A msg \in V, line \in L : ReadStep(L, V)[<<msg, line>>] = AddLine(msg, line)
<1>1. \A p \in V \X L : p[1] \in V /\ p[2] \in L
  OBVIOUS
<1>2. \A p \in V \X L : AddLine(p[1], p[2]) \in V
  BY <1>1, Zenon DEF Readable
<1>3. Stepping(ReadStep(L, V), V, L)
  BY <1>2, Zenon DEF Stepping, ReadStep
<1>4. \A msg \in V, line \in L : <<msg, line>> \in V \X L /\ <<msg, line>>[1] = msg /\ <<msg, line>>[2] = line
  OBVIOUS
<1>5. \A msg \in V, line \in L : ReadStep(L, V)[<<msg, line>>] = AddLine(msg, line)
  BY <1>4, Zenon DEF ReadStep
<1>6. << >> \in V
  BY Zenon DEF Readable
<1> QED BY <1>3, <1>5, <1>6

LEMMA ReadFolds ==
  ASSUME NEW L, NEW V, Readable(L, V), NEW lines \in Seq(L)
  PROVE  HeadersOf(lines) = FoldOf(ReadStep(L, V), << >>, lines) /\ HeadersOf(lines) \in V
<1> DEFINE step == ReadStep(L, V)  v0 == << >>  c == CHOOSE f : Adds(f, lines, v0)
<1>1. Stepping(step, V, L) /\ v0 \in V /\ \A msg \in V, line \in L : step[<<msg, line>>] = AddLine(msg, line)
  BY ReadStepping
<1>2. HeadersOf(lines) = c[Len(lines)]
  BY Zenon DEF HeadersOf, Adds
<1> HIDE DEF step, c, v0
<1>3. PICK g \in [0..Len(lines) -> V] : Recursive(g, step, v0, lines)
  BY <1>1, FoldDefined
<1>4. \A n \in 0..Len(lines) : g[n] = FoldStep(g, step, v0, lines, n)
  BY <1>3, Zenon DEF Recursive
<1>5. Adds(g, lines, v0)
  <2>1. ASSUME NEW n \in 0..Len(lines)
        PROVE  g[n] = IF n = 0 THEN v0 ELSE AddLine(g[n - 1], lines[n])
    <3>1. CASE n = 0
      BY <1>4, <3>1, Zenon DEF FoldStep
    <3>2. CASE n # 0
      <4>1. n - 1 \in 0..Len(lines) /\ lines[n] \in L
        BY <3>2
      <4>2. g[n - 1] \in V
        BY <4>1
      <4> QED BY <1>1, <1>4, <3>2, <4>1, <4>2, Zenon DEF FoldStep
    <3> QED BY <3>1, <3>2
  <2>2. g = [n \in 0..Len(lines) |-> g[n]]
    OBVIOUS
  <2> QED BY <2>1, <2>2, Zenon DEF Adds
<1>6. Adds(c, lines, v0)
  BY <1>5, Zenon DEF c
<1>7. Folds(c, V, step, v0, lines)
  <2>1. /\ 0 \in 0..Len(lines)
        /\ \A n \in 0..(Len(lines) - 1) :
             n + 1 \in 0..Len(lines) /\ n + 1 # 0 /\ (n + 1) - 1 = n /\ lines[n + 1] \in L
    OBVIOUS
  <2>2. c[0] = v0 /\ \A n \in 0..(Len(lines) - 1) : c[n + 1] = AddLine(c[n], lines[n + 1])
    BY <1>6, <2>1, Zenon DEF Adds
  <2> QED BY <1>1, <2>1, <2>2, Zenon DEF Folds
<1>8. c[Len(lines)] = FoldOf(step, v0, lines) /\ c[Len(lines)] \in V
  BY <1>1, <1>7, FoldIs
<1> QED BY <1>2, <1>8, Zenon DEF v0, step

LEMMA ReadLaws ==
  ASSUME NEW L, NEW V, Readable(L, V), NEW lines \in Seq(L), NEW line \in L
  PROVE  /\ HeadersOf(<< >>) = << >>
         /\ HeadersOf(Append(lines, line)) = AddLine(HeadersOf(lines), line)
<1> DEFINE step == ReadStep(L, V)  v0 == << >>  more == Append(lines, line)
<1>1. Stepping(step, V, L) /\ v0 \in V /\ \A msg \in V, l \in L : step[<<msg, l>>] = AddLine(msg, l)
  BY ReadStepping
<1>2. v0 \in Seq(L) /\ more \in Seq(L)
  OBVIOUS
<1>3. HeadersOf(lines) \in V /\ HeadersOf(lines) = FoldOf(step, << >>, lines)
  BY ReadFolds
<1>4. HeadersOf(v0) = FoldOf(step, << >>, v0) /\ HeadersOf(more) = FoldOf(step, << >>, more)
  <2> HIDE DEF v0, more
  <2> QED BY <1>2, ReadFolds
<1>5. v0 \in V
  BY <1>1
<1>6. Stepping(step, V, L)
  BY <1>1
<1> HIDE DEF step
<1>7. FoldOf(step, v0, << >>) = v0
  BY <1>5, <1>6, FoldEmpty
<1>8. FoldOf(step, v0, Append(lines, line)) = step[<<FoldOf(step, v0, lines), line>>]
  BY <1>5, <1>6, FoldAppend
<1> QED BY <1>1, <1>3, <1>4, <1>7, <1>8, Zenon

(***************************************************************************)
(* A packet, line by line                                                  *)
(***************************************************************************)
Breaks == {NewLine, CarriageReturn}
Ending(lines, break) == [i \in DOMAIN lines |-> <<lines[i], break>>]
Printed(lines, break) == FlattenSeq(Ending(lines, break))

LEMMA EndingShape ==
  ASSUME NEW S, NEW lines \in Seq(S), NEW break \in S
  PROVE  /\ Ending(lines, break) \in Seq(Seq(S)) /\ Len(Ending(lines, break)) = Len(lines)
         /\ \A i \in 1..Len(lines) : Ending(lines, break)[i] = <<lines[i], break>>
<1>1. Len(lines) \in Nat /\ DOMAIN lines = 1..Len(lines) /\ \A i \in 1..Len(lines) : lines[i] \in S
  OBVIOUS
<1>2. \A i \in 1..Len(lines) : <<lines[i], break>> \in Seq(S)
  BY <1>1
<1> DEFINE Q == Seq(S)
<1> HIDE DEF Q
<1>3. Ending(lines, break) \in [1..Len(lines) -> Q]
  BY <1>1, <1>2, Zenon DEF Ending, Q
<1>4. \A i \in 1..Len(lines) : Ending(lines, break)[i] = <<lines[i], break>>
  BY <1>1, Zenon DEF Ending
<1>5. Ending(lines, break) \in Seq(Q) /\ Len(Ending(lines, break)) = Len(lines)
  BY <1>1, <1>3
<1> QED BY <1>4, <1>5, Zenon DEF Q

LEMMA PrintedEmpty == ASSUME NEW break PROVE Printed(<< >>, break) = << >>
<1>1. Ending(<< >>, break) = << >>
  BY DEF Ending
<1> QED BY <1>1, FlattenEmpty, Zenon DEF Printed

LEMMA PrintedAppend ==
  ASSUME NEW S, NEW lines \in Seq(S), NEW line \in S, NEW break \in S
  PROVE  /\ Printed(Append(lines, line), break) = Append(Append(Printed(lines, break), line), break)
         /\ Printed(lines, break) \in Seq(S)
<1> DEFINE a == Ending(lines, break)  more == Append(lines, line)  e == <<line, break>>
           v == Printed(lines, break)
<1>1. a \in Seq(Seq(S)) /\ Len(a) = Len(lines) /\ e \in Seq(S)
      /\ \A i \in 1..Len(lines) : a[i] = <<lines[i], break>>
  <2>1. e \in Seq(S)
    OBVIOUS
  <2> HIDE DEF a, e
  <2> QED BY <2>1, EndingShape DEF a
<1>2. Ending(more, break) = Append(a, e)
  <2>1. /\ more \in Seq(S) /\ Len(more) = Len(lines) + 1 /\ Len(lines) \in Nat
        /\ \A i \in 1..Len(lines) : more[i] = lines[i]
        /\ more[Len(lines) + 1] = line
    OBVIOUS
  <2> HIDE DEF more
  <2>2. /\ Ending(more, break) \in Seq(Seq(S)) /\ Len(Ending(more, break)) = Len(lines) + 1
        /\ \A i \in 1..(Len(lines) + 1) : Ending(more, break)[i] = <<more[i], break>>
    BY <2>1, EndingShape
  <2> HIDE DEF a, e
  <2>3. /\ Append(a, e) \in Seq(Seq(S)) /\ Len(Append(a, e)) = Len(lines) + 1
        /\ \A i \in 1..Len(lines) : Append(a, e)[i] = a[i]
        /\ Append(a, e)[Len(lines) + 1] = e
    BY <1>1, AppendProperties
  <2>4. \A i \in 1..(Len(lines) + 1) : Ending(more, break)[i] = Append(a, e)[i]
    <3>1. \A i \in 1..(Len(lines) + 1) : i \in 1..Len(lines) \/ i = Len(lines) + 1
      BY <2>1
    <3> QED BY <1>1, <2>1, <2>2, <2>3, <3>1, Zenon DEF e
  <2>5. Len(Ending(more, break)) = Len(Append(a, e)) /\ \A i \in 1..Len(Ending(more, break)) :
          Ending(more, break)[i] = Append(a, e)[i]
    BY <2>2, <2>3, <2>4, Zenon
  <2> QED BY <2>2, <2>3, <2>5, SeqEqual, Zenon
<1> HIDE DEF a, more
<1>4. Printed(more, break) = v \o e /\ v \in Seq(S)
  <2> HIDE DEF e
  <2>1. FlattenSeq(Append(a, e)) = FlattenSeq(a) \o e /\ FlattenSeq(a) \in Seq(S)
    BY <1>1, FlattenAppend
  <2> QED BY <1>2, <2>1, Zenon DEF Printed, a
<1> HIDE DEF v
<1>5. v \o <<line, break>> = Append(Append(v, line), break)
  BY <1>4
<1> QED BY <1>4, <1>5, Zenon DEF v, more

LEMMA LeastOf ==
  ASSUME NEW S \in SUBSET Nat, NEW k \in S, \A i \in S : k <= i
  PROVE  Min(S) = k
<1>1. Min(S) \in S /\ \A i \in S : Min(S) <= i
  BY DEF Min
<1>2. Min(S) \in Nat /\ k \in Nat /\ Min(S) <= k /\ k <= Min(S)
  BY <1>1
<1> HIDE DEF Min
<1> QED BY <1>2

LEMMA EmptyLinesAppend ==
  ASSUME NEW S, NEW text \in Seq(S), NEW token \in S
  PROVE  EmptyLines(Append(text, token)) =
           EmptyLines(text) \cup
             (IF IsBreak(token) /\ (Len(text) = 0 \/ IsBreak(text[Len(text)])) THEN {Len(text) + 1} ELSE {})
<1> DEFINE more == Append(text, token)
<1>1. /\ more \in Seq(S) /\ Len(more) = Len(text) + 1 /\ Len(text) \in Nat
      /\ \A i \in 1..Len(text) : more[i] = text[i]
      /\ more[Len(text) + 1] = token
      /\ DOMAIN more = 1..(Len(text) + 1) /\ DOMAIN text = 1..Len(text)
  OBVIOUS
<1> HIDE DEF more
<1>2. ASSUME NEW i \in 1..Len(text) PROVE i \in EmptyLines(more) <=> i \in EmptyLines(text)
  <2>1. i \in 1..(Len(text) + 1) /\ more[i] = text[i] /\ (i = 1 \/ more[i - 1] = text[i - 1])
    BY <1>1
  <2> QED BY <1>1, <2>1, Zenon DEF EmptyLines
<1>3. Len(text) + 1 \in EmptyLines(more) <=>
        IsBreak(token) /\ (Len(text) = 0 \/ IsBreak(text[Len(text)]))
  <2>1. Len(text) + 1 \in 1..(Len(text) + 1) /\ (Len(text) + 1) - 1 = Len(text)
        /\ (Len(text) + 1 = 1 <=> Len(text) = 0) /\ (Len(text) # 0 => Len(text) \in 1..Len(text))
    BY <1>1
  <2> QED BY <1>1, <2>1 DEF EmptyLines
<1>4. EmptyLines(more) \subseteq 1..(Len(text) + 1) /\ EmptyLines(text) \subseteq 1..Len(text)
  BY <1>1, Zenon DEF EmptyLines
<1>5. \A i \in 1..(Len(text) + 1) : i \in 1..Len(text) \/ i = Len(text) + 1
  BY <1>1
<1>6. Len(text) + 1 \notin 1..Len(text)
  BY <1>1
<1> QED BY <1>2, <1>3, <1>4, <1>5, <1>6 DEF more

\* The lines of a text that ends with a break, read so far.
ReadsAs(text, lines) ==
    /\ EmptyLines(text) = {}
    /\ Len(text) = 0 \/ IsBreak(text[Len(text)])
    /\ HeadersOf(text) = HeadersOf(lines)

LEMMA ReadsNext ==
  ASSUME NEW S, NEW V, Readable(S, V), NEW text \in Seq(S), NEW lines \in Seq(S),
         NEW line \in S, ~IsBreak(line), NEW break \in S, IsBreak(break), ReadsAs(text, lines)
  PROVE  ReadsAs(Append(Append(text, line), break), Append(lines, line))
<1> DEFINE t == Append(text, line)  u == Append(t, break)  more == Append(lines, line)
<1>1. /\ t \in Seq(S) /\ Len(t) = Len(text) + 1 /\ t[Len(text) + 1] = line /\ Len(text) \in Nat
  OBVIOUS
<1>2. EmptyLines(t) = {}
  <2>1. EmptyLines(text) = {}
    BY DEF ReadsAs
  <2>2. EmptyLines(t) = EmptyLines(text) \cup
         (IF IsBreak(line) /\ (Len(text) = 0 \/ IsBreak(text[Len(text)])) THEN {Len(text) + 1} ELSE {})
    BY EmptyLinesAppend
  <2> QED BY <2>1, <2>2
<1>3. HeadersOf(t) = HeadersOf(more)
  <2>1. HeadersOf(text) = HeadersOf(lines)
    BY DEF ReadsAs
  <2>2. HeadersOf(t) = AddLine(HeadersOf(text), line)
    BY ReadLaws
  <2>3. HeadersOf(more) = AddLine(HeadersOf(lines), line)
    BY ReadLaws
  <2> QED BY <2>1, <2>2, <2>3, Zenon
<1> HIDE DEF t, more
<1>4. EmptyLines(u) = {}
  <2>1. EmptyLines(u) = EmptyLines(t) \cup
         (IF IsBreak(break) /\ (Len(t) = 0 \/ IsBreak(t[Len(t)])) THEN {Len(t) + 1} ELSE {})
    BY <1>1, EmptyLinesAppend
  <2> HIDE DEF u
  <2>2. ~(Len(t) = 0 \/ IsBreak(t[Len(t)]))
    BY <1>1
  <2> QED BY <1>2, <2>1, <2>2
<1>5. HeadersOf(u) = HeadersOf(t)
  <2>1. HeadersOf(u) = AddLine(HeadersOf(t), break)
    BY <1>1, ReadLaws
  <2>2. break.kind = "newline" \/ break.kind = "crlf"
    BY DEF IsBreak
  <2>3. AddLine(HeadersOf(t), break) = HeadersOf(t)
    BY <2>2 DEF AddLine
  <2> QED BY <2>1, <2>3, Zenon
<1>6. u[Len(u)] = break
  BY <1>1
<1> QED BY <1>3, <1>4, <1>5, <1>6, Zenon DEF ReadsAs, t, more

LEMMA PrintedReads ==
  ASSUME NEW S, NEW V, Readable(S, V), NEW L, L \subseteq S, \A line \in L : ~IsBreak(line),
         NEW lines \in Seq(L), NEW break \in S, IsBreak(break)
  PROVE  ReadsAs(Printed(lines, break), lines)
<1> DEFINE T == {v \in Seq(L) : ReadsAs(Printed(v, break), v)}
<1>1. << >> \in T
  <2> DEFINE v == << >>
  <2>1. v \in Seq(L) /\ v \in Seq(S) /\ Len(v) = 0 /\ DOMAIN v = {}
    OBVIOUS
  <2>2. Printed(v, break) = v
    BY PrintedEmpty
  <2> HIDE DEF v
  <2>3. EmptyLines(v) = {}
    BY <2>1 DEF EmptyLines
  <2>4. ReadsAs(v, v)
    BY <2>1, <2>3, Zenon DEF ReadsAs
  <2>5. v \in T
    BY <2>1, <2>2, <2>4, Zenon
  <2> QED BY <2>5 DEF v
<1>2. ASSUME NEW v \in Seq(L), NEW e \in L, v \in T PROVE Append(v, e) \in T
  <2>1. v \in Seq(S) /\ e \in S /\ ~IsBreak(e) /\ Append(v, e) \in Seq(L)
    OBVIOUS
  <2>2. /\ Printed(Append(v, e), break) = Append(Append(Printed(v, break), e), break)
        /\ Printed(v, break) \in Seq(S)
    BY <2>1, PrintedAppend, Zenon
  <2>3. ReadsAs(Append(Append(Printed(v, break), e), break), Append(v, e))
    BY <1>2, <2>1, <2>2, ReadsNext
  <2> QED BY <2>1, <2>2, <2>3, Zenon
<1>3. lines \in T
  <2> HIDE DEF T
  <2> QED BY <1>1, <1>2, Growth
<1> QED BY <1>3

\* What a packet says is decided by its lines before the first empty one, whatever
\* they end with and whatever follows (the reading of headers in message.rs).
THEOREM LinesDecide ==
  ASSUME NEW S, NEW V, Readable(S, V), NEW L, L \subseteq S, \A line \in L : ~IsBreak(line),
         NEW lines \in Seq(L), NEW break \in S, IsBreak(break), NEW last \in S, IsBreak(last),
         NEW rest \in Seq(S)
  PROVE  Parse(Append(Printed(lines, break), last) \o rest) = HeadersOf(lines)
<1> DEFINE text == Printed(lines, break)  ended == Append(text, last)  all == ended \o rest
<1>1. lines \in Seq(S)
  OBVIOUS
<1>2. text \in Seq(S)
  BY <1>1, PrintedAppend
<1>3. ReadsAs(text, lines)
  BY PrintedReads
<1> HIDE DEF text
<1>4. /\ all \in Seq(S) /\ Len(all) = Len(text) + 1 + Len(rest) /\ Len(text) \in Nat /\ Len(rest) \in Nat
      /\ DOMAIN all = 1..Len(all) /\ DOMAIN text = 1..Len(text)
      /\ \A i \in 1..Len(text) : all[i] = text[i]
      /\ all[Len(text) + 1] = last
  BY <1>2
<1>6. SubSeq(all, 1, Len(text)) = text
  BY <1>2
<1> HIDE DEF all, ended
<1>7. Len(text) + 1 \in EmptyLines(all)
  <2>1. Len(text) + 1 \in 1..Len(all) /\ (Len(text) + 1) - 1 = Len(text)
        /\ (Len(text) = 0 => Len(text) + 1 = 1) /\ (Len(text) # 0 => Len(text) \in 1..Len(text))
    BY <1>4
  <2>2. Len(text) # 0 => IsBreak(all[Len(text)])
    BY <1>3, <1>4, <2>1, Zenon DEF ReadsAs
  <2> QED BY <1>4, <2>1, <2>2 DEF EmptyLines
<1>8. ASSUME NEW i \in EmptyLines(all) PROVE Len(text) + 1 <= i
  <2> SUFFICES ASSUME i \in 1..Len(text) PROVE FALSE
    BY <1>4 DEF EmptyLines
  <2>1. all[i] = text[i] /\ (i = 1 \/ all[i - 1] = text[i - 1])
    BY <1>4, SMTT(40)
  <2>2. i \in EmptyLines(text)
    BY <1>4, <2>1 DEF EmptyLines
  <2> QED BY <1>3, <2>2, Zenon DEF ReadsAs
<1>9. Min(EmptyLines(all)) = Len(text) + 1 /\ EmptyLines(all) # {}
  <2>1. EmptyLines(all) \in SUBSET Nat
    BY <1>4 DEF EmptyLines
  <2> QED BY <1>7, <1>8, <2>1, LeastOf
<1>10. SubSeq(all, 1, Min(EmptyLines(all)) - 1) = text
  <2>1. Min(EmptyLines(all)) - 1 = Len(text)
    BY <1>4, <1>9
  <2> QED BY <1>6, <2>1, Zenon
<1>11. Parse(all) = HeadersOf(text)
  BY <1>9, <1>10, Zenon DEF Parse
<1> QED BY <1>3, <1>11, Zenon DEF ReadsAs, all, ended, text

(***************************************************************************)
(* Messages of one-line headers, as the two programs make them             *)
(***************************************************************************)
Headers(N, W) == {Header(p[1], p[2]) : p \in N \X W}
HeaderLines(N, W) == {HeaderLine(p[1], p[2]) : p \in N \X W}
Tokens(N, W) == HeaderLines(N, W) \cup Breaks
LineOf(header) == HeaderLine(header[1], header[2][1])
LinesOf(msg) == [i \in DOMAIN msg |-> LineOf(msg[i])]
Packet(msg, break) == Append(Printed(LinesOf(msg), break), break)

LEMMA OneHeader ==
  ASSUME NEW N, NEW W, NEW header \in Headers(N, W)
  PROVE  /\ LineOf(header) \in HeaderLines(N, W)
         /\ header = Header(LineOf(header).name, LineOf(header).word)
         /\ LineOf(header).kind = "header"
<1>1. PICK p \in N \X W : header = Header(p[1], p[2])
  BY DEF Headers
<1>2. header[1] = p[1] /\ header[2][1] = p[2]
  BY <1>1 DEF Header
<1>3. LineOf(header) = HeaderLine(p[1], p[2])
  BY <1>2 DEF LineOf
<1>4. LineOf(header) \in HeaderLines(N, W)
  BY <1>3 DEF HeaderLines
<1>5. LineOf(header).name = p[1] /\ LineOf(header).word = p[2] /\ LineOf(header).kind = "header"
  BY <1>3 DEF HeaderLine
<1> QED BY <1>1, <1>4, <1>5

LEMMA HeaderTextIs ==
  ASSUME NEW N, NEW W, NEW header \in Headers(N, W)
  PROVE  HeaderText(header) = <<LineOf(header), NewLine>>
<1>1. PICK p \in N \X W : header = Header(p[1], p[2])
  BY DEF Headers
<1>2. header[1] = p[1] /\ header[2] = <<p[2]>> /\ header[2][1] = p[2] /\ DOMAIN header[2] = {1}
  BY <1>1 DEF Header
<1> DEFINE e == <<HeaderLine(p[1], p[2]), NewLine>>
           ss == [i \in DOMAIN header[2] |->
                    <<IF i = 1 THEN HeaderLine(header[1], header[2][1]) ELSE Other(header[2][i]), NewLine>>]
<1>3. ss = <<e>>
  <2>1. DOMAIN ss = {1} /\ ss[1] = e
    BY <1>2
  <2>2. ss = [i \in {1} |-> ss[i]]
    BY <2>1
  <2> HIDE DEF ss, e
  <2>3. ss = [i \in {1} |-> e]
    BY <2>1, <2>2
  <2> QED BY <2>3
<1>4. HeaderText(header) = FlattenSeq(ss)
  BY Zenon DEF HeaderText
<1>5. e \in Seq({HeaderLine(p[1], p[2]), NewLine})
  OBVIOUS
<1>6. LineOf(header) = HeaderLine(p[1], p[2])
  BY <1>2 DEF LineOf
<1> HIDE DEF e, ss
<1>7. <<e>> = Append(<< >>, e) /\ << >> \o e = e
  BY <1>5
<1>8. FlattenSeq(Append(<< >>, e)) = FlattenSeq(<< >>) \o e
  <2> DEFINE S == {HeaderLine(p[1], p[2]), NewLine}  v == << >>
  <2>1. v \in Seq(Seq(S)) /\ e \in Seq(S)
    BY <1>5
  <2> HIDE DEF S, v
  <2>2. FlattenSeq(Append(v, e)) = FlattenSeq(v) \o e /\ FlattenSeq(v) \in Seq(S)
    BY <2>1, FlattenAppend
  <2> QED BY <2>2, Zenon DEF v
<1>9. FlattenSeq(<<e>>) = e
  BY <1>7, <1>8, FlattenEmpty, Zenon
<1> QED BY <1>3, <1>4, <1>6, <1>9, Zenon DEF e

LEMMA LinesType ==
  ASSUME NEW N, NEW W, NEW msg \in Seq(Headers(N, W))
  PROVE  /\ LinesOf(msg) \in Seq(HeaderLines(N, W)) /\ Len(LinesOf(msg)) = Len(msg)
         /\ \A i \in 1..Len(msg) : LinesOf(msg)[i] = LineOf(msg[i])
<1> DEFINE H == Headers(N, W)  K == HeaderLines(N, W)
<1>1. \A header \in H : LineOf(header) \in K
  BY OneHeader, Zenon
<1>2. msg \in Seq(H)
  OBVIOUS
<1> HIDE DEF H, K
<1>3. Len(msg) \in Nat /\ DOMAIN msg = 1..Len(msg) /\ \A i \in 1..Len(msg) : msg[i] \in H
  BY <1>2
<1>4. LinesOf(msg) \in [1..Len(msg) -> K]
  BY <1>1, <1>3, Zenon DEF LinesOf
<1>5. \A i \in 1..Len(msg) : LinesOf(msg)[i] = LineOf(msg[i])
  BY <1>3, Zenon DEF LinesOf
<1>6. LinesOf(msg) \in Seq(K) /\ Len(LinesOf(msg)) = Len(msg)
  BY <1>3, <1>4
<1> QED BY <1>5, <1>6, Zenon DEF K

LEMMA AsStringIs ==
  ASSUME NEW N, NEW W, NEW msg \in Seq(Headers(N, W))
  PROVE  AsString(msg) = Packet(msg, NewLine)
<1> DEFINE a == [i \in DOMAIN msg |-> HeaderText(msg[i])]  b == Ending(LinesOf(msg), NewLine)
<1>1. \A i \in DOMAIN msg : msg[i] \in Headers(N, W)
  <2> DEFINE H == Headers(N, W)
  <2>1. msg \in Seq(H)
    OBVIOUS
  <2> HIDE DEF H
  <2>2. \A i \in DOMAIN msg : msg[i] \in H
    BY <2>1
  <2> QED BY <2>2 DEF H
<1>2. \A i \in DOMAIN msg : HeaderText(msg[i]) = <<LineOf(msg[i]), NewLine>>
  BY <1>1, HeaderTextIs, Zenon
<1>3. DOMAIN LinesOf(msg) = DOMAIN msg /\ \A i \in DOMAIN msg : LinesOf(msg)[i] = LineOf(msg[i])
  BY Zenon DEF LinesOf
<1>4. a = b
  BY <1>2, <1>3, Zenon DEF Ending
<1>5. AsString(msg) = FlattenSeq(a) \o <<NewLine>>
  BY Zenon DEF AsString
<1>6. Printed(LinesOf(msg), NewLine) = FlattenSeq(b)
  BY Zenon DEF Printed
<1>7. Printed(LinesOf(msg), NewLine) \in Seq(Tokens(N, W))
  <2> DEFINE S == Tokens(N, W)  lines == LinesOf(msg)
  <2>1. HeaderLines(N, W) \subseteq S /\ NewLine \in S
    BY DEF Tokens, Breaks
  <2>2. lines \in Seq(HeaderLines(N, W))
    BY LinesType
  <2> HIDE DEF S, lines
  <2>3. lines \in Seq(S)
    BY <2>1, <2>2
  <2>4. Printed(lines, NewLine) \in Seq(S)
    BY <2>1, <2>3, PrintedAppend
  <2> QED BY <2>4, Zenon DEF S, lines
<1> DEFINE v == Printed(LinesOf(msg), NewLine)
<1>8. FlattenSeq(a) = v
  BY <1>4, <1>6, Zenon
<1>9. v \in Seq(Tokens(N, W))
  BY <1>7, Zenon
<1> HIDE DEF v, a
<1>10. v \o <<NewLine>> = Append(v, NewLine)
  <2> DEFINE S == Tokens(N, W)
  <2>1. NewLine \in S
    BY DEF Tokens, Breaks
  <2> HIDE DEF S
  <2> QED BY <1>9, <2>1 DEF S
<1> QED BY <1>5, <1>8, <1>10, Zenon DEF Packet, v

LEMMA TokensRead ==
  ASSUME NEW N, NEW W
  PROVE  /\ Readable(Tokens(N, W), Seq(Headers(N, W)))
         /\ \A line \in HeaderLines(N, W) : ~IsBreak(line) /\ line # NewLine
         /\ HeaderLines(N, W) \subseteq Tokens(N, W)
         /\ \A break \in Breaks : break \in Tokens(N, W) /\ IsBreak(break)
<1>1. ASSUME NEW line \in HeaderLines(N, W)
      PROVE  line.kind = "header" /\ Header(line.name, line.word) \in Headers(N, W)
  <2>1. PICK p \in N \X W : line = HeaderLine(p[1], p[2])
    BY DEF HeaderLines
  <2> QED BY <2>1 DEF HeaderLine, Headers
<1>2. \A break \in Breaks : break.kind = "newline" \/ break.kind = "crlf"
  BY DEF Breaks, NewLine, CarriageReturn
<1> DEFINE V == Seq(Headers(N, W))
<1>3. << >> \in V /\ \A msg \in V, header \in Headers(N, W) : Append(msg, header) \in V
  OBVIOUS
<1> HIDE DEF V
<1>4. ASSUME NEW msg \in V, NEW line \in Tokens(N, W) PROVE AddLine(msg, line) \in V
  <2>1. CASE line \in HeaderLines(N, W)
    BY <1>1, <1>3, <2>1, Zenon DEF AddLine
  <2>2. CASE line \in Breaks
    <3>1. AddLine(msg, line) = msg
      BY <1>2, <2>2 DEF AddLine
    <3> QED BY <3>1
  <2> QED BY <2>1, <2>2 DEF Tokens
<1>5. \A line \in HeaderLines(N, W) : ~IsBreak(line) /\ line # NewLine
  BY <1>1 DEF IsBreak, NewLine
<1>6. \A break \in Breaks : IsBreak(break)
  BY <1>2 DEF IsBreak
<1> QED BY <1>3, <1>4, <1>5, <1>6 DEF Readable, Tokens, V

LEMMA LinesRead ==
  ASSUME NEW N, NEW W, NEW msg \in Seq(Headers(N, W))
  PROVE  HeadersOf(LinesOf(msg)) = msg
<1> DEFINE H == Headers(N, W)  K == HeaderLines(N, W)  L == Tokens(N, W)
           T == {m \in Seq(H) : HeadersOf(LinesOf(m)) = m}
<1>1. Readable(L, Seq(H)) /\ K \subseteq L
  BY TokensRead
<1>2. << >> \in T
  <2>1. LinesOf(<< >>) = << >>
    BY DEF LinesOf
  <2>2. HeadersOf(<< >>) = << >>
    <3> DEFINE v == << >>  e == NewLine
    <3>1. v \in Seq(L) /\ e \in L
      BY DEF Tokens, Breaks
    <3> HIDE DEF v, L, e
    <3>2. /\ HeadersOf(<< >>) = << >>
          /\ HeadersOf(Append(v, e)) = AddLine(HeadersOf(v), e)
      BY <1>1, <3>1, ReadLaws
    <3> QED BY <3>2
  <2>3. << >> \in Seq(H)
    OBVIOUS
  <2> HIDE DEF H
  <2> QED BY <2>1, <2>2, <2>3, Zenon
<1>3. ASSUME NEW m \in Seq(H), NEW h \in H, m \in T PROVE Append(m, h) \in T
  <2> DEFINE v == LinesOf(m)  e == LineOf(h)  more == Append(m, h)
  <2>1. e \in K /\ h = Header(e.name, e.word) /\ e.kind = "header"
    BY OneHeader
  <2>2. v \in Seq(K) /\ Len(v) = Len(m) /\ \A i \in 1..Len(m) : v[i] = LineOf(m[i])
    BY LinesType
  <2>3. more \in Seq(H)
    BY AppendProperties
  <2>4. LinesOf(more) \in Seq(K) /\ Len(LinesOf(more)) = Len(more) /\ \A i \in 1..Len(more) : LinesOf(more)[i] = LineOf(more[i])
    <3> HIDE DEF more
    <3> QED BY <2>3, LinesType
  <2>5. /\ Len(more) = Len(m) + 1 /\ Len(m) \in Nat /\ more[Len(m) + 1] = h
        /\ \A i \in 1..Len(m) : more[i] = m[i]
    BY AppendProperties
  <2> HIDE DEF v, e, more, K, H, T
  <2>6. /\ Append(v, e) \in Seq(K) /\ Len(Append(v, e)) = Len(m) + 1
        /\ \A i \in 1..Len(m) : Append(v, e)[i] = v[i]
        /\ Append(v, e)[Len(m) + 1] = e
    BY <2>1, <2>2, AppendProperties
  <2>7. LinesOf(more) = Append(v, e)
    <3>1. \A i \in 1..(Len(m) + 1) : i \in 1..Len(m) \/ i = Len(m) + 1
      BY <2>5
    <3>2. \A i \in 1..(Len(m) + 1) : LinesOf(more)[i] = Append(v, e)[i]
      BY <2>2, <2>4, <2>5, <2>6, <3>1, Zenon DEF e
    <3>3. Len(LinesOf(more)) = Len(Append(v, e))
          /\ \A i \in 1..Len(LinesOf(more)) : LinesOf(more)[i] = Append(v, e)[i]
      BY <2>4, <2>5, <2>6, <3>2, Zenon
    <3> QED BY <2>4, <2>6, <3>3, SeqEqual, Zenon
  <2>8. HeadersOf(v) = m
    BY <1>3, Zenon DEF v, T
  <2>9. HeadersOf(Append(v, e)) = AddLine(m, e)
    <3>1. v \in Seq(L) /\ e \in L
      BY <1>1, <2>1, <2>2
    <3> HIDE DEF L
    <3>2. HeadersOf(Append(v, e)) = AddLine(HeadersOf(v), e)
      BY <1>1, <3>1, ReadLaws
    <3> QED BY <2>8, <3>2, Zenon
  <2>10. AddLine(m, e) = more
    BY <2>1, Zenon DEF AddLine, more
  <2>11. HeadersOf(LinesOf(more)) = more
    BY <2>7, <2>9, <2>10, Zenon
  <2> QED BY <2>3, <2>11, Zenon DEF T, more
<1>4. msg \in T
  <2> HIDE DEF T
  <2> QED BY <1>2, <1>3, Growth
<1> QED BY <1>4

(***************************************************************************)
(* What clean_legacy_packet leaves                                         *)
(***************************************************************************)
CleansTo(S, packet, text, pair) == CleanOf(S, packet) = [out |-> text, paired |-> pair]

LEMMA CleanStart == ASSUME NEW S PROVE CleansTo(S, << >>, << >>, FALSE)
<1> DEFINE T == S \cup {NewLine}  step == CleanStep(S)
<1>1. Stepping(step, CleanStates(S), S) /\ Fresh \in CleanStates(S)
  BY CleanStepping
<1> HIDE DEF step
<1>2. FoldOf(step, Fresh, << >>) = Fresh
  BY <1>1, FoldEmpty
<1> QED BY <1>2, Zenon DEF CleansTo, CleanOf, Fresh, step

LEMMA CleanNext ==
  ASSUME NEW S, NEW packet \in Seq(S), NEW token \in S, NEW text, NEW pair, CleansTo(S, packet, text, pair)
  PROVE  IF token = NewLine /\ pair THEN CleansTo(S, Append(packet, token), text, FALSE)
         ELSE CleansTo(S, Append(packet, token), Append(text, token), token = NewLine)
<1> DEFINE acc == CleanOf(S, packet)
<1>1. CleanOf(S, Append(packet, token)) = Cleaned(acc, token)
  BY CleanLaws
<1>2. acc = [out |-> text, paired |-> pair]
  BY Zenon DEF CleansTo
<1> HIDE DEF acc
<1>3. acc.out = text /\ acc.paired = pair
  BY <1>2
<1>4. token = NewLine /\ pair => Cleaned(acc, token) = [out |-> text, paired |-> FALSE]
  BY <1>2, <1>3 DEF Cleaned
<1>5. ~(token = NewLine /\ pair) => Cleaned(acc, token) = [out |-> Append(text, token), paired |-> token = NewLine]
  BY <1>3, Zenon DEF Cleaned
<1> QED BY <1>1, <1>4, <1>5, Zenon DEF CleansTo

LEMMA CleanEnd ==
  ASSUME NEW S, NEW packet \in Seq(S), NEW text, NEW pair, CleansTo(S, packet, text, pair)
  PROVE  CleanLegacyPacket(packet) = Append(text, NewLine)
<1>1. CleanLegacyPacket(packet) = Append(CleanOf(S, packet).out, NewLine)
  BY CleanFolds
<1>2. CleanOf(S, packet).out = text
  <2>1. CleanOf(S, packet) = [out |-> text, paired |-> pair]
    BY Zenon DEF CleansTo
  <2> QED BY <2>1
<1> QED BY <1>1, <1>2, Zenon

\* A packet whose lines end with one newline each is left as it is.
LEMMA CleanPrinted ==
  ASSUME NEW S, NewLine \in S, NEW L, L \subseteq S, NewLine \notin L, NEW lines \in Seq(L)
  PROVE  CleansTo(S, Printed(lines, NewLine), Printed(lines, NewLine), Len(lines) # 0)
<1> DEFINE P(v) == Printed(v, NewLine)
           T == {v \in Seq(L) : CleansTo(S, P(v), P(v), Len(v) # 0)}
<1>1. << >> \in T
  <2> DEFINE v == << >>
  <2>1. v \in Seq(L) /\ Len(v) = 0
    OBVIOUS
  <2>2. P(v) = v /\ CleansTo(S, v, v, FALSE)
    BY PrintedEmpty, CleanStart, Zenon
  <2>3. (Len(v) # 0) = FALSE
    BY <2>1
  <2> HIDE DEF v
  <2>4. CleansTo(S, P(v), P(v), Len(v) # 0)
    BY <2>2, <2>3, Zenon
  <2> QED BY <2>1, <2>4 DEF v
<1>2. ASSUME NEW v \in Seq(L), NEW e \in L, v \in T PROVE Append(v, e) \in T
  <2> DEFINE t == P(v)  u == Append(t, e)  w == Append(u, NewLine)
  <2>1. v \in Seq(S) /\ e \in S /\ e # NewLine /\ Append(v, e) \in Seq(L) /\ Len(Append(v, e)) # 0
    OBVIOUS
  <2>2. P(Append(v, e)) = w /\ t \in Seq(S)
    BY <2>1, PrintedAppend, Zenon
  <2> HIDE DEF t
  <2>3. u \in Seq(S)
    BY <2>1, <2>2
  <2> HIDE DEF u
  <2>4. CleansTo(S, t, t, Len(v) # 0)
    BY <1>2 DEF t
  <2>5. CleansTo(S, u, u, FALSE)
    <3>1. CleansTo(S, Append(t, e), Append(t, e), e = NewLine)
      BY <2>1, <2>2, <2>4, CleanNext, Zenon
    <3>2. (e = NewLine) = FALSE
      BY <2>1
    <3> QED BY <3>1, <3>2, Zenon DEF u
  <2>6. CleansTo(S, w, w, TRUE)
    <3>1. CleansTo(S, Append(u, NewLine), Append(u, NewLine), NewLine = NewLine)
      BY <2>3, <2>5, CleanNext, Zenon
    <3>2. (NewLine = NewLine) = TRUE
      OBVIOUS
    <3> QED BY <3>1, <3>2, Zenon
  <2>7. (Len(Append(v, e)) # 0) = TRUE
    BY <2>1
  <2> HIDE DEF w
  <2> QED BY <2>1, <2>2, <2>6, <2>7, Zenon
<1>3. lines \in T
  <2> HIDE DEF T
  <2> QED BY <1>1, <1>2, Growth
<1> QED BY <1>3

Twices(packet) == [i \in DOMAIN packet |-> Twice(packet[i])]

LEMMA TwicesShape ==
  ASSUME NEW S, NewLine \in S, NEW packet \in Seq(S)
  PROVE  /\ Twices(packet) \in Seq(Seq(S)) /\ Len(Twices(packet)) = Len(packet)
         /\ \A i \in 1..Len(packet) : Twices(packet)[i] = Twice(packet[i])
<1>1. Len(packet) \in Nat /\ DOMAIN packet = 1..Len(packet) /\ \A i \in 1..Len(packet) : packet[i] \in S
  OBVIOUS
<1>2. \A token \in S : Twice(token) \in Seq(S)
  BY DEF Twice
<1> DEFINE Q == Seq(S)
<1> HIDE DEF Q
<1>3. Twices(packet) \in [1..Len(packet) -> Q]
  BY <1>1, <1>2, Zenon DEF Twices, Q
<1>4. \A i \in 1..Len(packet) : Twices(packet)[i] = Twice(packet[i])
  BY <1>1, Zenon DEF Twices
<1>5. Twices(packet) \in Seq(Q) /\ Len(Twices(packet)) = Len(packet)
  BY <1>1, <1>3
<1> QED BY <1>4, <1>5, Zenon DEF Q

LEMMA DoubledAppend ==
  ASSUME NEW S, NewLine \in S, NEW packet \in Seq(S), NEW token \in S
  PROVE  /\ Doubled(Append(packet, token)) = Doubled(packet) \o Twice(token)
         /\ Doubled(packet) \in Seq(S)
<1> DEFINE a == Twices(packet)  more == Append(packet, token)  e == Twice(token)
<1>1. /\ a \in Seq(Seq(S)) /\ Len(a) = Len(packet)
      /\ \A i \in 1..Len(packet) : a[i] = Twice(packet[i])
  BY TwicesShape
<1>2. e \in Seq(S)
  BY DEF Twice
<1>3. /\ more \in Seq(S) /\ Len(more) = Len(packet) + 1 /\ Len(packet) \in Nat
      /\ \A i \in 1..Len(packet) : more[i] = packet[i]
      /\ more[Len(packet) + 1] = token
  OBVIOUS
<1> HIDE DEF a, more, e
<1>4. /\ Twices(more) \in Seq(Seq(S)) /\ Len(Twices(more)) = Len(packet) + 1
      /\ \A i \in 1..(Len(packet) + 1) : Twices(more)[i] = Twice(more[i])
  BY <1>3, TwicesShape
<1>5. /\ Append(a, e) \in Seq(Seq(S)) /\ Len(Append(a, e)) = Len(packet) + 1
      /\ \A i \in 1..Len(packet) : Append(a, e)[i] = a[i]
      /\ Append(a, e)[Len(packet) + 1] = e
  BY <1>1, <1>2, AppendProperties
<1>6. Twices(more) = Append(a, e)
  <2>1. \A i \in 1..(Len(packet) + 1) : i \in 1..Len(packet) \/ i = Len(packet) + 1
    BY <1>3
  <2>2. \A i \in 1..(Len(packet) + 1) : Twices(more)[i] = Append(a, e)[i]
    BY <1>1, <1>3, <1>4, <1>5, <2>1, Zenon DEF e
  <2>3. Len(Twices(more)) = Len(Append(a, e)) /\ \A i \in 1..Len(Twices(more)) : Twices(more)[i] = Append(a, e)[i]
    BY <1>4, <1>5, <2>2, Zenon
  <2> QED BY <1>4, <1>5, <2>3, SeqEqual, Zenon
<1>7. FlattenSeq(Append(a, e)) = FlattenSeq(a) \o e /\ FlattenSeq(a) \in Seq(S)
  BY <1>1, <1>2, FlattenAppend
<1>8. Doubled(packet) = FlattenSeq(a) /\ Doubled(more) = FlattenSeq(Twices(more))
  BY Zenon DEF Doubled, Twices, a
<1> QED BY <1>6, <1>7, <1>8, Zenon DEF e, more

LEMMA CleanDoubled ==
  ASSUME NEW S, NewLine \in S, NEW packet \in Seq(S)
  PROVE  CleanLegacyPacket(Doubled(packet)) = Append(packet, NewLine)
<1> DEFINE T == {v \in Seq(S) : CleansTo(S, Doubled(v), v, FALSE)}
<1>1. << >> \in T
  <2> DEFINE v == << >>
  <2>1. v \in Seq(S)
    OBVIOUS
  <2>2. Doubled(v) = v
    <3>1. Doubled(v) = FlattenSeq(Twices(v)) /\ Twices(v) = v
      BY DEF Doubled, Twices
    <3> QED BY <3>1, FlattenEmpty, Zenon
  <2>3. CleansTo(S, v, v, FALSE)
    BY CleanStart, Zenon
  <2> HIDE DEF v
  <2>4. CleansTo(S, Doubled(v), v, FALSE)
    BY <2>2, <2>3, Zenon
  <2> QED BY <2>1, <2>4 DEF v
<1>2. ASSUME NEW v \in Seq(S), NEW e \in S, v \in T PROVE Append(v, e) \in T
  <2> DEFINE d == Doubled(v)  u == Append(d, e)  w == Append(v, e)
  <2>1. Doubled(w) = d \o Twice(e) /\ d \in Seq(S)
    BY DoubledAppend
  <2>2. CleansTo(S, d, v, FALSE)
    BY <1>2
  <2>3. CleansTo(S, u, w, e = NewLine)
    <3> HIDE DEF d
    <3> QED BY <2>1, <2>2, CleanNext, Zenon
  <2>4. w \in Seq(S)
    OBVIOUS
  <2>5. CleansTo(S, Doubled(w), w, FALSE)
    <3>1. CASE e = NewLine
      <4>1. u \in Seq(S)
        <5> HIDE DEF d
        <5> QED BY <2>1
      <4>2. d \o <<NewLine, NewLine>> = Append(u, NewLine)
        <5> HIDE DEF d
        <5> QED BY <2>1, <3>1
      <4>3. Doubled(w) = Append(u, NewLine)
        BY <2>1, <3>1, <4>2, Zenon DEF Twice
      <4>4. CleansTo(S, u, w, TRUE)
        <5>1. (e = NewLine) = TRUE
          BY <3>1
        <5> HIDE DEF u, w
        <5> QED BY <2>3, <5>1, Zenon
      <4> HIDE DEF u, w, d
      <4>5. CleansTo(S, Append(u, NewLine), w, FALSE)
        BY <4>1, <4>4, CleanNext, Zenon
      <4> QED BY <4>3, <4>5, Zenon
    <3>2. CASE e # NewLine
      <4>1. d \o <<e>> = u
        <5> HIDE DEF d
        <5> QED BY <2>1
      <4>2. Doubled(w) = u
        BY <2>1, <3>2, <4>1, Zenon DEF Twice
      <4>3. (e = NewLine) = FALSE
        BY <3>2
      <4> HIDE DEF u, w, d
      <4> QED BY <2>3, <4>2, <4>3, Zenon
    <3> QED BY <3>1, <3>2
  <2> HIDE DEF w
  <2> QED BY <2>4, <2>5, Zenon DEF w
<1>3. packet \in T
  <2> HIDE DEF T
  <2> QED BY <1>1, <1>2, Growth
<1>4. CleansTo(S, Doubled(packet), packet, FALSE)
  BY <1>3
<1>5. Doubled(packet) \in Seq(S)
  BY DoubledAppend
<1> QED BY <1>4, <1>5, CleanEnd, Zenon

\* A packet without newlines gets one at its end.
LEMMA CleanUnbroken ==
  ASSUME NEW S, NewLine \notin S, NEW packet \in Seq(S)
  PROVE  CleanLegacyPacket(packet) = Append(packet, NewLine)
<1> DEFINE T == {v \in Seq(S) : CleansTo(S, v, v, FALSE)}
<1>1. << >> \in T
  <2> DEFINE v == << >>
  <2>1. v \in Seq(S)
    OBVIOUS
  <2>2. CleansTo(S, v, v, FALSE)
    BY CleanStart, Zenon
  <2> HIDE DEF v
  <2> QED BY <2>1, <2>2 DEF v
<1>2. ASSUME NEW v \in Seq(S), NEW e \in S, v \in T PROVE Append(v, e) \in T
  <2>1. (e = NewLine) = FALSE /\ Append(v, e) \in Seq(S)
    OBVIOUS
  <2>2. CleansTo(S, v, v, FALSE)
    BY <1>2
  <2>3. CleansTo(S, Append(v, e), Append(v, e), e = NewLine)
    BY <2>2, CleanNext, Zenon
  <2> QED BY <2>1, <2>3, Zenon
<1>3. packet \in T
  <2> HIDE DEF T
  <2> QED BY <1>1, <1>2, Growth
<1>4. CleansTo(S, packet, packet, FALSE)
  BY <1>3
<1> QED BY <1>4, CleanEnd, Zenon

\* However its lines end, a packet of a message is read as the message.
LEMMA PacketRead ==
  ASSUME NEW N, NEW W, NEW msg \in Seq(Headers(N, W)), NEW break \in Breaks,
         NEW rest \in Seq(Tokens(N, W))
  PROVE  /\ Parse(Packet(msg, break) \o rest) = msg
         /\ Packet(msg, break) \in Seq(Tokens(N, W))
         /\ Printed(LinesOf(msg), break) \in Seq(Tokens(N, W))
<1> DEFINE S == Tokens(N, W)  V == Seq(Headers(N, W))  L == HeaderLines(N, W)  lines == LinesOf(msg)
<1>1. /\ Readable(S, V) /\ L \subseteq S /\ (\A line \in L : ~IsBreak(line))
      /\ break \in S /\ IsBreak(break)
  BY TokensRead
<1>2. lines \in Seq(L)
  BY LinesType
<1>3. HeadersOf(lines) = msg
  BY LinesRead
<1> HIDE DEF S, V, L, lines
<1>4. rest \in Seq(S)
  BY DEF S
<1>5. Parse(Append(Printed(lines, break), break) \o rest) = HeadersOf(lines)
  BY <1>1, <1>2, <1>4, LinesDecide
<1>6. lines \in Seq(S)
  BY <1>1, <1>2
<1>7. Printed(lines, break) \in Seq(S)
  BY <1>1, <1>6, PrintedAppend
<1>8. Append(Printed(lines, break), break) \in Seq(S)
  BY <1>1, <1>7
<1> QED BY <1>3, <1>5, <1>7, <1>8, Zenon DEF Packet, lines, S

\* A message survives its way as a packet: printed and read again, with a newline
\* dropped from each pair or a last one added by clean_legacy_packet, with every
\* newline said twice by an old client, and with the line ends of another system
\* (as_string and the reading of headers in message.rs).
THEOREM PacketSurvives ==
  ASSUME NEW N, NEW W, NEW msg \in Seq(Headers(N, W))
  PROVE  /\ AsString(msg) = Packet(msg, NewLine)
         /\ Parse(AsString(msg)) = msg
         /\ Parse(CleanLegacyPacket(AsString(msg))) = msg
         /\ Parse(CleanLegacyPacket(Doubled(AsString(msg)))) = msg
         /\ Parse(CleanLegacyPacket(Packet(msg, CarriageReturn))) = msg
<1> DEFINE S == Tokens(N, W)  L == HeaderLines(N, W)  lines == LinesOf(msg)
           text == AsString(msg)  other == Packet(msg, CarriageReturn)
<1>1. text = Packet(msg, NewLine)
  BY AsStringIs
<1>2. NewLine \in Breaks /\ CarriageReturn \in Breaks /\ << >> \in Seq(S)
  BY DEF Breaks
<1>3. /\ L \subseteq S /\ (\A line \in L : line # NewLine) /\ NewLine \in S /\ CarriageReturn \in S
  BY <1>2, TokensRead
<1>4. lines \in Seq(L) /\ Len(lines) = Len(msg)
  BY LinesType
<1>5. \A break \in Breaks : \A rest \in Seq(S) : Parse(Packet(msg, break) \o rest) = msg
  BY PacketRead
<1>6. \A break \in Breaks : Packet(msg, break) \in Seq(S)
  BY <1>2, PacketRead
<1>7. \A break \in Breaks : Printed(lines, break) \in Seq(S)
  BY <1>2, PacketRead
<1> HIDE DEF S, L, lines, text, other
<1>8. \A v \in Seq(S) : v \o << >> = v /\ v \o <<NewLine>> = Append(v, NewLine) /\ <<NewLine>> \in Seq(S)
  BY <1>3
<1>9. \A break \in Breaks : Parse(Packet(msg, break)) = msg /\ Parse(Append(Packet(msg, break), NewLine)) = msg
  BY <1>2, <1>5, <1>6, <1>8, ZenonT(60)
<1>10. text \in Seq(S) /\ other \in Seq(S)
  BY <1>1, <1>2, <1>6, Zenon DEF other
<1>11. Parse(CleanLegacyPacket(text)) = msg
  <2> DEFINE v == Printed(lines, NewLine)
  <2>1. v \in Seq(S)
    BY <1>2, <1>7
  <2>2. text = Append(v, NewLine)
    BY <1>1, Zenon DEF Packet, lines
  <2>3. CleansTo(S, v, v, Len(lines) # 0)
    <3>1. NewLine \notin L
      BY <1>3
    <3> QED BY <1>3, <1>4, <3>1, CleanPrinted
  <2> HIDE DEF v
  <2>4. CASE Len(lines) # 0
    <3>1. (Len(lines) # 0) = TRUE
      BY <2>4
    <3>2. CleansTo(S, v, v, TRUE)
      BY <2>3, <3>1, Zenon
    <3>3. CleansTo(S, Append(v, NewLine), v, FALSE)
      BY <1>3, <2>1, <3>2, CleanNext, Zenon
    <3>4. CleanLegacyPacket(text) = Append(v, NewLine)
      BY <1>10, <2>2, <3>3, CleanEnd, Zenon
    <3> QED BY <1>1, <1>2, <1>9, <2>2, <3>4, Zenon
  <2>5. CASE Len(lines) = 0
    <3>1. (Len(lines) # 0) = FALSE
      BY <2>5
    <3>2. CleansTo(S, v, v, FALSE)
      BY <2>3, <3>1, Zenon
    <3>3. CleansTo(S, Append(v, NewLine), Append(v, NewLine), NewLine = NewLine)
      BY <1>3, <2>1, <3>2, CleanNext, Zenon
    <3>4. CleanLegacyPacket(text) = Append(text, NewLine)
      BY <1>10, <2>2, <3>3, CleanEnd, Zenon
    <3> QED BY <1>1, <1>2, <1>9, <3>4, Zenon
  <2> QED BY <2>4, <2>5
<1>12. Parse(CleanLegacyPacket(Doubled(text))) = msg
  <2>1. CleanLegacyPacket(Doubled(text)) = Append(text, NewLine)
    BY <1>3, <1>10, CleanDoubled
  <2> QED BY <1>1, <1>2, <1>9, <2>1, Zenon
<1>13. Parse(CleanLegacyPacket(other)) = msg
  <2> DEFINE U == L \cup {CarriageReturn}
  <2>1. other \in Seq(U)
    <3>1. lines \in Seq(U) /\ CarriageReturn \in U
      BY <1>4
    <3> HIDE DEF U
    <3>2. Printed(lines, CarriageReturn) \in Seq(U)
      BY <3>1, PrintedAppend
    <3>3. Append(Printed(lines, CarriageReturn), CarriageReturn) \in Seq(U)
      BY <3>1, <3>2
    <3> QED BY <3>3, Zenon DEF other, Packet, lines
  <2>2. NewLine \notin U
    BY <1>3 DEF NewLine, CarriageReturn
  <2> HIDE DEF U
  <2>3. CleanLegacyPacket(other) = Append(other, NewLine)
    BY <2>1, <2>2, CleanUnbroken
  <2> QED BY <1>2, <1>9, <2>3, Zenon DEF other
<1> QED BY <1>1, <1>2, <1>9, <1>11, <1>12, <1>13, Zenon DEF text, other

(***************************************************************************)
(* Setting and removing headers                                            *)
(***************************************************************************)
LEMMA FirstPlace ==
  ASSUME NEW H, NEW msg \in Seq(H), NEW name
  PROVE  /\ Places(msg, name) \subseteq 1..Len(msg)
         /\ Has(msg, name) => /\ Min(Places(msg, name)) \in Places(msg, name)
                              /\ Min(Places(msg, name)) \in 1..Len(msg)
                              /\ msg[Min(Places(msg, name))] \in H
                              /\ msg[Min(Places(msg, name))][1] = name
<1> DEFINE S == Places(msg, name)
<1>1. S \subseteq 1..Len(msg) /\ \A i \in S : msg[i][1] = name
  BY DEF Places
<1>2. ASSUME S # {} PROVE Min(S) \in S
  <2> HIDE DEF S
  <2>1. S \in SUBSET Nat
    BY <1>1
  <2>2. PICK k \in S : \A i \in S : k <= i
    BY <1>2, <2>1, Least
  <2>3. Min(S) = k
    BY <2>1, <2>2, LeastOf
  <2> QED BY <2>2, <2>3
<1> HIDE DEF S
<1>3. \A i \in 1..Len(msg) : msg[i] \in H
  OBVIOUS
<1> QED BY <1>1, <1>2, <1>3, Zenon DEF Has, S

\* A header set is the first of its name, and the other names keep theirs.
SetsHeader(msg, name, word, set) ==
    /\ Has(set, name) /\ FirstOf(set, name) = <<word>>
    /\ \A other : other # name => /\ Has(set, other) <=> Has(msg, other)
                                  /\ Has(msg, other) => FirstOf(set, other) = FirstOf(msg, other)

LEMMA AddedHeader ==
  ASSUME NEW H, NEW msg \in Seq(H), NEW name, NEW word, Header(name, word) \in H, ~Has(msg, name)
  PROVE  SetsHeader(msg, name, word, AddHeader(msg, name, word)) /\ AddHeader(msg, name, word) \in Seq(H)
<1> DEFINE h == Header(name, word)  set == Append(msg, h)
<1>1. h[1] = name /\ h[2] = <<word>>
  BY DEF Header
<1> HIDE DEF h
<1>2. /\ set \in Seq(H) /\ Len(set) = Len(msg) + 1 /\ Len(msg) \in Nat
      /\ \A i \in 1..Len(msg) : set[i] = msg[i]
      /\ set[Len(msg) + 1] = h
      /\ DOMAIN set = 1..(Len(msg) + 1) /\ DOMAIN msg = 1..Len(msg)
  BY DEF h
<1> HIDE DEF set
<1>3. \A i \in 1..(Len(msg) + 1) : i \in 1..Len(msg) \/ i = Len(msg) + 1
  BY <1>2
<1>4. \A i \in 1..Len(msg) : i \in 1..(Len(msg) + 1)
  BY <1>2
<1>5. Len(msg) + 1 \in 1..(Len(msg) + 1)
  BY <1>2
<1>6. Places(set, name) = {Len(msg) + 1}
  <2>1. Places(msg, name) = {}
    BY Zenon DEF Has
  <2>2. \A i \in 1..Len(msg) : msg[i][1] # name
    BY <1>2, <2>1 DEF Places
  <2> QED BY <1>1, <1>2, <1>3, <1>5, <2>2 DEF Places
<1>7. Has(set, name) /\ FirstOf(set, name) = <<word>>
  <2>1. Min(Places(set, name)) = Len(msg) + 1
    <3>1. \A i \in {Len(msg) + 1} : Len(msg) + 1 <= i
      BY <1>2
    <3>2. {Len(msg) + 1} \in SUBSET Nat
      BY <1>2
    <3> QED BY <1>6, <3>1, <3>2, LeastOf
  <2> QED BY <1>1, <1>2, <1>6, <2>1, Zenon DEF Has, FirstOf
<1>8. ASSUME NEW other, other # name
      PROVE  /\ Has(set, other) <=> Has(msg, other)
             /\ Has(msg, other) => FirstOf(set, other) = FirstOf(msg, other)
  <2>1. Places(set, other) = Places(msg, other)
    BY <1>1, <1>2, <1>3, <1>4, <1>8 DEF Places
  <2>2. Has(msg, other) => Min(Places(msg, other)) \in 1..Len(msg)
    BY FirstPlace
  <2> QED BY <1>2, <2>1, <2>2, Zenon DEF Has, FirstOf
<1> QED BY <1>2, <1>7, <1>8, Zenon DEF SetsHeader, AddHeader, set, h

LEMMA HeaderSet ==
  ASSUME NEW H, NEW msg \in Seq(H), NEW name, NEW word, Header(name, word) \in H
  PROVE  SetsHeader(msg, name, word, SetHeader(msg, name, word)) /\ SetHeader(msg, name, word) \in Seq(H)
<1>1. CASE ~Has(msg, name)
  <2>1. SetHeader(msg, name, word) = AddHeader(msg, name, word)
    BY <1>1, Zenon DEF SetHeader
  <2> QED BY <1>1, <2>1, AddedHeader
<1>2. CASE Has(msg, name)
  <2> DEFINE p == Min(Places(msg, name))  h == Header(name, word)  set == [msg EXCEPT ![p] = h]
  <2>1. h[1] = name /\ h[2] = <<word>>
    BY DEF Header
  <2>2. p \in 1..Len(msg) /\ msg[p][1] = name
    BY <1>2, FirstPlace
  <2>3. SetHeader(msg, name, word) = set
    BY <1>2, Zenon DEF SetHeader, ReplaceAt
  <2> HIDE DEF h, p
  <2>4. /\ set \in Seq(H) /\ DOMAIN set = DOMAIN msg /\ DOMAIN msg = 1..Len(msg) /\ set[p] = h
        /\ \A i \in DOMAIN msg : i # p => set[i] = msg[i]
    BY <2>2 DEF h
  <2> HIDE DEF set
  <2>5. \A other : Places(set, other) = Places(msg, other)
    BY <2>1, <2>2, <2>4 DEF Places
  <2>6. Has(set, name) /\ FirstOf(set, name) = <<word>>
    <3>1. Min(Places(set, name)) = p
      BY <2>5, Zenon DEF p
    <3> QED BY <1>2, <2>1, <2>4, <2>5, <3>1, Zenon DEF Has, FirstOf
  <2>7. ASSUME NEW other, other # name
        PROVE  /\ Has(set, other) <=> Has(msg, other)
               /\ Has(msg, other) => FirstOf(set, other) = FirstOf(msg, other)
    <3>1. Has(msg, other) => Min(Places(msg, other)) \in 1..Len(msg) /\ msg[Min(Places(msg, other))][1] = other
      BY FirstPlace
    <3>2. Has(msg, other) => Min(Places(msg, other)) # p
      BY <2>2, <2>7, <3>1, Zenon
    <3> QED BY <2>4, <2>5, <3>1, <3>2, Zenon DEF Has, FirstOf
  <2> QED BY <2>3, <2>4, <2>6, <2>7, Zenon DEF SetsHeader
<1> QED BY <1>1, <1>2

LEMMA SiftAll ==
  ASSUME NEW S, NEW s \in Seq(S), NEW P, \A i \in 1..Len(s) : s[i] \in P
  PROVE  Sift(s, P) = s
<1> DEFINE R == {e \in S : e \in P}  T == {v \in Seq(R) : Sift(v, P) = v}
<1>1. s \in Seq(R)
  <2>1. \A i \in 1..Len(s) : s[i] \in R
    OBVIOUS
  <2>2. s = [i \in 1..Len(s) |-> s[i]] /\ Len(s) \in Nat
    OBVIOUS
  <2> HIDE DEF R
  <2> QED BY <2>1, <2>2
<1>2. << >> \in T
  <2>1. << >> \in Seq(R)
    OBVIOUS
  <2> QED BY <2>1, SiftEmpty
<1>3. ASSUME NEW v \in Seq(R), NEW e \in R, v \in T PROVE Append(v, e) \in T
  <2>1. Sift(Append(v, e), P) = SiftNext(Sift(v, P), e, P)
    BY SiftAppend
  <2>2. e \in P /\ Sift(v, P) = v
    BY <1>3
  <2>3. Sift(Append(v, e), P) = Append(v, e)
    BY <2>1, <2>2, Zenon DEF SiftNext
  <2>4. Append(v, e) \in Seq(R)
    OBVIOUS
  <2> QED BY <2>3, <2>4, Zenon
<1>4. s \in T
  <2> HIDE DEF T, R
  <2> QED BY <1>1, <1>2, <1>3, Growth
<1> QED BY <1>4

\* Without the header added last nothing else is missing.
LEMMA RemovedAgain ==
  ASSUME NEW H, NEW msg \in Seq(H), NEW name, NEW word, Header(name, word) \in H, ~Has(msg, name)
  PROVE  RemoveAll(AddHeader(msg, name, word), name) = msg
<1> DEFINE h == Header(name, word)  set == Append(msg, h)
           P == {set[i] : i \in DOMAIN set \ Places(set, name)}
<1>1. h[1] = name
  BY DEF Header
<1> HIDE DEF h
<1>2. /\ set \in Seq(H) /\ Len(msg) \in Nat
      /\ \A i \in 1..Len(msg) : set[i] = msg[i]
      /\ DOMAIN set = 1..(Len(msg) + 1) /\ DOMAIN msg = 1..Len(msg)
  BY DEF h
<1>3. RemoveAll(set, name) = Sift(set, P)
  BY Zenon DEF RemoveAll
<1>4. \A i \in 1..Len(msg) : msg[i] \in P
  <2> SUFFICES ASSUME NEW i \in 1..Len(msg) PROVE msg[i] \in P
    OBVIOUS
  <2>1. Places(msg, name) = {}
    BY Zenon DEF Has
  <2>2. msg[i][1] # name
    BY <1>2, <2>1 DEF Places
  <2>3. i \in DOMAIN set \ Places(set, name)
    <3> HIDE DEF set
    <3>1. i \in 1..(Len(msg) + 1)
      BY <1>2
    <3> QED BY <1>2, <2>2, <3>1 DEF Places
  <2> HIDE DEF set
  <2> QED BY <1>2, <2>3
<1>5. h \notin P
  <2> HIDE DEF set
  <2> QED BY <1>1 DEF Places
<1>6. Sift(set, P) = SiftNext(Sift(msg, P), h, P)
  <2> HIDE DEF P
  <2> QED BY SiftAppend DEF h
<1> HIDE DEF P
<1>7. Sift(msg, P) = msg
  BY <1>4, SiftAll
<1> QED BY <1>3, <1>5, <1>6, <1>7, Zenon DEF SiftNext, AddHeader, set, h

(***************************************************************************)
(* What a signature covers                                                 *)
(***************************************************************************)
LEMMA MostOf ==
  ASSUME NEW S \in SUBSET Nat, NEW k \in S, \A i \in S : i <= k
  PROVE  Max(S) = k
<1>1. Max(S) \in S /\ \A i \in S : Max(S) >= i
  BY DEF Max
<1>2. Max(S) \in Nat /\ k \in Nat /\ Max(S) <= k /\ k <= Max(S)
  BY <1>1
<1> QED BY <1>2

LEMMA TrimBreaks ==
  ASSUME NEW S, NEW text \in Seq(S), NEW n \in 0..Len(text),
         n # 0 => ~IsBreak(text[n]), \A i \in (n + 1)..Len(text) : IsBreak(text[i])
  PROVE  Trim(text) = SubSeq(text, 1, n)
<1> DEFINE K == {0} \cup {i \in DOMAIN text : ~IsBreak(text[i])}
<1>1. DOMAIN text = 1..Len(text) /\ Len(text) \in Nat /\ n \in Nat /\ n <= Len(text)
  OBVIOUS
<1>2. n \in K
  <2>1. n # 0 => n \in 1..Len(text)
    BY <1>1
  <2> QED BY <1>1, <2>1
<1>3. \A i \in K : i \in Nat /\ i <= n
  <2> SUFFICES ASSUME NEW i \in 1..Len(text), ~IsBreak(text[i]) PROVE i \in Nat /\ i <= n
    BY <1>1
  <2>1. i \notin (n + 1)..Len(text)
    OBVIOUS
  <2> QED BY <1>1, <2>1
<1>4. Max(K) = n
  <2> HIDE DEF K
  <2>1. K \in SUBSET Nat /\ \A i \in K : i <= n
    BY <1>3
  <2> QED BY <1>2, <2>1, MostOf
<1>5. Trim(text) = SubSeq(text, 1, Max(K))
  BY Zenon DEF Trim
<1> HIDE DEF K
<1> QED BY <1>4, <1>5, Zenon

\* The text of a message but for the newlines that are trimmed.
Untrimmed(text) == IF Len(text) = 0 THEN <<NewLine>> ELSE Append(Append(text, NewLine), NewLine)

LEMMA TrimmedText ==
  ASSUME NEW N, NEW W, NEW msg \in Seq(Headers(N, W))
  PROVE  AsString(msg) = Untrimmed(Trim(AsString(msg)))
<1> DEFINE S == Tokens(N, W)  L == HeaderLines(N, W)  lines == LinesOf(msg)  text == AsString(msg)
<1>1. text = Append(Printed(lines, NewLine), NewLine)
  BY AsStringIs, Zenon DEF Packet
<1>2. lines \in Seq(L)
  BY LinesType
<1>3. L \subseteq S /\ (\A line \in L : ~IsBreak(line)) /\ NewLine \in S /\ IsBreak(NewLine)
  <2>1. NewLine \in Breaks
    BY DEF Breaks
  <2> QED BY <2>1, TokensRead
<1> HIDE DEF S, L, lines, text
<1>4. CASE lines = << >>
  <2> DEFINE v == << >>
  <2>1. Printed(lines, NewLine) = v
    BY <1>4, PrintedEmpty
  <2>2. /\ Append(v, NewLine) = <<NewLine>> /\ <<NewLine>> \in Seq(S) /\ Len(<<NewLine>>) = 1
        /\ \A i \in 1..1 : <<NewLine>>[i] = NewLine
    BY <1>3
  <2>3. text = <<NewLine>>
    BY <1>1, <2>1, <2>2, Zenon
  <2> HIDE DEF v
  <2>4. text \in Seq(S) /\ Len(text) = 1 /\ \A i \in 1..1 : text[i] = NewLine
    BY <2>2, <2>3, Zenon
  <2>5. Trim(text) = SubSeq(text, 1, 0)
    <3>1. 0 \in 0..Len(text) /\ \A i \in (0 + 1)..Len(text) : IsBreak(text[i])
      BY <1>3, <2>4
    <3> QED BY <2>4, <3>1, TrimBreaks
  <2>6. Len(SubSeq(text, 1, 0)) = 0
    BY <2>4
  <2> QED BY <2>3, <2>5, <2>6, Zenon DEF Untrimmed, text
<1>5. CASE lines # << >>
  <2> DEFINE front == SubSeq(lines, 1, Len(lines) - 1)  line == lines[Len(lines)]
             v == Printed(front, NewLine)  t == Append(v, line)
  <2>1. front \in Seq(L) /\ line \in L /\ lines = Append(front, line)
    BY <1>2, <1>5
  <2> HIDE DEF front, line
  <2>2. front \in Seq(S) /\ line \in S /\ ~IsBreak(line)
    BY <1>3, <2>1
  <2>3. Printed(lines, NewLine) = Append(t, NewLine) /\ v \in Seq(S)
    <3>1. NewLine \in S
      BY <1>3
    <3>2. /\ Printed(Append(front, line), NewLine) = Append(Append(Printed(front, NewLine), line), NewLine)
          /\ Printed(front, NewLine) \in Seq(S)
      BY <2>2, <3>1, PrintedAppend, Zenon
    <3> QED BY <2>1, <3>2, Zenon
  <2> HIDE DEF v
  <2>4. /\ t \in Seq(S) /\ Len(t) \in Nat /\ Len(t) # 0 /\ t[Len(t)] = line
    BY <2>2, <2>3
  <2> HIDE DEF t
  <2>5. text = Append(Append(t, NewLine), NewLine)
    BY <1>1, <2>3, Zenon
  <2>6. /\ text \in Seq(S) /\ Len(text) = Len(t) + 2 /\ text[Len(t)] = t[Len(t)]
        /\ text[Len(t) + 1] = NewLine /\ text[Len(t) + 2] = NewLine /\ SubSeq(text, 1, Len(t)) = t
    BY <1>3, <2>4, <2>5
  <2>7. Trim(text) = SubSeq(text, 1, Len(t))
    <3>1. Len(t) \in 0..Len(text) /\ ~IsBreak(text[Len(t)])
      BY <2>2, <2>4, <2>6
    <3>2. \A i \in (Len(t) + 1)..Len(text) : i = Len(t) + 1 \/ i = Len(t) + 2
      BY <2>4, <2>6
    <3>3. \A i \in (Len(t) + 1)..Len(text) : IsBreak(text[i])
      BY <1>3, <2>6, <3>2, Zenon
    <3> QED BY <2>6, <3>1, <3>3, TrimBreaks
  <2>8. Trim(text) = t
    BY <2>6, <2>7, Zenon
  <2> QED BY <2>4, <2>5, <2>8, Zenon DEF Untrimmed, text
<1> QED BY <1>4, <1>5

\* No two messages have the same text to sign.
LEMMA OneText ==
  ASSUME NEW N, NEW W, NEW a \in Seq(Headers(N, W)), NEW b \in Seq(Headers(N, W)),
         Trim(AsString(a)) = Trim(AsString(b))
  PROVE  a = b
<1>1. AsString(a) = AsString(b)
  <2>1. AsString(a) = Untrimmed(Trim(AsString(a)))
    BY TrimmedText
  <2>2. AsString(b) = Untrimmed(Trim(AsString(b)))
    BY TrimmedText
  <2> QED BY <2>1, <2>2, Zenon
<1>2. Parse(AsString(a)) = a
  BY PacketSurvives
<1>3. Parse(AsString(b)) = b
  BY PacketSurvives
<1> QED BY <1>1, <1>2, <1>3, Zenon

\* msg with the header of who sends it and when.
Named(msg, account, timestamp) ==
    SetHeader(SetHeader(msg, "User", account.user), "Time", Number(timestamp))
SigOf(msg, account, timestamp) ==
    SignMsg(HashKey(account.key, <<account.user>>), timestamp, Named(msg, account, timestamp))

\* A message without a signature gets one as its last header.
LEMMA SignedHeaders ==
  ASSUME NEW N, NEW W, NEW msg \in Seq(Headers(N, W)), ~Has(msg, "Sig"), NEW account, NEW timestamp,
         {"User", "Time", "Sig"} \subseteq N,
         {account.user, Number(timestamp), SigOf(msg, account, timestamp)} \subseteq W
  PROVE  LET signed == SignForAccount(msg, account, timestamp)
         IN /\ signed \in Seq(Headers(N, W)) /\ Named(msg, account, timestamp) \in Seq(Headers(N, W))
            /\ Has(signed, "User") /\ Has(signed, "Time") /\ Has(signed, "Sig")
            /\ FirstOf(signed, "User") = <<account.user>> /\ FirstOf(signed, "Time") = <<Number(timestamp)>>
            /\ FirstOf(signed, "Sig") = <<SigOf(msg, account, timestamp)>>
            /\ RemoveAll(signed, "Sig") = Named(msg, account, timestamp)
<1> DEFINE H == Headers(N, W)  user == SetHeader(msg, "User", account.user)
           named == Named(msg, account, timestamp)  sig == SigOf(msg, account, timestamp)
           signed == SignForAccount(msg, account, timestamp)
<1>1. \A n \in N, v \in W : Header(n, v) \in H
  <2> SUFFICES ASSUME NEW n \in N, NEW v \in W PROVE Header(n, v) \in H
    OBVIOUS
  <2>1. <<n, v>> \in N \X W /\ <<n, v>>[1] = n /\ <<n, v>>[2] = v
    OBVIOUS
  <2> QED BY <2>1, Zenon DEF Headers
<1>2. /\ "User" \in N /\ "Time" \in N /\ "Sig" \in N
      /\ account.user \in W /\ Number(timestamp) \in W /\ sig \in W
  OBVIOUS
<1>3. named = SetHeader(user, "Time", Number(timestamp)) /\ signed = SetHeader(named, "Sig", sig)
  BY Zenon DEF SignForAccount, Named, SigOf
<1>4. msg \in Seq(H)
  OBVIOUS
<1> HIDE DEF H, user, named, sig, signed
<1>5. SetsHeader(msg, "User", account.user, user) /\ user \in Seq(H)
  BY <1>1, <1>2, <1>4, HeaderSet DEF user
<1>6. SetsHeader(user, "Time", Number(timestamp), named) /\ named \in Seq(H)
  BY <1>1, <1>2, <1>3, <1>5, HeaderSet
<1>7. SetsHeader(named, "Sig", sig, signed) /\ signed \in Seq(H)
  BY <1>1, <1>2, <1>3, <1>6, HeaderSet
<1>8. ~Has(named, "Sig")
  BY <1>5, <1>6 DEF SetsHeader
<1>9. Has(named, "User") /\ FirstOf(named, "User") = <<account.user>>
  <2>1. Has(user, "User") /\ FirstOf(user, "User") = <<account.user>>
    BY <1>5, Zenon DEF SetsHeader
  <2> QED BY <1>6, <2>1 DEF SetsHeader
<1>10. Has(named, "Time") /\ FirstOf(named, "Time") = <<Number(timestamp)>>
  BY <1>6, Zenon DEF SetsHeader
<1>11. /\ Has(signed, "User") /\ FirstOf(signed, "User") = <<account.user>>
       /\ Has(signed, "Time") /\ FirstOf(signed, "Time") = <<Number(timestamp)>>
  <2>1. "User" # "Sig" /\ "Time" # "Sig"
    OBVIOUS
  <2> QED BY <1>7, <1>9, <1>10, <2>1, Zenon DEF SetsHeader
<1>12. Has(signed, "Sig") /\ FirstOf(signed, "Sig") = <<sig>>
  BY <1>7, Zenon DEF SetsHeader
<1>13. RemoveAll(signed, "Sig") = named
  <2>1. signed = AddHeader(named, "Sig", sig)
    BY <1>3, <1>8, Zenon DEF SetHeader
  <2> QED BY <1>1, <1>2, <1>6, <1>8, <2>1, RemovedAgain
<1> QED BY <1>6, <1>7, <1>11, <1>12, <1>13, Zenon DEF signed, named, sig, H

LEMMA MoreHeaders ==
  ASSUME NEW N, NEW W, NEW N2, N \subseteq N2, NEW W2, W \subseteq W2, NEW msg \in Seq(Headers(N, W))
  PROVE  msg \in Seq(Headers(N2, W2))
<1> DEFINE H == Headers(N, W)  K == Headers(N2, W2)
<1>1. H \subseteq K
  <2> SUFFICES ASSUME NEW h \in H PROVE h \in K
    OBVIOUS
  <2>1. PICK p \in N \X W : h = Header(p[1], p[2])
    BY DEF Headers
  <2>2. p \in N2 \X W2
    OBVIOUS
  <2> QED BY <2>1, <2>2, Zenon DEF Headers
<1>2. msg \in Seq(H)
  OBVIOUS
<1> HIDE DEF H, K
<1>3. msg \in Seq(K)
  BY <1>1, <1>2
<1> QED BY <1>3, Zenon DEF K

SignNames == {"User", "Time", "Sig"}
SignWords(msg, account, timestamp) ==
    {account.user, Number(timestamp), SigOf(msg, account, timestamp)}

\* A request signed by a client and received in whatever line ends is verified
\* with the headers it was sent with: it is good exactly if the key is that of the
\* account and its time is near, and the difference of the times panics exactly
\* in a build with overflow checks for a time half the range away or more
\* (sign_for_account and verify_signature of account.rs, clean_legacy_packet of
\* server.rs).  P is half the range of a timestamp.
THEOREM SignedAccepted ==
  ASSUME NEW P \in Nat \ {0}, P = 2^(Width - 1), 2^Width = 2 * P,
         NEW now \in Int, 0 <= now, now < P, NEW timestamp \in Int, -P <= timestamp, timestamp < P,
         NEW N, NEW W, NEW msg \in Seq(Headers(N, W)), ~Has(msg, "Sig"), NEW account, NEW key, NEW checks
  PROVE  LET signed == SignForAccount(msg, account, timestamp)
         IN /\ Parse(CleanLegacyPacket(AsString(signed))) = signed
            /\ Parse(CleanLegacyPacket(Doubled(AsString(signed)))) = signed
            /\ Parse(CleanLegacyPacket(Packet(signed, CarriageReturn))) = signed
            /\ VerifySignature(signed, key, now, checks) =
                 IF checks /\ now - timestamp >= P THEN "panic"
                 ELSE IF key = account.key /\ Near(now, timestamp, P) THEN "ok" ELSE "refused"
<1> DEFINE signed == SignForAccount(msg, account, timestamp)  named == Named(msg, account, timestamp)
           sig == SigOf(msg, account, timestamp)
           N2 == N \cup SignNames  W2 == W \cup SignWords(msg, account, timestamp)
<1>1. msg \in Seq(Headers(N2, W2)) /\ SignNames \subseteq N2 /\ SignWords(msg, account, timestamp) \subseteq W2
  <2>1. N \subseteq N2 /\ W \subseteq W2 /\ SignNames \subseteq N2 /\ SignWords(msg, account, timestamp) \subseteq W2
    OBVIOUS
  <2> HIDE DEF N2, W2
  <2> QED BY <2>1, MoreHeaders
<1> HIDE DEF N2, W2
<1>2. /\ signed \in Seq(Headers(N2, W2)) /\ named \in Seq(Headers(N2, W2))
      /\ Has(signed, "User") /\ Has(signed, "Time") /\ Has(signed, "Sig")
      /\ FirstOf(signed, "User") = <<account.user>> /\ FirstOf(signed, "Time") = <<Number(timestamp)>>
      /\ FirstOf(signed, "Sig") = <<sig>>
      /\ RemoveAll(signed, "Sig") = named
  BY <1>1, SignedHeaders DEF SignNames, SignWords
<1> HIDE DEF signed, named
<1>3. /\ AsString(signed) = Packet(signed, NewLine)
      /\ Parse(AsString(signed)) = signed
      /\ Parse(CleanLegacyPacket(AsString(signed))) = signed
      /\ Parse(CleanLegacyPacket(Doubled(AsString(signed)))) = signed
      /\ Parse(CleanLegacyPacket(Packet(signed, CarriageReturn))) = signed
  BY <1>2, PacketSurvives
<1>4. FirstOf(signed, "Time")[1].n = timestamp /\ FirstOf(signed, "Time")[1].form = "number"
      /\ Len(FirstOf(signed, "Time")) = 1
  BY <1>2 DEF Number
<1>5. \A name \in {"Time", "User", "Sig"} : Has(signed, name)
  BY <1>2
<1>6. <<sig>> = <<SignMsg(HashKey(key, <<account.user>>), timestamp, named)>> <=> key = account.key
  <2>1. sig = SignMsg(HashKey(account.key, <<account.user>>), timestamp, named)
    BY Zenon DEF SigOf, named
  <2>2. \A j, k : HashKey(j, <<account.user>>) = HashKey(k, <<account.user>>) <=> j = k
    BY DEF HashKey
  <2> HIDE DEF sig
  <2>3. \A h, k : SignMsg(h, timestamp, named) = SignMsg(k, timestamp, named) <=> h = k
    BY DEF SignMsg
  <2> DEFINE other == SignMsg(HashKey(key, <<account.user>>), timestamp, named)
  <2>4. sig = other <=> key = account.key
    BY <2>1, <2>2, <2>3, Zenon
  <2> HIDE DEF other
  <2>5. <<sig>> = <<other>> <=> sig = other
    OBVIOUS
  <2> QED BY <2>4, <2>5, Zenon DEF other
<1> HIDE DEF sig
<1>7. FirstOf(signed, "Sig") = <<SignMsg(HashKey(key, FirstOf(signed, "User")), timestamp, RemoveAll(signed, "Sig"))>>
        <=> key = account.key
  BY <1>2, <1>6, Zenon
<1>8. /\ Overflows(now, timestamp) <=> now - timestamp >= P
      /\ Distance(now, timestamp) <= MaxTimestampDifference <=> Near(now, timestamp, P)
  <2>1. MaxTimestampDifference \in Nat
    BY WireAssumption
  <2> QED BY <2>1, NearOrNot
<1>9. VerifySignature(signed, key, now, checks) =
        IF checks /\ now - timestamp >= P THEN "panic"
        ELSE IF key = account.key /\ Near(now, timestamp, P) THEN "ok" ELSE "refused"
  BY <1>4, <1>5, <1>7, <1>8, Zenon DEF VerifySignature
<1> QED BY <1>3, <1>9, Zenon DEF signed

\* Whatever happened to it on the way, a message with headers of one line each that
\* verifies with the signature of a request that was sent has the headers that it
\* was sent with, all of them and in their order, and the key is that of the account
\* (verify_signature of account.rs and as_string of message.rs; the hash is taken
\* as injective).
THEOREM SignatureBinds ==
  ASSUME NEW N, NEW W, NEW msg \in Seq(Headers(N, W)), ~Has(msg, "Sig"), NEW account, NEW timestamp,
         NEW received \in Seq(Headers(N, W)), NEW key, NEW now, NEW checks,
         FirstOf(received, "Sig") = FirstOf(SignForAccount(msg, account, timestamp), "Sig"),
         VerifySignature(received, key, now, checks) = "ok"
  PROVE  /\ RemoveAll(received, "Sig") = RemoveAll(SignForAccount(msg, account, timestamp), "Sig")
         /\ key = account.key
<1> DEFINE signed == SignForAccount(msg, account, timestamp)  named == Named(msg, account, timestamp)
           sig == SigOf(msg, account, timestamp)  rest == RemoveAll(received, "Sig")
           at == FirstOf(received, "Time")[1].n
           N2 == N \cup SignNames  W2 == W \cup SignWords(msg, account, timestamp)
<1>1. /\ msg \in Seq(Headers(N2, W2)) /\ SignNames \subseteq N2 /\ SignWords(msg, account, timestamp) \subseteq W2
      /\ received \in Seq(Headers(N2, W2))
  <2>1. N \subseteq N2 /\ W \subseteq W2 /\ SignNames \subseteq N2 /\ SignWords(msg, account, timestamp) \subseteq W2
    OBVIOUS
  <2> HIDE DEF N2, W2
  <2> QED BY <2>1, MoreHeaders
<1> HIDE DEF N2, W2
<1>2. /\ named \in Seq(Headers(N2, W2)) /\ FirstOf(signed, "Sig") = <<sig>> /\ RemoveAll(signed, "Sig") = named
  BY <1>1, SignedHeaders DEF SignNames, SignWords
<1> HIDE DEF named, sig
<1>3. FirstOf(received, "Sig") = <<SignMsg(HashKey(key, FirstOf(received, "User")), at, rest)>>
  BY Zenon DEF VerifySignature
<1>4. rest \in Seq(Headers(N2, W2))
  BY <1>1, SiftType DEF RemoveAll
<1> HIDE DEF signed, rest, at
<1>5. sig = SignMsg(HashKey(key, FirstOf(received, "User")), at, rest)
  <2>1. <<sig>> = <<SignMsg(HashKey(key, FirstOf(received, "User")), at, rest)>>
    BY <1>2, <1>3, Zenon DEF signed
  <2> HIDE DEF sig
  <2> QED BY <2>1
<1>6. sig = SignMsg(HashKey(account.key, <<account.user>>), timestamp, named)
  BY Zenon DEF SigOf, sig, named
<1>7. /\ HashKey(key, FirstOf(received, "User")) = HashKey(account.key, <<account.user>>)
      /\ Trim(AsString(rest)) = Trim(AsString(named))
  BY <1>5, <1>6 DEF SignMsg
<1>8. rest = named
  BY <1>2, <1>4, <1>7, OneText
<1>9. key = account.key
  BY <1>7 DEF HashKey
<1> QED BY <1>2, <1>8, <1>9, Zenon DEF rest, signed

Noise(W) == {Other(word) : word \in W}

LEMMA NoiseRead ==
  ASSUME NEW N, NEW W, NEW lines \in Seq(HeaderLines(N, W) \cup Noise(W))
  PROVE  /\ Readable(Tokens(N, W) \cup Noise(W), Seq(Headers(N, W)))
         /\ \A line \in HeaderLines(N, W) \cup Noise(W) : ~IsBreak(line)
         /\ HeadersOf(lines) = HeadersOf(Sift(lines, HeaderLines(N, W)))
<1> DEFINE K == HeaderLines(N, W)  O == Noise(W)  S == Tokens(N, W) \cup O  V == Seq(Headers(N, W))
           L == K \cup O
           T == {v \in Seq(L) : HeadersOf(v) = HeadersOf(Sift(v, K))}
<1>1. \A line \in O : line.kind = "other"
  BY DEF Noise, Other
<1>2. /\ Readable(Tokens(N, W), V) /\ K \subseteq Tokens(N, W)
      /\ \A line \in K : ~IsBreak(line)
  BY TokensRead
<1>3. \A line \in K : line.kind = "header"
  BY DEF HeaderLines, HeaderLine
<1>4. \A line \in O, msg \in V : AddLine(msg, line) = msg
  BY <1>1 DEF AddLine
<1> HIDE DEF K, O, V
<1>5. Readable(S, V)
  BY <1>2, <1>4 DEF Readable
<1>6. \A line \in L : ~IsBreak(line)
  BY <1>1, <1>2 DEF IsBreak
<1>7. L \subseteq S
  BY <1>2
<1> HIDE DEF S, T, L
<1>8. << >> \in T
  <2>1. Sift(<< >>, K) = << >>
    BY SiftEmpty
  <2>2. << >> \in Seq(L)
    OBVIOUS
  <2> QED BY <2>1, <2>2, Zenon DEF T
<1>9. ASSUME NEW v \in Seq(L), NEW e \in L, v \in T PROVE Append(v, e) \in T
  <2> DEFINE u == Sift(v, K)  w == Append(v, e)
  <2>1. Sift(w, K) = SiftNext(u, e, K)
    BY SiftAppend
  <2>2. u \in Seq(L) /\ w \in Seq(L)
    BY SiftType
  <2>3. HeadersOf(v) = HeadersOf(u)
    BY <1>9, Zenon DEF T
  <2>4. v \in Seq(S) /\ u \in Seq(S) /\ e \in S
    <3> HIDE DEF u, w
    <3> QED BY <1>7, <2>2
  <2>5. HeadersOf(w) = AddLine(HeadersOf(v), e)
    BY <1>5, <2>4, ReadLaws
  <2>6. HeadersOf(v) \in V
    BY <1>5, <2>4, ReadFolds
  <2>7. HeadersOf(Append(u, e)) = AddLine(HeadersOf(u), e)
    <3> HIDE DEF u
    <3> QED BY <1>5, <2>4, ReadLaws
  <2>8. HeadersOf(w) = HeadersOf(Sift(w, K))
    <3>1. CASE e \in K
      BY <2>1, <2>3, <2>5, <2>7, <3>1, Zenon DEF SiftNext
    <3>2. CASE e \notin K
      <4>1. e \in O
        BY <3>2 DEF L
      <4> QED BY <1>4, <2>1, <2>3, <2>5, <2>6, <3>2, <4>1, Zenon DEF SiftNext
    <3> QED BY <3>1, <3>2
  <2> QED BY <2>2, <2>8, Zenon DEF T
<1>10. lines \in T
  <2>1. lines \in Seq(L)
    BY DEF L, K, O
  <2> QED BY <1>8, <1>9, <2>1, Growth
<1> QED BY <1>5, <1>6, <1>10, Zenon DEF T, S, L, K, O, V

\* What a packet says is decided by the header lines before its first empty line:
\* neither lines without a colon, nor how lines end, nor what follows matters
\* (the reading of headers in message.rs).
THEOREM HeaderLinesDecide ==
  ASSUME NEW N, NEW W, NEW lines \in Seq(HeaderLines(N, W) \cup Noise(W)),
         NEW break \in Breaks, NEW last \in Breaks, NEW rest \in Seq(Tokens(N, W) \cup Noise(W))
  PROVE  Parse(Append(Printed(lines, break), last) \o rest) = HeadersOf(Sift(lines, HeaderLines(N, W)))
<1> DEFINE L == HeaderLines(N, W) \cup Noise(W)  S == Tokens(N, W) \cup Noise(W)
           V == Seq(Headers(N, W))
<1>1. Readable(S, V) /\ (\A line \in L : ~IsBreak(line))
      /\ HeadersOf(lines) = HeadersOf(Sift(lines, HeaderLines(N, W)))
  BY NoiseRead
<1>2. L \subseteq S /\ break \in S /\ last \in S /\ IsBreak(break) /\ IsBreak(last)
  BY TokensRead
<1>3. lines \in Seq(L) /\ rest \in Seq(S)
  OBVIOUS
<1> HIDE DEF L, S, V
<1>4. Parse(Append(Printed(lines, break), last) \o rest) = HeadersOf(lines)
  BY <1>1, <1>2, <1>3, LinesDecide
<1> QED BY <1>1, <1>4, Zenon

(***************************************************************************)
(* Answers                                                                 *)
(***************************************************************************)
\* The client reads the answer as it was sent, and takes it for one to its
\* request if that had a thread, by that thread.
Answers(answer, request) ==
    /\ Parse(AsString(answer)) = answer
    /\ IsResponse(answer) <=> Has(request, "Thread")
    /\ Has(request, "Thread") => FirstOf(answer, "Thread") = FirstOf(request, "Thread")

\* A message with these three headers, and with the thread of the request if it has one.
Shaped(answer, H, code, diag, version, request) ==
    /\ answer \in Seq(H)
    /\ Has(answer, "Code") /\ FirstOf(answer, "Code") = <<code>>
    /\ Has(answer, "Diag") /\ FirstOf(answer, "Diag") = <<diag>>
    /\ Has(answer, "PV") /\ FirstOf(answer, "PV") = <<version>>
    /\ Has(answer, "Thread") <=> Has(request, "Thread")
    /\ Has(request, "Thread") => FirstOf(answer, "Thread") = FirstOf(request, "Thread")

LEMMA ThreeInARow ==
  ASSUME NEW H, NEW a \in H, NEW b \in H, NEW c \in H
  PROVE  Append(Append(Append(<< >>, a), b), c) = <<a, b, c>>
<1> DEFINE none == << >>  one == Append(none, a)  two == Append(one, b)  three == Append(two, c)
           whole == <<a, b, c>>
<1>1. none \in Seq(H) /\ Len(none) = 0
  OBVIOUS
<1>2. whole \in Seq(H) /\ Len(whole) = 3 /\ whole[1] = a /\ whole[2] = b /\ whole[3] = c
  OBVIOUS
<1> HIDE DEF none, whole
<1>3. one \in Seq(H) /\ Len(one) = 1 /\ one[1] = a
  BY <1>1
<1> HIDE DEF one
<1>4. two \in Seq(H) /\ Len(two) = 2 /\ two[1] = a /\ two[2] = b
  <2>1. /\ two \in Seq(H) /\ Len(two) = Len(one) + 1 /\ two[Len(one) + 1] = b
        /\ \A i \in 1..Len(one) : two[i] = one[i]
    <3>1. Appended(two, H, one, b)
      BY <1>3, Appends, Zenon
    <3> QED BY <3>1, Zenon DEF Appended
  <2> HIDE DEF two
  <2>2. Len(one) + 1 = 2 /\ 1 \in 1..Len(one)
    BY <1>3
  <2> QED BY <1>3, <2>1, <2>2, Zenon
<1> HIDE DEF two
<1>5. three \in Seq(H) /\ Len(three) = 3 /\ three[1] = a /\ three[2] = b /\ three[3] = c
  <2>1. /\ three \in Seq(H) /\ Len(three) = Len(two) + 1 /\ three[Len(two) + 1] = c
        /\ \A i \in 1..Len(two) : three[i] = two[i]
    <3>1. Appended(three, H, two, c)
      BY <1>4, Appends, Zenon
    <3> QED BY <3>1, Zenon DEF Appended
  <2> HIDE DEF three
  <2>2. Len(two) + 1 = 3 /\ 1 \in 1..Len(two) /\ 2 \in 1..Len(two)
    BY <1>4
  <2> QED BY <1>4, <2>1, <2>2, Zenon
<1> HIDE DEF three
<1>6. Len(three) = Len(whole) /\ \A i \in 1..Len(three) : three[i] = whole[i]
  <2>1. \A i \in 1..3 : i = 1 \/ i = 2 \/ i = 3
    OBVIOUS
  <2> QED BY <1>2, <1>5, <2>1, Zenon
<1>7. three = whole
  BY <1>2, <1>5, <1>6, SeqEqual, Zenon
<1> QED BY <1>7, Zenon DEF three, two, one, none, whole

LEMMA ThreeHeaders ==
  ASSUME NEW H, NEW code, NEW diag, NEW version,
         Header("Code", code) \in H, Header("Diag", diag) \in H, Header("PV", version) \in H
  PROVE  LET base == <<Header("Code", code), Header("Diag", diag), Header("PV", version)>>
         IN /\ base \in Seq(H)
            /\ Has(base, "Code") /\ FirstOf(base, "Code") = <<code>>
            /\ Has(base, "Diag") /\ FirstOf(base, "Diag") = <<diag>>
            /\ Has(base, "PV") /\ FirstOf(base, "PV") = <<version>>
            /\ ~Has(base, "Thread")
<1> DEFINE none == << >>  one == AddHeader(none, "Code", code)  two == AddHeader(one, "Diag", diag)
           base == AddHeader(two, "PV", version)
           whole == <<Header("Code", code), Header("Diag", diag), Header("PV", version)>>
<1>1. base = whole
  <2> DEFINE a == Header("Code", code)  b == Header("Diag", diag)  c == Header("PV", version)
  <2>1. a \in H /\ b \in H /\ c \in H
    OBVIOUS
  <2>2. base = Append(Append(Append(<< >>, a), b), c)
    BY Zenon DEF AddHeader
  <2>3. whole = <<a, b, c>>
    OBVIOUS
  <2> HIDE DEF a, b, c, base, whole
  <2> QED BY <2>1, <2>2, <2>3, ThreeInARow, Zenon
<1>2. none \in Seq(H) /\ \A name : ~Has(none, name)
  BY DEF Has, Places
<1>3. "Code" # "Diag" /\ "Code" # "PV" /\ "Diag" # "PV" /\ "Thread" # "Code" /\ "Thread" # "Diag" /\ "Thread" # "PV"
  OBVIOUS
<1> HIDE DEF none, one, two, base, whole
<1>4. SetsHeader(none, "Code", code, one) /\ one \in Seq(H)
  BY <1>2, AddedHeader DEF one
<1>5. ~Has(one, "Diag") /\ ~Has(one, "PV") /\ ~Has(one, "Thread") /\ Has(one, "Code") /\ FirstOf(one, "Code") = <<code>>
  BY <1>2, <1>3, <1>4, Zenon DEF SetsHeader
<1>6. SetsHeader(one, "Diag", diag, two) /\ two \in Seq(H)
  BY <1>4, <1>5, AddedHeader DEF two
<1>7. /\ ~Has(two, "PV") /\ ~Has(two, "Thread") /\ Has(two, "Code") /\ FirstOf(two, "Code") = <<code>>
      /\ Has(two, "Diag") /\ FirstOf(two, "Diag") = <<diag>>
  BY <1>3, <1>5, <1>6, Zenon DEF SetsHeader
<1>8. SetsHeader(two, "PV", version, base) /\ base \in Seq(H)
  BY <1>6, <1>7, AddedHeader DEF base
<1>9. /\ ~Has(base, "Thread") /\ Has(base, "Code") /\ FirstOf(base, "Code") = <<code>>
      /\ Has(base, "Diag") /\ FirstOf(base, "Diag") = <<diag>>
      /\ Has(base, "PV") /\ FirstOf(base, "PV") = <<version>>
  BY <1>3, <1>7, <1>8, Zenon DEF SetsHeader
<1> QED BY <1>1, <1>8, <1>9, Zenon DEF whole

OkWord == Word("OK")
Success == Number(200)

LEMMA AnswerShape ==
  ASSUME NEW N, NEW W, NEW request \in Seq(Headers(N, W)), NEW H, NEW version,
         Header("Code", Success) \in H, Header("Diag", OkWord) \in H, Header("PV", version) \in H,
         \A word \in W : Header("Thread", word) \in H
  PROVE  Shaped(ResponseTo(request, version), H, Success, OkWord, version, request)
<1> DEFINE base == <<Header("Code", Success), Header("Diag", OkWord), Header("PV", version)>>
           more == [i \in 1..(IF Has(request, "Thread") THEN 1 ELSE 0) |-> <<"Thread", FirstOf(request, "Thread")>>]
           answer == ResponseTo(request, version)
<1>1. /\ base \in Seq(H)
      /\ Has(base, "Code") /\ FirstOf(base, "Code") = <<Success>>
      /\ Has(base, "Diag") /\ FirstOf(base, "Diag") = <<OkWord>>
      /\ Has(base, "PV") /\ FirstOf(base, "PV") = <<version>>
      /\ ~Has(base, "Thread")
  BY ThreeHeaders
<1>2. answer = base \o more
  BY Zenon DEF ResponseTo, Success, OkWord
<1> HIDE DEF base, answer
<1>3. CASE ~Has(request, "Thread")
  <2>1. more = << >>
    BY <1>3
  <2> HIDE DEF more
  <2>2. base \o << >> = base
    BY <1>1
  <2>3. answer = base
    BY <1>2, <2>1, <2>2, Zenon
  <2> QED BY <1>1, <1>3, <2>3, Zenon DEF Shaped, answer
<1>4. CASE Has(request, "Thread")
  <2> DEFINE e == <<"Thread", FirstOf(request, "Thread")>>
  <2>1. PICK word \in W : FirstOf(request, "Thread") = <<word>>
    <3> DEFINE h == request[Min(Places(request, "Thread"))]
    <3>1. h \in Headers(N, W)
      BY <1>4, FirstPlace
    <3>2. FirstOf(request, "Thread") = h[2]
      BY Zenon DEF FirstOf
    <3> HIDE DEF h
    <3>3. PICK p \in N \X W : h = Header(p[1], p[2])
      BY <3>1 DEF Headers
    <3>4. h[2] = <<p[2]>> /\ p[2] \in W
      BY <3>3 DEF Header
    <3> QED BY <3>2, <3>4, Zenon
  <2>2. e = Header("Thread", word)
    BY <2>1, Zenon DEF Header
  <2>3. more = <<e>>
    <3>1. more = [i \in 1..1 |-> e]
      BY <1>4
    <3> HIDE DEF e, more
    <3>2. [i \in 1..1 |-> e] = <<e>>
      OBVIOUS
    <3> QED BY <3>1, <3>2, Zenon
  <2> HIDE DEF more, e
  <2>4. e \in H
    BY <2>2
  <2>5. base \o <<e>> = Append(base, e)
    BY <1>1, <2>4
  <2>6. answer = AddHeader(base, "Thread", word)
    BY <1>2, <2>2, <2>3, <2>5, Zenon DEF AddHeader
  <2>7. Header("Thread", word) \in H
    OBVIOUS
  <2>8. SetsHeader(base, "Thread", word, answer) /\ answer \in Seq(H)
    BY <1>1, <2>6, <2>7, AddedHeader
  <2>9. "Code" # "Thread" /\ "Diag" # "Thread" /\ "PV" # "Thread"
    OBVIOUS
  <2> QED BY <1>1, <1>4, <2>1, <2>8, <2>9, Zenon DEF Shaped, SetsHeader, answer
<1> QED BY <1>3, <1>4

\* An error changes the code and the words of an answer, and nothing else.
LEMMA ErrorShape ==
  ASSUME NEW H, NEW answer, NEW c, NEW d, NEW version, NEW request,
         Shaped(answer, H, c, d, version, request), NEW code, NEW diag,
         Header("Code", Number(code)) \in H, Header("Diag", diag) \in H
  PROVE  Shaped(ErrorResponse(answer, code, diag), H, Number(code), diag, version, request)
<1> DEFINE n == Number(code)  coded == SetHeader(answer, "Code", n)  error == ErrorResponse(answer, code, diag)
<1>1. error = SetHeader(coded, "Diag", diag) /\ Header("Code", n) \in H
  BY Zenon DEF ErrorResponse
<1>2. answer \in Seq(H)
  BY Zenon DEF Shaped
<1> HIDE DEF n, coded, error
<1>3. SetsHeader(answer, "Code", n, coded) /\ coded \in Seq(H)
  BY <1>1, <1>2, HeaderSet DEF coded
<1>4. SetsHeader(coded, "Diag", diag, error) /\ error \in Seq(H)
  BY <1>1, <1>3, HeaderSet
<1>5. "Code" # "Diag" /\ "Code" # "PV" /\ "Diag" # "PV" /\ "Thread" # "Code" /\ "Thread" # "Diag"
  OBVIOUS
<1>6. Has(error, "Code") /\ FirstOf(error, "Code") = <<n>>
  BY <1>3, <1>4, <1>5, Zenon DEF SetsHeader
<1>7. Has(error, "Diag") /\ FirstOf(error, "Diag") = <<diag>>
  BY <1>4, Zenon DEF SetsHeader
<1>8. Has(error, "PV") /\ FirstOf(error, "PV") = <<version>>
  <2>1. Has(answer, "PV") /\ FirstOf(answer, "PV") = <<version>>
    BY Zenon DEF Shaped
  <2> QED BY <1>3, <1>4, <1>5, <2>1, Zenon DEF SetsHeader
<1>9. /\ Has(error, "Thread") <=> Has(request, "Thread")
      /\ Has(request, "Thread") => FirstOf(error, "Thread") = FirstOf(request, "Thread")
  <2>1. /\ Has(answer, "Thread") <=> Has(request, "Thread")
        /\ Has(request, "Thread") => FirstOf(answer, "Thread") = FirstOf(request, "Thread")
    BY Zenon DEF Shaped
  <2> QED BY <1>3, <1>4, <1>5, <2>1, Zenon DEF SetsHeader
<1> QED BY <1>4, <1>6, <1>7, <1>8, <1>9, Zenon DEF Shaped, error, n

LEMMA ShapedAnswers ==
  ASSUME NEW N, NEW W, NEW answer, NEW n, NEW d, NEW version, NEW request,
         Shaped(answer, Headers(N, W), Number(n), d, version, request)
  PROVE  Answers(answer, request) /\ (IsOk(answer) <=> n = 200)
<1>1. answer \in Seq(Headers(N, W))
  BY Zenon DEF Shaped
<1>2. Parse(AsString(answer)) = answer
  BY <1>1, PacketSurvives
<1>3. /\ IsResponse(answer) <=> Has(request, "Thread")
      /\ Has(request, "Thread") => FirstOf(answer, "Thread") = FirstOf(request, "Thread")
  BY Zenon DEF Shaped, IsResponse, Threaded
<1>4. IsOk(answer) <=> n = 200
  <2>1. IsOk(answer) <=> <<Number(n)>> = <<Number(200)>>
    BY Zenon DEF Shaped, IsOk
  <2>2. <<Number(n)>> = <<Number(200)>> <=> n = 200
    BY DEF Number
  <2> QED BY <2>1, <2>2, Zenon
<1> QED BY <1>2, <1>3, <1>4, Zenon DEF Answers

\* The client reads the answer to a request as the server made it, takes it for
\* one exactly if the request came with a thread, and then by that very thread;
\* it reads success exactly in an answer without an error (response of
\* message.rs and the error replies of server.rs).
THEOREM AnswerSurvives ==
  ASSUME NEW N, NEW W, NEW request \in Seq(Headers(N, W)), NEW version, NEW code, NEW diag
  PROVE  LET answer == ResponseTo(request, version)
             error == ErrorResponse(answer, code, diag)
         IN /\ Answers(answer, request) /\ IsOk(answer)
            /\ Answers(error, request) /\ (IsOk(error) <=> code = 200)
<1> DEFINE N2 == {"Code", "Diag", "PV", "Thread"}
           W2 == W \cup {Success, OkWord, version, Number(code), diag}
           H == Headers(N2, W2)  answer == ResponseTo(request, version)
           error == ErrorResponse(answer, code, diag)
<1>1. \A name \in N2, word \in W2 : Header(name, word) \in H
  <2> SUFFICES ASSUME NEW name \in N2, NEW word \in W2 PROVE Header(name, word) \in H
    OBVIOUS
  <2>1. <<name, word>> \in N2 \X W2 /\ <<name, word>>[1] = name /\ <<name, word>>[2] = word
    OBVIOUS
  <2> QED BY <2>1, Zenon DEF Headers
<1>2. /\ Header("Code", Success) \in H /\ Header("Diag", OkWord) \in H /\ Header("PV", version) \in H
      /\ Header("Code", Number(code)) \in H /\ Header("Diag", diag) \in H
      /\ \A word \in W : Header("Thread", word) \in H
  <2>1. "Code" \in N2 /\ "Diag" \in N2 /\ "PV" \in N2 /\ "Thread" \in N2
    OBVIOUS
  <2>2. Success \in W2 /\ OkWord \in W2 /\ version \in W2 /\ Number(code) \in W2 /\ diag \in W2 /\ W \subseteq W2
    OBVIOUS
  <2> HIDE DEF N2, W2, H
  <2> QED BY <1>1, <2>1, <2>2
<1> HIDE DEF N2, W2
<1>3. Shaped(answer, H, Success, OkWord, version, request)
  <2> HIDE DEF H, answer
  <2> QED BY <1>2, AnswerShape DEF answer
<1>4. Shaped(error, H, Number(code), diag, version, request)
  <2> HIDE DEF H, answer
  <2> QED BY <1>2, <1>3, ErrorShape
<1> HIDE DEF answer, error
<1>5. Answers(answer, request) /\ (IsOk(answer) <=> 200 = 200)
  <2>1. Shaped(answer, H, Number(200), OkWord, version, request)
    BY <1>3, Zenon DEF Success
  <2> QED BY <2>1, ShapedAnswers
<1>6. Answers(error, request) /\ (IsOk(error) <=> code = 200)
  BY <1>4, ShapedAnswers
<1> QED BY <1>5, <1>6, Zenon DEF answer, error

(***************************************************************************)
(* The conversions of the state machine                                    *)
(***************************************************************************)
\* An output is what the code makes of the input.
Converted ==
    /\ topic = "record" => input \in RecordInputs
    /\ topic = "day" => input \in Days
    /\ topic = "access" => input \in AclInputs
    /\ topic = "file" => input \in FileInputs
    /\ topic = "wire" => input \in WireInputs
    /\ Done("record") => output = Copies(input.codec, input.rec)
    /\ Done("day") => output = <<CivilFromDays(input), CivilFromDays(input + 1)>>
    /\ Done("access") => output = LoadAccessFile(input.access, LoadPasswdFile(input.passwd))
    /\ Done("file") => output = Loaded(input)
    /\ Done("wire") => output = Received(input)

LEMMA ConvertedAlways == ConversionsSpec => []Converted
<1>1. ConversionsInit => Converted
  BY DEF ConversionsInit, Converted, Done
<1>2. ASSUME Converted, [ConversionsNext]_conversionVars PROVE Converted'
  <2>1. CASE UNCHANGED conversionVars
    BY <1>2, <2>1 DEF conversionVars, Converted, Done
  <2>2. ASSUME NEW about, NEW result, Convert(about, result),
               \/ about = "record" /\ result = Copies(input.codec, input.rec)
               \/ about = "day" /\ result = <<CivilFromDays(input), CivilFromDays(input + 1)>>
               \/ about = "access" /\ result = LoadAccessFile(input.access, LoadPasswdFile(input.passwd))
               \/ about = "file" /\ result = Loaded(input)
               \/ about = "wire" /\ result = Received(input)
        PROVE  Converted'
    BY <1>2, <2>2 DEF Convert, Converted, Done
  <2> QED BY <1>2, <2>1, <2>2 DEF ConversionsNext
<1> QED BY <1>1, <1>2, PTL DEF ConversionsSpec

\* The last member of S among the first n numbers.
LEMMA LastOf ==
  ASSUME NEW n \in Nat, NEW S \in SUBSET (1..n), NEW G
  PROVE  (\E i \in 1..n : i \in S /\ i \in G /\ \A j \in (i + 1)..n : j \notin S)
           <=> S # {} /\ Max(S) \in G
<1>1. CASE S = {}
  BY <1>1
<1>2. CASE S # {}
  <2> DEFINE m == Max(S)
  <2>1. m \in S /\ \A i \in S : m >= i
    BY <1>2, GreatestOf
  <2> HIDE DEF m
  <2>2. m \in 1..n /\ \A j \in (m + 1)..n : j \notin S
    BY <2>1
  <2>3. ASSUME NEW i \in 1..n, i \in S, \A j \in (i + 1)..n : j \notin S PROVE i = m
    <3>1. m >= i /\ m \notin (i + 1)..n
      BY <2>1, <2>3
    <3> QED BY <2>2, <3>1
  <2> QED BY <1>2, <2>1, <2>2, <2>3 DEF m
<1> QED BY <1>1, <1>2

\* The users of a passwd file are those that a line names.
LEMMA SpelledUsers ==
  ASSUME NEW file, IsSequence(Lines(file))
  PROVE  DOMAIN LoadPasswdFile(file) = Spelled(Lines(file))
<1> DEFINE lines == Lines(file)  accounts == LoadPasswdFile(file)
<1>1. Len(lines) \in Nat /\ DOMAIN lines = 1..Len(lines)
  BY DEF IsSequence
<1>2. \A user, key : HasKey(accounts, user, key) <=> KeyBy(lines, Len(lines), user, key)
  BY LastKeyCounts
<1>3. \A user : user \in Spelled(lines) <=> \E i \in 1..Len(lines) : Names(lines[i], user)
  BY <1>1 DEF Spelled, Names
<1> HIDE DEF lines, accounts
<1>4. ASSUME NEW user PROVE user \in DOMAIN accounts <=> user \in Spelled(lines)
  <2>1. user \in DOMAIN accounts <=> \E key : HasKey(accounts, user, key)
    BY DEF HasKey
  <2>2. (\E key : KeyBy(lines, Len(lines), user, key)) <=> \E i \in 1..Len(lines) : Names(lines[i], user)
    <3>1. ASSUME NEW key, KeyBy(lines, Len(lines), user, key)
          PROVE  \E i \in 1..Len(lines) : Names(lines[i], user)
      BY <3>1 DEF KeyBy
    <3>2. ASSUME NEW k \in 1..Len(lines), Names(lines[k], user)
          PROVE  \E key : KeyBy(lines, Len(lines), user, key)
      <4> DEFINE S == {i \in 1..Len(lines) : Names(lines[i], user)}  m == Max(S)
      <4>1. m \in S /\ \A i \in S : m >= i
        BY <1>1, <3>2, GreatestOf
      <4> HIDE DEF m
      <4>2. \A j \in (m + 1)..Len(lines) : ~Names(lines[j], user)
        BY <1>1, <4>1
      <4>3. KeyBy(lines, Len(lines), user, lines[m][2])
        BY <4>1, <4>2 DEF KeyBy
      <4> QED BY <4>3
    <3> QED BY <3>1, <3>2
  <2> QED BY <1>2, <1>3, <2>1, <2>2
<1>5. DOMAIN accounts = Spelled(lines)
  BY <1>4
<1> QED BY <1>5 DEF lines, accounts

LEMMA AboutRule ==
  ASSUME NEW line, NEW accounts, NEW users, DOMAIN accounts = Spelled(users), NEW user, NEW op \in AllOps
  PROVE  About(line, accounts, user, op) <=>
           /\ Len(line) = 3 /\ line[3] \in {"allow", "deny"}
           /\ IF AllSaid(line[2]) THEN user \in Spelled(users) ELSE Said(line[2], user)
           /\ AllSaid(line[1]) \/ Said(line[1], op)
<1>1. \A words : LowerWords(words) = {"all"} <=> AllSaid(words)
  BY DEF LowerWords, AllSaid
<1>2. \A words, name : name \in LowerWords(words) <=> Said(words, name)
  BY DEF LowerWords, Said
<1>3. user \in UsersOf(line, accounts)
        <=> IF AllSaid(line[2]) THEN user \in Spelled(users) ELSE Said(line[2], user)
  BY <1>1, <1>2, Zenon DEF UsersOf
<1>4. op \in OperationsOf(line) <=> AllSaid(line[1]) \/ Said(line[1], op)
  <2>1. AllSaid(line[1]) => OperationsOf(line) = AllOps
    BY <1>1, Zenon DEF OperationsOf
  <2>2. ~AllSaid(line[1]) => OperationsOf(line) = LowerWords(line[1])
    BY <1>1, Zenon DEF OperationsOf
  <2> QED BY <1>2, <2>1, <2>2, Zenon
<1> QED BY <1>3, <1>4, Zenon DEF About, IsRule

LEMMA AccessConverted == Converted => AclLastLineDecides
<1> SUFFICES ASSUME Converted, Done("access"), NEW user \in People, NEW op \in AllOps
             PROVE  LET rules == Lines(input.access)
                        about == RulesAbout(rules, Lines(input.passwd), user, op)
                    IN (user \in DOMAIN output /\ op \in output[user])
                         <=> IF input.access = Missing THEN user = Anonymous /\ op # "whitelist"
                             ELSE about # {} /\ rules[Max(about)][3] = "allow"
  BY Zenon DEF AclLastLineDecides
<1> DEFINE file == input.access  rules == Lines(file)  users == Lines(input.passwd)
           accounts == LoadPasswdFile(input.passwd)  S == RulesAbout(rules, users, user, op)
<1>1. IsSequence(users) /\ IsSequence(rules) /\ output = LoadAccessFile(file, accounts)
  BY ConversionsAssumption DEF Converted, Done
<1>2. (user \in DOMAIN output /\ op \in output[user]) <=> op \in OpsOf(output, user)
  BY DEF OpsOf
<1>3. CASE file = Missing
  <2>1. output = [u \in {Anonymous} |-> DefaultAnonOps]
    BY <1>1, <1>3, Zenon DEF LoadAccessFile
  <2>2. op \in DefaultAnonOps <=> op # "whitelist"
    BY DEF DefaultAnonOps
  <2> QED BY <1>3, <2>1, <2>2
<1>4. CASE file # Missing
  <2>1. rules = file
    BY <1>4 DEF Lines
  <2>2. op \in OpsOf(output, user) <=> AllowedBy(file, Len(file), accounts, user, op)
    BY <1>1, <1>4, <2>1, LastLineDecides, Zenon
  <2>3. Len(file) \in Nat /\ DOMAIN file = 1..Len(file)
    BY <1>1, <2>1 DEF IsSequence
  <2>4. DOMAIN accounts = Spelled(users)
    BY <1>1, SpelledUsers
  <2> HIDE DEF file, rules, users, accounts
  <2>5. \A i \in 1..Len(file) : i \in S <=> About(file[i], accounts, user, op)
    <3> SUFFICES ASSUME NEW i \in 1..Len(file) PROVE i \in S <=> About(file[i], accounts, user, op)
      OBVIOUS
    <3> DEFINE line == file[i]
    <3>1. About(line, accounts, user, op) <=>
            /\ Len(line) = 3 /\ line[3] \in {"allow", "deny"}
            /\ IF AllSaid(line[2]) THEN user \in Spelled(users) ELSE Said(line[2], user)
            /\ AllSaid(line[1]) \/ Said(line[1], op)
      BY <2>4, AboutRule
    <3>2. i \in S <=> /\ i \in DOMAIN rules
                      /\ Len(line) = 3 /\ line[3] \in {"allow", "deny"}
                      /\ IF AllSaid(line[2]) THEN user \in Spelled(users) ELSE Said(line[2], user)
                      /\ AllSaid(line[1]) \/ Said(line[1], op)
      BY <2>1 DEF RulesAbout
    <3> QED BY <2>1, <2>3, <3>1, <3>2, Zenon
  <2>6. S \in SUBSET (1..Len(file))
    BY <2>1, <2>3 DEF RulesAbout
  <2> HIDE DEF S
  <2> DEFINE G == {i \in 1..Len(file) : file[i][3] = "allow"}
  <2>7. AllowedBy(file, Len(file), accounts, user, op)
          <=> \E i \in 1..Len(file) : i \in S /\ i \in G /\ \A j \in (i + 1)..Len(file) : j \notin S
    <3>1. \A i \in 1..Len(file) : \A j \in (i + 1)..Len(file) : j \in 1..Len(file)
      BY <2>3
    <3> QED BY <2>5, <3>1, Zenon DEF AllowedBy
  <2>8. AllowedBy(file, Len(file), accounts, user, op) <=> S # {} /\ Max(S) \in G
    <3> HIDE DEF G
    <3> QED BY <2>3, <2>6, <2>7, LastOf
  <2>9. S # {} => Max(S) \in 1..Len(file)
    BY <2>3, <2>6, GreatestOf
  <2>10. op \in OpsOf(output, user) <=> S # {} /\ rules[Max(S)][3] = "allow"
    BY <2>1, <2>2, <2>8, <2>9
  <2> QED BY <1>2, <1>4, <2>10, Zenon DEF S, rules, users, file
<1> QED BY <1>3, <1>4

Increasing(p, m, n) == p \in [1..m -> 1..n] /\ \A i, j \in 1..m : i < j => p[i] < p[j]
Chosen(p, k) == {p[i] : i \in 1..k}

LEMMA PlacesCounted ==
  ASSUME NEW n \in Nat, NEW m \in Nat, NEW p, Increasing(p, m, n), NEW k \in 0..m
  PROVE  IsFiniteSet(Chosen(p, k)) /\ Cardinality(Chosen(p, k)) = k
<1> DEFINE T == {i \in Nat : i <= m => IsFiniteSet(Chosen(p, i)) /\ Cardinality(Chosen(p, i)) = i}
<1>1. 0 \in T
  <2>1. Chosen(p, 0) = {}
    BY DEF Chosen
  <2> QED BY <2>1, FS_EmptySet
<1>2. ASSUME NEW i \in Nat, i \in T PROVE i + 1 \in T
  <2> SUFFICES ASSUME i + 1 <= m
               PROVE  IsFiniteSet(Chosen(p, i + 1)) /\ Cardinality(Chosen(p, i + 1)) = i + 1
    OBVIOUS
  <2>1. IsFiniteSet(Chosen(p, i)) /\ Cardinality(Chosen(p, i)) = i
    BY <1>2
  <2>2. Chosen(p, i + 1) = Chosen(p, i) \cup {p[i + 1]}
    BY DEF Chosen
  <2>3. p[i + 1] \notin Chosen(p, i)
    <3> SUFFICES ASSUME NEW j \in 1..i, p[j] = p[i + 1] PROVE FALSE
      BY DEF Chosen
    <3>1. p[j] < p[i + 1] /\ p[j] \in Nat
      BY DEF Increasing
    <3> QED BY <3>1
  <2> QED BY <2>1, <2>2, <2>3, FS_AddElement
<1>3. k \in T
  <2> HIDE DEF T
  <2> QED BY <1>1, <1>2, Induction
<1> QED BY <1>3

LEMMA PlacesBelow ==
  ASSUME NEW n \in Nat, NEW m \in Nat, NEW p, Increasing(p, m, n), NEW k \in 1..m
  PROVE  {j \in Chosen(p, m) : j <= p[k]} = Chosen(p, k)
<1>1. \A i \in 1..m : p[i] \in Nat
  BY DEF Increasing
<1>2. \A i \in 1..m : p[i] <= p[k] <=> i <= k
  <2> SUFFICES ASSUME NEW i \in 1..m PROVE p[i] <= p[k] <=> i <= k
    OBVIOUS
  <2>1. CASE i < k
    BY <1>1, <2>1 DEF Increasing
  <2>2. CASE i = k
    BY <1>1, <2>2
  <2>3. CASE i > k
    <3>1. p[k] < p[i]
      BY <2>3 DEF Increasing
    <3> QED BY <1>1, <2>3, <3>1
  <2> QED BY <2>1, <2>2, <2>3
<1>3. \A i \in 1..m : i <= k <=> i \in 1..k
  OBVIOUS
<1>4. 1..k \subseteq 1..m
  OBVIOUS
<1> QED BY <1>2, <1>3, <1>4 DEF Chosen

LEMMA ServersConverted ==
  ASSUME NEW file, IsSequence(Lines(file))
  PROVE  AskedInOrder(LoadServers(file), Lines(file))
<1> DEFINE lines == Lines(file)  S == UsableServers(lines)  v == LoadServers(file)  n == Len(lines)  m == Len(v)
<1>1. n \in Nat /\ DOMAIN lines = 1..n
  BY DEF IsSequence
<1>2. /\ ServersFileHasEntries(file) => NamesServers(v, lines)
      /\ ~ServersFileHasEntries(file) => v = <<PublicServer>>
      /\ m \in Nat
  BY ServersInOrder
<1>3. \A k \in 1..n : k \in S <=> IsServer(lines[k])
  BY <1>1 DEF UsableServers, IsServer, IsNumber
<1>4. S \subseteq 1..n
  BY <1>1 DEF UsableServers
<1>5. ServersFileHasEntries(file) <=> S # {}
  BY <1>1, <1>3, <1>4 DEF ServersFileHasEntries
<1> HIDE DEF lines, S, v, n, m
<1>6. ASSUME S # {}
      PROVE  m = Cardinality(S) /\ \A i \in S : v[Cardinality({j \in S : j <= i})] = lines[i]
  <2>1. NamesServers(v, lines)
    BY <1>2, <1>5, <1>6
  <2>2. PICK p \in [1..m -> 1..n] :
              /\ \A i, j \in 1..m : i < j => p[i] < p[j]
              /\ \A i \in 1..m : v[i] = lines[p[i]]
              /\ \A k \in 1..n : IsServer(lines[k]) <=> \E i \in 1..m : p[i] = k
    BY <2>1, Zenon DEF NamesServers, m, n
  <2>3. Increasing(p, m, n)
    BY <2>2, Zenon DEF Increasing
  <2>4. S = Chosen(p, m)
    BY <1>3, <1>4, <2>2, ZenonT(60) DEF Chosen
  <2>5. m = Cardinality(S)
    <3>1. m \in 0..m
      BY <1>2
    <3> QED BY <1>1, <1>2, <2>3, <2>4, <3>1, PlacesCounted
  <2>6. ASSUME NEW i \in S PROVE v[Cardinality({j \in S : j <= i})] = lines[i]
    <3>1. PICK k \in 1..m : p[k] = i
      BY <2>4, <2>6 DEF Chosen
    <3>2. {j \in S : j <= i} = Chosen(p, k)
      BY <1>1, <1>2, <2>3, <2>4, <3>1, PlacesBelow
    <3>3. Cardinality(Chosen(p, k)) = k
      <4>1. k \in 0..m
        BY <1>2
      <4> QED BY <1>1, <1>2, <2>3, <4>1, PlacesCounted
    <3> QED BY <2>2, <3>1, <3>2, <3>3
  <2> QED BY <2>5, <2>6
<1> QED BY <1>2, <1>5, <1>6, Zenon DEF AskedInOrder, lines, S, v, m

LEMMA AccountsConverted ==
  ASSUME NEW file, IsSequence(Lines(file))
  PROVE  SignedByLast(LoadAccounts(file), Lines(file))
<1> DEFINE lines == Lines(file)  S == UsableAccounts(lines)  v == LoadAccounts(file)  n == Len(lines)
           address(i) == <<lines[i][1], lines[i][2]>>
           mine(i) == {j \in S : address(j) = address(i)}
<1>1. n \in Nat /\ DOMAIN lines = 1..n
  BY DEF IsSequence
<1>2. \A server, account : HasKey(v, server, account) <=> SignsBy(lines, n, server, account)
  BY LastAccountCounts
<1>3. S \subseteq 1..n /\ \A k \in 1..n : k \in S <=> IsAccount(lines[k])
  <2>1. \A k \in 1..n : k \in S <=> IsAccount(lines[k])
    BY <1>1 DEF UsableAccounts, IsAccount, IsNumber, KeyFromHexstr
  <2> QED BY <1>1, <2>1 DEF UsableAccounts
<1>4. \A k \in 1..n : \A server : AccountFor(lines[k], server) <=> k \in S /\ address(k) = server
  BY <1>3 DEF AccountFor, ServerOf
<1> HIDE DEF lines, S, v, n, address
<1>5. ASSUME NEW k \in S
      PROVE  LET m == Max(mine(k))
             IN /\ m \in S /\ address(m) = address(k)
                /\ \A server, account : HasKey(v, server, account) /\ server = address(k)
                                          <=> server = address(k) /\ account = KeyOf(lines[m])
  <2> DEFINE M == mine(k)  m == Max(M)
  <2>1. M \in SUBSET (1..n) /\ k \in M
    BY <1>3, <1>5
  <2>2. m \in M /\ \A i \in M : m >= i
    <3> HIDE DEF M
    <3>1. M # {}
      BY <2>1
    <3> QED BY <1>1, <2>1, <3>1, GreatestOf
  <2> HIDE DEF m
  <2>3. m \in S /\ address(m) = address(k) /\ m \in 1..n
    BY <1>3, <2>2
  <2>4. ASSUME NEW account PROVE SignsBy(lines, n, address(k), account) <=> account = KeyOf(lines[m])
    <3>1. \A i \in 1..n : AccountFor(lines[i], address(k)) <=> i \in M
      BY <1>3, <1>4
    <3> HIDE DEF M
    <3>2. \A j \in (m + 1)..n : j \in 1..n /\ j \notin M
      BY <1>1, <2>1, <2>2, <2>3
    <3>3. ASSUME NEW i \in 1..n, i \in M, \A j \in (i + 1)..n : ~AccountFor(lines[j], address(k))
          PROVE  i = m
      <4>1. m \notin (i + 1)..n
        BY <2>2, <2>3, <3>1, <3>3
      <4> QED BY <2>2, <2>3, <3>3, <4>1
    <3>4. ASSUME account = KeyOf(lines[m]) PROVE SignsBy(lines, n, address(k), account)
      <4>1. AccountFor(lines[m], address(k)) /\ \A j \in (m + 1)..n : ~AccountFor(lines[j], address(k))
        BY <2>2, <2>3, <3>1, <3>2
      <4> QED BY <2>3, <3>4, <4>1, Zenon DEF SignsBy
    <3>5. ASSUME SignsBy(lines, n, address(k), account) PROVE account = KeyOf(lines[m])
      <4>1. PICK i \in 1..n : /\ AccountFor(lines[i], address(k)) /\ account = KeyOf(lines[i])
                              /\ \A j \in (i + 1)..n : ~AccountFor(lines[j], address(k))
        BY <3>5, Zenon DEF SignsBy
      <4>2. i = m
        BY <3>1, <3>3, <4>1
      <4> QED BY <4>1, <4>2
    <3> QED BY <3>4, <3>5
  <2>5. \A server, account : HasKey(v, server, account) /\ server = address(k)
                               <=> server = address(k) /\ account = KeyOf(lines[m])
    BY <1>2, <2>4, Zenon
  <2> QED BY <2>3, <2>5, Zenon DEF m
<1>6. DOMAIN v = {address(i) : i \in S}
  <2>1. ASSUME NEW server \in DOMAIN v PROVE \E i \in S : address(i) = server
    <3>1. HasKey(v, server, v[server])
      BY DEF HasKey
    <3>2. SignsBy(lines, n, server, v[server])
      BY <1>2, <3>1
    <3>3. PICK i \in 1..n : AccountFor(lines[i], server)
      BY <3>2, Zenon DEF SignsBy
    <3> QED BY <1>4, <3>3
  <2>2. ASSUME NEW i \in S PROVE address(i) \in DOMAIN v
    <3>1. HasKey(v, address(i), KeyOf(lines[Max(mine(i))]))
      BY <1>5, Zenon
    <3> QED BY <3>1, Zenon DEF HasKey
  <2> QED BY <2>1, <2>2
<1>7. ASSUME NEW i \in S PROVE v[address(i)] = KeyOf(lines[Max(mine(i))])
  <2>1. HasKey(v, address(i), KeyOf(lines[Max(mine(i))]))
    BY <1>5, Zenon
  <2> QED BY <2>1, Zenon DEF HasKey
<1> QED BY <1>6, <1>7, Zenon DEF SignedByLast, lines, S, v, address, KeyOf

\* For any passwd and access files, and any servers and accounts files, who may do
\* what, whom the client asks, and how it signs is as the lines say
\* (load_access_file, load_passwd_file, load_servers and load_accounts of config.rs).
THEOREM FilesSafe == ConversionsSpec => []FilesDecide
<1>1. Converted => ServersAndAccounts
  <2> SUFFICES ASSUME Converted, Done("file") PROVE ServersAndAccounts
    BY DEF ServersAndAccounts
  <2>1. IsSequence(Lines(input.lines)) /\ output = Loaded(input)
    BY ConversionsAssumption DEF Converted, Done
  <2>2. CASE input.file = "servers"
    <3>1. output = LoadServers(input.lines)
      BY <2>1, <2>2, Zenon DEF Loaded
    <3> QED BY <2>1, <2>2, <3>1, ServersConverted, Zenon DEF ServersAndAccounts
  <2>3. CASE input.file # "servers"
    <3>1. output = LoadAccounts(input.lines)
      BY <2>1, <2>3, Zenon DEF Loaded
    <3> QED BY <2>1, <2>3, <3>1, AccountsConverted, Zenon DEF ServersAndAccounts
  <2> QED BY <2>2, <2>3
<1>2. Converted => FilesDecide
  BY <1>1, AccessConverted DEF FilesDecide
<1> QED BY <1>2, ConvertedAlways, PTL

(***************************************************************************)
(* A packet in two parts                                                   *)
(***************************************************************************)
LEMMA PrintedNext ==
  ASSUME NEW S, NEW break \in S
  PROVE  \A v \in Seq(S), e \in S :
           /\ Printed(Append(v, e), break) = Append(Append(Printed(v, break), e), break)
           /\ Printed(v, break) \in Seq(S)
BY PrintedAppend, Zenon

LEMMA PrintedConcat ==
  ASSUME NEW S, NEW a \in Seq(S), NEW b \in Seq(S), NEW break \in S
  PROVE  /\ Printed(a \o b, break) = Printed(a, break) \o Printed(b, break)
         /\ Printed(a, break) \in Seq(S) /\ Len(Printed(a, break)) = 2 * Len(a)
<1> DEFINE P(v) == Printed(v, break)  none == << >>
           T == {v \in Seq(S) : P(a \o v) = P(a) \o P(v)}
           U == {v \in Seq(S) : P(v) \in Seq(S) /\ Len(P(v)) = 2 * Len(v)}
<1>1. P(none) = none /\ none \in Seq(S) /\ Len(none) = 0
  BY PrintedEmpty
<1>2. ASSUME NEW v \in Seq(S), NEW e \in S
      PROVE  /\ P(Append(v, e)) = Append(Append(P(v), e), break)
             /\ P(v) \in Seq(S)
  BY PrintedNext
<1> HIDE DEF P, none
<1>3. \A v \in Seq(S) : P(v) \in Seq(S)
  <2>1. break \in S
    OBVIOUS
  <2> QED BY <1>2, <2>1, Zenon
<1>4. b \in T
  <2>1. none \in T
    <3>1. P(a) \in Seq(S)
      BY <1>3
    <3>2. a \o << >> = a /\ P(a) \o << >> = P(a)
      BY <3>1, ConcatEmptySeq
    <3> QED BY <1>1, <3>2, Zenon DEF none
  <2>2. ASSUME NEW v \in Seq(S), NEW e \in S, v \in T PROVE Append(v, e) \in T
    <3> DEFINE p == P(a)  q == P(v)  c == a \o v
    <3>1. p \in Seq(S) /\ q \in Seq(S) /\ c \in Seq(S) /\ Append(v, e) \in Seq(S)
      BY <1>3
    <3>2. P(c) = p \o q
      BY <2>2
    <3>3. a \o Append(v, e) = Append(c, e)
      OBVIOUS
    <3> HIDE DEF p, q, c
    <3>4. P(Append(c, e)) = Append(Append(p \o q, e), break)
      BY <1>2, <3>1, <3>2, ZenonT(60)
    <3>5. P(Append(v, e)) = Append(Append(q, e), break)
      BY <1>2, Zenon DEF q
    <3>6. p \o Append(Append(q, e), break) = Append(Append(p \o q, e), break)
      BY <3>1, ConcatTwo, SMTT(40)
    <3>8. P(a \o Append(v, e)) = P(a) \o P(Append(v, e))
      BY <3>3, <3>4, <3>5, <3>6, Zenon DEF p
    <3> QED BY <3>1, <3>8, Zenon
  <2> HIDE DEF T
  <2> QED BY <2>1, <2>2, Growth DEF none
<1>5. a \in U
  <2>1. none \in U
    BY <1>1
  <2>2. ASSUME NEW v \in Seq(S), NEW e \in S, v \in U PROVE Append(v, e) \in U
    <3> DEFINE q == P(v)
    <3>1. q \in Seq(S) /\ Len(q) = 2 * Len(v) /\ P(Append(v, e)) = Append(Append(q, e), break)
      BY <1>2, <2>2, Zenon
    <3> HIDE DEF q
    <3>2. Append(Append(q, e), break) \in Seq(S) /\ Len(Append(Append(q, e), break)) = Len(q) + 2
      <4> DEFINE u == Append(q, e)
      <4>1. u \in Seq(S) /\ Len(u) = Len(q) + 1 /\ Len(q) \in Nat
        BY <3>1
      <4> HIDE DEF u
      <4>2. Append(u, break) \in Seq(S) /\ Len(Append(u, break)) = Len(u) + 1
        BY <4>1
      <4>3. Len(Append(u, break)) = Len(q) + 2
        BY <4>1, <4>2
      <4> QED BY <4>2, <4>3, Zenon DEF u
    <3>3. Append(v, e) \in Seq(S) /\ Len(Append(v, e)) = Len(v) + 1 /\ Len(v) \in Nat
      OBVIOUS
    <3>4. Len(P(Append(v, e))) = 2 * Len(Append(v, e))
      <4>1. Len(P(Append(v, e))) = Len(q) + 2
        BY <3>1, <3>2, Zenon
      <4> QED BY <3>1, <3>3, <4>1
    <3>5. P(Append(v, e)) \in Seq(S)
      BY <3>1, <3>2, Zenon
    <3> QED BY <3>3, <3>4, <3>5, Zenon
  <2> HIDE DEF U
  <2> QED BY <2>1, <2>2, Growth DEF none
<1> QED BY <1>3, <1>4, <1>5, Zenon DEF P

LEMMA LinesConcat ==
  ASSUME NEW N, NEW W, NEW a \in Seq(Headers(N, W)), NEW b \in Seq(Headers(N, W))
  PROVE  LinesOf(a \o b) = LinesOf(a) \o LinesOf(b)
<1> DEFINE K == HeaderLines(N, W)  H == Headers(N, W)  c == a \o b  p == LinesOf(a)  q == LinesOf(b)
           r == LinesOf(c)  d == p \o q
<1>1. /\ c \in Seq(H) /\ Len(c) = Len(a) + Len(b)
      /\ \A i \in 1..(Len(a) + Len(b)) : c[i] = IF i <= Len(a) THEN a[i] ELSE b[i - Len(a)]
  BY ConcatProperties
<1>2. p \in Seq(K) /\ Len(p) = Len(a) /\ \A i \in 1..Len(a) : p[i] = LineOf(a[i])
  BY LinesType
<1>3. q \in Seq(K) /\ Len(q) = Len(b) /\ \A i \in 1..Len(b) : q[i] = LineOf(b[i])
  BY LinesType
<1> HIDE DEF c
<1>4. r \in Seq(K) /\ Len(r) = Len(c) /\ \A i \in 1..Len(c) : r[i] = LineOf(c[i])
  BY <1>1, LinesType
<1>5. Len(a) \in Nat /\ Len(b) \in Nat
  OBVIOUS
<1> HIDE DEF p, q, r, K, H
<1>55. p \in Seq(K) /\ q \in Seq(K)
  BY <1>2, <1>3
<1>6. /\ d \in Seq(K) /\ Len(d) = Len(p) + Len(q)
      /\ \A i \in 1..(Len(p) + Len(q)) : d[i] = IF i <= Len(p) THEN p[i] ELSE q[i - Len(p)]
  BY <1>55, ConcatProperties, Zenon
<1> HIDE DEF d
<1>7. \A i \in 1..Len(r) : r[i] = d[i]
  <2> SUFFICES ASSUME NEW i \in 1..Len(r) PROVE r[i] = d[i]
    OBVIOUS
  <2>1. i \in 1..(Len(a) + Len(b)) /\ r[i] = LineOf(c[i])
    BY <1>1, <1>4
  <2>2. CASE i <= Len(a)
    <3>1. i \in 1..Len(a) /\ i <= Len(p) /\ i \in 1..(Len(p) + Len(q))
      BY <1>2, <1>3, <1>5, <2>1, <2>2
    <3> QED BY <1>1, <1>2, <1>6, <2>1, <2>2, <3>1, Zenon
  <2>3. CASE ~(i <= Len(a))
    <3>1. i - Len(a) \in 1..Len(b) /\ ~(i <= Len(p)) /\ i \in 1..(Len(p) + Len(q)) /\ Len(p) = Len(a)
      BY <1>2, <1>3, <1>5, <2>1, <2>3
    <3> QED BY <1>1, <1>3, <1>6, <2>1, <2>3, <3>1, Zenon
  <2> QED BY <2>2, <2>3
<1>8. Len(r) = Len(d)
  BY <1>1, <1>2, <1>3, <1>4, <1>6
<1>9. r = d
  BY <1>4, <1>6, <1>7, <1>8, SeqEqual
<1> QED BY <1>9, Zenon DEF r, d, p, q, c

(***************************************************************************)
(* What clean_legacy_packet leaves of a packet in two parts                *)
(***************************************************************************)
\* It only adds to what it has kept.
LEMMA CleansMore ==
  ASSUME NEW S, NEW packet \in Seq(S), NEW rest \in Seq(S), NEW text \in Seq(S), NEW pair \in BOOLEAN,
         CleansTo(S, packet, text, pair)
  PROVE  \E more \in Seq(S), last \in BOOLEAN : CleansTo(S, packet \o rest, text \o more, last)
<1> DEFINE none == << >>
           T == {v \in Seq(S) : \E more \in Seq(S), last \in BOOLEAN : CleansTo(S, packet \o v, text \o more, last)}
<1>1. none \in T
  <2>1. packet \o << >> = packet /\ text \o << >> = text
    BY ConcatEmptySeq
  <2>2. none \in Seq(S)
    OBVIOUS
  <2> QED BY <2>1, <2>2, Zenon
<1>2. ASSUME NEW v \in Seq(S), NEW e \in S, v \in T PROVE Append(v, e) \in T
  <2>1. PICK more \in Seq(S), last \in BOOLEAN : CleansTo(S, packet \o v, text \o more, last)
    BY <1>2, Zenon
  <2> DEFINE p == packet \o v  t == text \o more
  <2>2. p \in Seq(S) /\ packet \o Append(v, e) = Append(p, e) /\ Append(v, e) \in Seq(S)
    BY ConcatAppend
  <2>3. text \o Append(more, e) = Append(t, e) /\ Append(more, e) \in Seq(S)
    BY ConcatAppend
  <2> HIDE DEF p, t
  <2>4. IF e = NewLine /\ last THEN CleansTo(S, Append(p, e), t, FALSE)
        ELSE CleansTo(S, Append(p, e), Append(t, e), e = NewLine)
    <3>1. CleansTo(S, p, t, last)
      BY <2>1, Zenon DEF p, t
    <3> QED BY <2>2, <3>1, CleanNext
  <2>5. (e = NewLine) \in BOOLEAN /\ FALSE \in BOOLEAN
    OBVIOUS
  <2>6. CASE e = NewLine /\ last
    <3>1. CleansTo(S, packet \o Append(v, e), text \o more, FALSE)
      BY <2>2, <2>4, <2>6, Zenon DEF t
    <3> QED BY <2>2, <2>5, <3>1, Zenon
  <2>7. CASE ~(e = NewLine /\ last)
    <3>1. CleansTo(S, packet \o Append(v, e), text \o Append(more, e), e = NewLine)
      BY <2>2, <2>3, <2>4, <2>7, Zenon
    <3> QED BY <2>2, <2>3, <2>5, <3>1, Zenon
  <2> QED BY <2>6, <2>7
<1>3. rest \in T
  <2> HIDE DEF T
  <2> QED BY <1>1, <1>2, Growth DEF none
<1> QED BY <1>3

\* A packet is left as it is but for what follows its empty line.
LEMMA CleanWhole ==
  ASSUME NEW S, NewLine \in S, NEW L, L \subseteq S, NewLine \notin L, NEW lines \in Seq(L)
  PROVE  \E more \in Seq(S) : CleanLegacyPacket(Append(Printed(lines, NewLine), NewLine))
                                = Append(Printed(lines, NewLine), NewLine) \o more
<1> DEFINE v == Printed(lines, NewLine)  text == Append(v, NewLine)  none == << >>
<1>1. v \in Seq(S)
  <2>1. lines \in Seq(S)
    OBVIOUS
  <2> QED BY <2>1, PrintedAppend
<1>2. CleansTo(S, v, v, Len(lines) # 0)
  BY CleanPrinted
<1> HIDE DEF v
<1>3. text \in Seq(S) /\ none \in Seq(S) /\ <<NewLine>> \in Seq(S) /\ text \o <<NewLine>> = Append(text, NewLine)
  BY <1>1
<1>4. text \o none = text
  BY <1>3, ConcatEmptySeq
<1>5. CASE Len(lines) # 0
  <2>1. (Len(lines) # 0) = TRUE
    BY <1>5
  <2>2. CleansTo(S, v, v, TRUE)
    BY <1>2, <2>1, Zenon
  <2>3. CleansTo(S, text, v, FALSE)
    BY <1>1, <2>2, CleanNext, Zenon
  <2>4. CleanLegacyPacket(text) = Append(v, NewLine)
    BY <1>3, <2>3, CleanEnd
  <2> QED BY <1>3, <1>4, <2>4, Zenon DEF v
<1>6. CASE Len(lines) = 0
  <2>1. (Len(lines) # 0) = FALSE /\ (NewLine = NewLine) = TRUE
    BY <1>6
  <2>2. CleansTo(S, v, v, FALSE)
    BY <1>2, <2>1, Zenon
  <2>3. CleansTo(S, text, text, NewLine = NewLine)
    BY <1>1, <2>2, CleanNext, Zenon
  <2>4. CleanLegacyPacket(text) = Append(text, NewLine)
    BY <1>3, <2>3, CleanEnd
  <2> QED BY <1>3, <2>4, Zenon DEF v
<1> QED BY <1>5, <1>6

\* Two newlines more in a row end it.
LEMMA CleanBlank ==
  ASSUME NEW S, NewLine \in S, NEW L, L \subseteq S, NewLine \notin L, NEW lines \in Seq(L), NEW rest \in Seq(S)
  PROVE  \E more \in Seq(S) :
           CleanLegacyPacket(Append(Append(Printed(lines, NewLine), NewLine), NewLine) \o rest)
             = Append(Printed(lines, NewLine), NewLine) \o more
<1> DEFINE v == Printed(lines, NewLine)  one == Append(v, NewLine)  two == Append(one, NewLine)
           packet == two \o rest
<1>1. v \in Seq(S)
  <2>1. lines \in Seq(S)
    OBVIOUS
  <2> QED BY <2>1, PrintedAppend
<1>2. CleansTo(S, v, v, Len(lines) # 0)
  BY CleanPrinted
<1> HIDE DEF v
<1>3. one \in Seq(S)
  BY <1>1
<1> HIDE DEF one
<1>4. two \in Seq(S)
  BY <1>3
<1> HIDE DEF two
<1>5. packet \in Seq(S)
  BY <1>4
<1>6. \E pair \in BOOLEAN : CleansTo(S, two, one, pair)
  <2>0. (NewLine = NewLine) = TRUE /\ TRUE \in BOOLEAN /\ FALSE \in BOOLEAN
    OBVIOUS
  <2>1. CASE Len(lines) # 0
    <3>1. (Len(lines) # 0) = TRUE
      BY <2>1
    <3>2. CleansTo(S, v, v, TRUE)
      BY <1>2, <3>1, Zenon
    <3>3. CleansTo(S, one, v, FALSE)
      BY <1>1, <3>2, CleanNext, Zenon DEF one
    <3>4. CleansTo(S, two, one, NewLine = NewLine)
      BY <1>3, <3>3, CleanNext, Zenon DEF one, two
    <3> QED BY <2>0, <3>4, Zenon
  <2>2. CASE Len(lines) = 0
    <3>1. (Len(lines) # 0) = FALSE
      BY <2>2
    <3>2. CleansTo(S, v, v, FALSE)
      BY <1>2, <3>1, Zenon
    <3>3. CleansTo(S, one, one, NewLine = NewLine)
      BY <1>1, <3>2, CleanNext, Zenon DEF one
    <3>4. CleansTo(S, one, one, TRUE)
      BY <2>0, <3>3, Zenon
    <3>5. CleansTo(S, two, one, FALSE)
      BY <1>3, <3>4, CleanNext, Zenon DEF two
    <3> QED BY <2>0, <3>5, Zenon
  <2> QED BY <2>1, <2>2
<1>7. PICK more \in Seq(S), last \in BOOLEAN : CleansTo(S, packet, one \o more, last)
  <2>1. PICK pair \in BOOLEAN : CleansTo(S, two, one, pair)
    BY <1>6, Zenon
  <2> QED BY <1>3, <1>4, <2>1, CleansMore
<1>8. CleanLegacyPacket(packet) = Append(one \o more, NewLine)
  BY <1>5, <1>7, CleanEnd
<1>9. one \o Append(more, NewLine) = Append(one \o more, NewLine) /\ Append(more, NewLine) \in Seq(S)
      /\ one \o more \in Seq(S)
  BY <1>3, ConcatAppend, Zenon
<1> QED BY <1>8, <1>9, Zenon DEF packet, two, one, v

Ended(lines) == Append(Printed(lines, NewLine), NewLine)

LEMMA PrintedTail ==
  ASSUME NEW S, NewLine \in S, NEW v \in Seq(S), NEW w \in Seq(S)
  PROVE  Printed(v, NewLine) \o Ended(w) = Ended(v \o w) /\ Ended(w) \in Seq(S)
<1> DEFINE p == Printed(v, NewLine)  q == Printed(w, NewLine)
<1>1. /\ Printed(v \o w, NewLine) = p \o q
      /\ p \in Seq(S) /\ Len(p) = 2 * Len(v)
  BY PrintedConcat
<1>2. q \in Seq(S)
  BY PrintedAppend
<1> HIDE DEF p, q
<1>3. p \o Append(q, NewLine) = Append(p \o q, NewLine) /\ Append(q, NewLine) \in Seq(S)
  BY <1>1, <1>2
<1> QED BY <1>1, <1>3, Zenon DEF Ended, p, q

\* The line x before the text t, which follows the lines v.
PutsBefore(v, x, t) ==
    /\ Printed(v, NewLine) \o (<<x, NewLine>> \o t) = Printed(Append(v, x), NewLine) \o t
    /\ SubSeq(<<x, NewLine>> \o t, 1, 2) = <<x, NewLine>>
    /\ SubSeq(<<x, NewLine>> \o t, 3, Len(<<x, NewLine>> \o t)) = t

LEMMA PutBefore ==
  ASSUME NEW S, NewLine \in S, NEW v \in Seq(S), NEW x \in S, NEW t \in Seq(S)
  PROVE  PutsBefore(v, x, t) /\ <<x, NewLine>> \o t \in Seq(S)
<1> DEFINE p == Printed(v, NewLine)  one == <<x, NewLine>>
<1>1. Printed(Append(v, x), NewLine) = Append(Append(p, x), NewLine) /\ p \in Seq(S)
  BY PrintedNext
<1> HIDE DEF p
<1>2. Append(Append(p, x), NewLine) = p \o one /\ one \in Seq(S) /\ Len(one) = 2
  BY <1>1, TwoMore, Zenon
<1> HIDE DEF one
<1>4. p \o (one \o t) = (p \o one) \o t
  BY <1>1, <1>2, ConcatAssociative, SMTT(40)
<1>5. /\ SubSeq(one \o t, 1, Len(one)) = one
      /\ SubSeq(one \o t, Len(one) + 1, Len(one \o t)) = t
      /\ one \o t \in Seq(S) /\ Len(one \o t) = Len(one) + Len(t) /\ Len(one) \in Nat /\ Len(t) \in Nat
  BY <1>2, ConcatParts, Zenon
<1>6. Len(one) + 1 = 3
  BY <1>2
<1> QED BY <1>1, <1>2, <1>4, <1>5, <1>6, Zenon DEF PutsBefore, p, one

(***************************************************************************)
(* What a damaged packet says                                              *)
(***************************************************************************)
\* What is read of a packet whose lines are these.
LEMMA EndedRead ==
  ASSUME NEW N, NEW W, NEW lines \in Seq(HeaderLines(N, W) \cup Noise(W))
  PROVE  Parse(CleanLegacyPacket(Ended(lines))) = HeadersOf(Sift(lines, HeaderLines(N, W)))
<1> DEFINE S == Tokens(N, W) \cup Noise(W)  L == HeaderLines(N, W) \cup Noise(W)
<1>1. NewLine \in S /\ L \subseteq S /\ NewLine \in Breaks
  BY TokensRead DEF Breaks, Tokens
<1>2. NewLine \notin L
  <2>1. \A line \in HeaderLines(N, W) : line # NewLine
    BY TokensRead
  <2>2. \A word \in W : Other(word) # NewLine
    BY DEF Other, NewLine
  <2> QED BY <2>1, <2>2 DEF Noise
<1>3. lines \in Seq(L)
  OBVIOUS
<1> DEFINE K == HeaderLines(N, W)
<1>4. \A more \in Seq(S) : Parse(Append(Printed(lines, NewLine), NewLine) \o more) = HeadersOf(Sift(lines, K))
  BY <1>1, HeaderLinesDecide
<1> HIDE DEF S, L, K
<1>5. PICK more \in Seq(S) : CleanLegacyPacket(Append(Printed(lines, NewLine), NewLine))
                               = Append(Printed(lines, NewLine), NewLine) \o more
  BY <1>1, <1>2, <1>3, CleanWhole
<1> QED BY <1>4, <1>5, Zenon DEF Ended, K

\* Of messages in one packet all is read, and what is no header left out.
LEMMA MessageRead ==
  ASSUME NEW N, NEW W, NEW msg \in Seq(Headers(N, W))
  PROVE  /\ Parse(CleanLegacyPacket(Ended(LinesOf(msg)))) = msg
         /\ Sift(LinesOf(msg), HeaderLines(N, W)) = LinesOf(msg)
         /\ HeadersOf(LinesOf(msg)) = msg
<1> DEFINE K == HeaderLines(N, W)  L == K \cup Noise(W)  lines == LinesOf(msg)
<1>1. lines \in Seq(K) /\ HeadersOf(lines) = msg
  BY LinesType, LinesRead
<1> HIDE DEF K, lines
<1>2. Sift(lines, K) = lines
  <2>1. \A i \in 1..Len(lines) : lines[i] \in K
    BY <1>1
  <2> QED BY <1>1, <2>1, SiftAll
<1>3. lines \in Seq(L)
  BY <1>1
<1>4. Parse(CleanLegacyPacket(Ended(lines))) = HeadersOf(Sift(lines, K))
  BY <1>3, EndedRead DEF K, L
<1> QED BY <1>1, <1>2, <1>4, Zenon DEF lines, K

\* A line without a colon is not read.
LEMMA NoisyRead ==
  ASSUME NEW N, NEW W, NEW a \in Seq(Headers(N, W)), NEW b \in Seq(Headers(N, W)), NEW word \in W
  PROVE  Parse(CleanLegacyPacket(Ended(Append(LinesOf(a), Other(word)) \o LinesOf(b)))) = a \o b
<1> DEFINE H == Headers(N, W)  K == HeaderLines(N, W)  L == K \cup Noise(W)  p == LinesOf(a)  q == LinesOf(b)
           o == Other(word)  lines == Append(p, o) \o q  c == a \o b
<1>1. p \in Seq(K) /\ q \in Seq(K)
  BY LinesType
<1>2. o \in Noise(W) /\ o \notin K
  <2>1. o.kind = "other"
    BY DEF Other
  <2>2. \A line \in K : line.kind = "header"
    BY DEF HeaderLines, HeaderLine
  <2>3. "other" # "header"
    OBVIOUS
  <2>4. o \in Noise(W)
    BY DEF Noise
  <2> QED BY <2>1, <2>2, <2>3, <2>4, Zenon
<1>3. Sift(p, K) = p /\ Sift(q, K) = q
  BY MessageRead
<1>4. c \in Seq(H)
  OBVIOUS
<1>5. LinesOf(c) = p \o q
  BY LinesConcat
<1> HIDE DEF p, q, o, c, H
<1>6. HeadersOf(LinesOf(c)) = c
  BY <1>4, MessageRead DEF H
<1> HIDE DEF K
<1>7. p \in Seq(L) /\ q \in Seq(L) /\ o \in L
  BY <1>1, <1>2
<1> HIDE DEF L
<1> DEFINE t == Append(p, o)
<1>8. t \in Seq(L)
  BY <1>7
<1>9. Sift(t, K) = p
  <2>1. Sift(t, K) = SiftNext(Sift(p, K), o, K)
    BY <1>7, SiftAppend
  <2> QED BY <1>2, <1>3, <2>1, Zenon DEF SiftNext
<1> HIDE DEF t
<1>10. Sift(t \o q, K) = Sift(t, K) \o Sift(q, K)
  BY <1>7, <1>8, SiftConcat
<1>11. t \o q \in Seq(L)
  BY <1>7, <1>8
<1> DEFINE u == t \o q
<1> HIDE DEF u
<1>12. Parse(CleanLegacyPacket(Ended(u))) = HeadersOf(Sift(u, K))
  <2>1. u \in Seq(L)
    BY <1>11 DEF u
  <2> QED BY <2>1, EndedRead DEF L, K
<1> QED BY <1>3, <1>5, <1>6, <1>9, <1>10, <1>12, Zenon DEF u, t, c, p, q, o

\* After an empty line nothing is read.
LEMMA BlankRead ==
  ASSUME NEW N, NEW W, NEW msg \in Seq(Headers(N, W)), NEW rest \in Seq(Tokens(N, W))
  PROVE  Parse(CleanLegacyPacket(Printed(LinesOf(msg), NewLine) \o (<<NewLine, NewLine>> \o rest))) = msg
<1> DEFINE S == Tokens(N, W)  L == HeaderLines(N, W)  lines == LinesOf(msg)  p == Printed(lines, NewLine)
           two == <<NewLine, NewLine>>
<1>1. NewLine \in S /\ L \subseteq S /\ NewLine \notin L /\ NewLine \in Breaks
  BY TokensRead DEF Breaks, Tokens
<1>2. lines \in Seq(L)
  BY LinesType
<1>3. \A more \in Seq(S) : Parse(Append(p, NewLine) \o more) = msg
  <2>1. \A break \in Breaks : \A more \in Seq(S) : Parse(Packet(msg, break) \o more) = msg
    BY PacketRead
  <2> QED BY <1>1, <2>1, Zenon DEF Packet
<1>4. rest \in Seq(S)
  OBVIOUS
<1> HIDE DEF S, L, lines
<1>5. p \in Seq(S)
  <2>1. lines \in Seq(S)
    BY <1>1, <1>2
  <2> QED BY <1>1, <2>1, PrintedAppend
<1>6. PICK more \in Seq(S) : CleanLegacyPacket(Append(Append(p, NewLine), NewLine) \o rest) = Append(p, NewLine) \o more
  BY <1>1, <1>2, <1>4, CleanBlank, ZenonT(60)
<1> HIDE DEF p
<1>7. Append(Append(p, NewLine), NewLine) = p \o two /\ two \in Seq(S) /\ Len(two) = 2
  BY <1>1, <1>5, TwoMore, Zenon
<1> HIDE DEF two
<1>8. (p \o two) \o rest = p \o (two \o rest)
  <2>1. two \in Seq(S)
    BY <1>7
  <2> QED BY <1>4, <1>5, <2>1, ConcatAssociative
<1> QED BY <1>3, <1>6, <1>7, <1>8, Zenon DEF two, p, lines

(***************************************************************************)
(* Other line ends                                                         *)
(***************************************************************************)
OtherEnds(text) == [i \in DOMAIN text |-> Crlf(text[i])]

LEMMA OtherEndsShape ==
  ASSUME NEW S, CarriageReturn \in S, NEW text \in Seq(S)
  PROVE  /\ OtherEnds(text) \in Seq(S) /\ Len(OtherEnds(text)) = Len(text)
         /\ \A i \in 1..Len(text) : OtherEnds(text)[i] = Crlf(text[i])
<1>1. Len(text) \in Nat /\ DOMAIN text = 1..Len(text) /\ \A i \in 1..Len(text) : text[i] \in S
  OBVIOUS
<1>2. \A token \in S : Crlf(token) \in S
  BY DEF Crlf
<1>3. OtherEnds(text) \in [1..Len(text) -> S]
  BY <1>1, <1>2, Zenon DEF OtherEnds
<1>4. \A i \in 1..Len(text) : OtherEnds(text)[i] = Crlf(text[i])
  BY <1>1, Zenon DEF OtherEnds
<1>5. OtherEnds(text) \in Seq(S) /\ Len(OtherEnds(text)) = Len(text)
  BY <1>1, <1>3
<1> QED BY <1>4, <1>5

LEMMA OtherEndsAppend ==
  ASSUME NEW S, CarriageReturn \in S, NEW text \in Seq(S), NEW token \in S
  PROVE  OtherEnds(Append(text, token)) = Append(OtherEnds(text), Crlf(token))
<1> DEFINE a == OtherEnds(text)  more == Append(text, token)  c == OtherEnds(more)  e == Crlf(token)
           d == Append(a, e)
<1>1. a \in Seq(S) /\ Len(a) = Len(text) /\ \A i \in 1..Len(text) : a[i] = Crlf(text[i])
  BY OtherEndsShape
<1>2. /\ more \in Seq(S) /\ Len(more) = Len(text) + 1 /\ Len(text) \in Nat
      /\ \A i \in 1..Len(text) : more[i] = text[i]
      /\ more[Len(text) + 1] = token
  OBVIOUS
<1> HIDE DEF more
<1>3. /\ c \in Seq(S) /\ Len(c) = Len(text) + 1 /\ \A i \in 1..(Len(text) + 1) : c[i] = Crlf(more[i])
  BY <1>2, OtherEndsShape
<1>4. e \in S
  BY DEF Crlf
<1> HIDE DEF a, c, e
<1>5. /\ d \in Seq(S) /\ Len(d) = Len(text) + 1
      /\ \A i \in 1..Len(text) : d[i] = a[i]
      /\ d[Len(text) + 1] = e
  <2>1. a \in Seq(S) /\ e \in S
    BY <1>1, <1>4
  <2> QED BY <1>1, <2>1, AppendProperties
<1> HIDE DEF d
<1>6. \A i \in 1..(Len(text) + 1) : c[i] = d[i]
  <2>1. \A i \in 1..(Len(text) + 1) : i \in 1..Len(text) \/ i = Len(text) + 1
    BY <1>2
  <2> QED BY <1>1, <1>2, <1>3, <1>5, <2>1, Zenon DEF e
<1>7. Len(c) = Len(d) /\ \A i \in 1..Len(c) : c[i] = d[i]
  BY <1>3, <1>5, <1>6, Zenon
<1>8. c = d
  BY <1>3, <1>5, <1>7, SeqEqual, Zenon
<1> QED BY <1>8, Zenon DEF c, d, a, e, more

LEMMA OtherEndsRead ==
  ASSUME NEW N, NEW W, NEW msg \in Seq(Headers(N, W))
  PROVE  OtherEnds(Packet(msg, NewLine)) = Packet(msg, CarriageReturn)
<1> DEFINE S == Tokens(N, W)  K == HeaderLines(N, W)  P(v) == Printed(v, NewLine)  Q(v) == Printed(v, CarriageReturn)
           none == << >>  T == {v \in Seq(K) : OtherEnds(P(v)) = Q(v)}  lines == LinesOf(msg)
<1>1. NewLine \in S /\ CarriageReturn \in S /\ K \subseteq S /\ \A line \in K : line # NewLine
  <2>1. NewLine \in Breaks /\ CarriageReturn \in Breaks
    BY DEF Breaks
  <2> QED BY <2>1, TokensRead
<1>2. Crlf(NewLine) = CarriageReturn /\ \A line \in K : Crlf(line) = line
  BY <1>1, Zenon DEF Crlf
<1>3. P(none) = none /\ Q(none) = none
  BY PrintedEmpty, Zenon
<1>4. lines \in Seq(K)
  BY LinesType
<1> HIDE DEF S, K, lines
<1>5. ASSUME NEW v \in Seq(S), NEW e \in S
      PROVE  /\ P(Append(v, e)) = Append(Append(P(v), e), NewLine) /\ P(v) \in Seq(S)
             /\ Q(Append(v, e)) = Append(Append(Q(v), e), CarriageReturn)
  <2>1. P(Append(v, e)) = Append(Append(P(v), e), NewLine) /\ P(v) \in Seq(S)
    BY <1>1, PrintedNext
  <2>2. Q(Append(v, e)) = Append(Append(Q(v), e), CarriageReturn) /\ Q(v) \in Seq(S)
    BY <1>1, PrintedNext
  <2> QED BY <2>1, <2>2, Zenon
<1> HIDE DEF P, Q
<1>6. none \in T
  <2>1. OtherEnds(none) = none
    BY DEF OtherEnds
  <2>2. none \in Seq(K)
    OBVIOUS
  <2> HIDE DEF none
  <2> QED BY <1>3, <2>1, <2>2, Zenon
<1>7. ASSUME NEW v \in Seq(K), NEW e \in K, v \in T PROVE Append(v, e) \in T
  <2> DEFINE t == P(v)  u == Append(t, e)
  <2>1. v \in Seq(S) /\ e \in S /\ Append(v, e) \in Seq(K)
    BY <1>1
  <2>2. /\ P(Append(v, e)) = Append(u, NewLine) /\ t \in Seq(S)
        /\ Q(Append(v, e)) = Append(Append(Q(v), e), CarriageReturn)
    BY <1>5, <2>1, Zenon
  <2>3. OtherEnds(t) = Q(v)
    BY <1>7
  <2> HIDE DEF t
  <2>4. u \in Seq(S)
    BY <2>1, <2>2
  <2>5. OtherEnds(u) = Append(OtherEnds(t), Crlf(e))
    BY <1>1, <2>1, <2>2, OtherEndsAppend
  <2> HIDE DEF u
  <2>6. OtherEnds(Append(u, NewLine)) = Append(OtherEnds(u), Crlf(NewLine))
    BY <1>1, <2>4, OtherEndsAppend
  <2>7. OtherEnds(P(Append(v, e))) = Q(Append(v, e))
    BY <1>2, <2>2, <2>3, <2>5, <2>6, Zenon
  <2> QED BY <2>1, <2>7, Zenon
<1>8. OtherEnds(P(lines)) = Q(lines)
  <2> HIDE DEF T
  <2>1. lines \in T
    BY <1>4, <1>6, <1>7, Growth DEF none
  <2> QED BY <2>1 DEF T
<1>9. P(lines) \in Seq(S)
  <2>1. lines \in Seq(S)
    BY <1>1, <1>4
  <2> QED BY <1>1, <2>1, PrintedAppend DEF P
<1> DEFINE t == P(lines)
<1> HIDE DEF t
<1>10. OtherEnds(Append(t, NewLine)) = Append(OtherEnds(t), Crlf(NewLine))
  <2>1. t \in Seq(S)
    BY <1>9 DEF t
  <2> QED BY <1>1, <2>1, OtherEndsAppend
<1> QED BY <1>2, <1>8, <1>10, Zenon DEF Packet, t, P, Q, lines

LEMMA OnePrinted ==
  ASSUME NEW S, NewLine \in S, NEW x \in S
  PROVE  Printed(<<x>>, NewLine) = <<x, NewLine>> /\ <<x>> \in Seq(S)
<1> DEFINE none == << >>
<1>1. none \in Seq(S) /\ Append(none, x) = <<x>> /\ <<x>> \in Seq(S) /\ none \o <<x, NewLine>> = <<x, NewLine>>
  OBVIOUS
<1>2. Printed(none, NewLine) = none
  BY PrintedEmpty
<1> HIDE DEF none
<1>3. Printed(Append(none, x), NewLine) = Append(Append(Printed(none, NewLine), x), NewLine)
  <2>1. \A v \in Seq(S), e \in S :
          /\ Printed(Append(v, e), NewLine) = Append(Append(Printed(v, NewLine), e), NewLine)
          /\ Printed(v, NewLine) \in Seq(S)
    BY PrintedNext
  <2> QED BY <1>1, <2>1, Zenon
<1>4. Append(Append(none, x), NewLine) = none \o <<x, NewLine>> /\ <<x, NewLine>> \in Seq(S) /\ Len(<<x, NewLine>>) = 2
  BY <1>1, TwoMore, Zenon
<1> QED BY <1>1, <1>2, <1>3, <1>4, Zenon

\* The header line x and the lines w after it.
LEMMA EndedFirst ==
  ASSUME NEW S, NewLine \in S, NEW x \in S, NEW w \in Seq(S)
  PROVE  /\ Ended(<<x>> \o w) = <<x, NewLine>> \o Ended(w)
         /\ FirstLine(Ended(<<x>> \o w)) = <<x, NewLine>>
         /\ SubSeq(Ended(<<x>> \o w), 3, Len(Ended(<<x>> \o w))) = Ended(w)
<1> DEFINE one == <<x>>  t == Ended(w)
<1>1. Printed(one, NewLine) = <<x, NewLine>> /\ one \in Seq(S)
  BY OnePrinted
<1> HIDE DEF one
<1>2. Printed(one, NewLine) \o t = Ended(one \o w) /\ t \in Seq(S)
  BY <1>1, PrintedTail
<1> HIDE DEF t
<1>3. PutsBefore(one, x, t) /\ <<x, NewLine>> \o t \in Seq(S)
  BY <1>1, <1>2, PutBefore
<1> QED BY <1>1, <1>2, <1>3, Zenon DEF PutsBefore, FirstLine, one, t

LinesFrom(h, v) == LinesOf(<<h>> \o v) = <<LineOf(h)>> \o LinesOf(v)

LEMMA FirstLineOf ==
  ASSUME NEW N, NEW W, NEW h \in Headers(N, W), NEW v \in Seq(Headers(N, W))
  PROVE  LinesFrom(h, v)
<1> DEFINE H == Headers(N, W)  one == <<h>>
<1>1. one \in Seq(H) /\ Len(one) = 1 /\ one[1] = h /\ DOMAIN one = {1}
  OBVIOUS
<1>2. LinesOf(one) = <<LineOf(h)>>
  <2>1. LinesOf(one) = [i \in {1} |-> LineOf(h)]
    BY <1>1, Zenon DEF LinesOf
  <2> QED BY <2>1
<1> HIDE DEF one
<1>3. LinesOf(one \o v) = LinesOf(one) \o LinesOf(v)
  BY <1>1, LinesConcat
<1>4. LinesOf(one \o v) = <<LineOf(h)>> \o LinesOf(v)
  BY <1>2, <1>3, Zenon
<1>5. one = <<h>>
  BY DEF one
<1> QED BY <1>4, <1>5, Zenon DEF LinesFrom

\* What the server reads of a packet with the headers a and then h and b, whatever
\* happened to the line of h.
ReadAs(msg, damage, a, h, b) ==
    /\ damage \in {"none", "doubled", "crlf", "noise"} => msg = a \o (<<h>> \o b)
    /\ damage = "lost" => msg = a \o b
    /\ damage = "repeated" => msg = Append(a, h) \o (<<h>> \o b)
    /\ damage = "blanks" => msg = a

LEMMA DamagedRead ==
  ASSUME NEW N, NEW W, Word("noise") \in W, NEW a \in Seq(Headers(N, W)), NEW h \in Headers(N, W),
         NEW b \in Seq(Headers(N, W)), NEW in, in.place = Len(a) + 1, in.damage \in Damages
  PROVE  ReadAs(Parse(CleanLegacyPacket(Damaged(in, AsString(a \o (<<h>> \o b))))), in.damage, a, h, b)
<1> DEFINE H == Headers(N, W)  S == Tokens(N, W) \cup Noise(W)  c == <<h>> \o b  signed == a \o c
           p == LinesOf(a)  q == LinesOf(b)  x == LineOf(h)  o == Other(Word("noise"))
           r == LinesOf(c)  text == AsString(signed)  got == Damaged(in, text)
           after == Ended(r)
<1>0. \A v \in Seq(Headers(N, W)) : LinesOf(<<h>> \o v) = <<LineOf(h)>> \o LinesOf(v)
  <2>1. \A v \in Seq(Headers(N, W)) : LinesFrom(h, v)
    BY FirstLineOf
  <2> QED BY <2>1, Zenon DEF LinesFrom
<1>1. r = <<x>> \o q /\ c \in Seq(H) /\ x \in HeaderLines(N, W)
  <2>1. r = <<x>> \o q
    BY <1>0, Zenon
  <2>2. x \in HeaderLines(N, W)
    BY OneHeader
  <2>3. c \in Seq(H)
    <3> HIDE DEF H
    <3>1. h \in H /\ b \in Seq(H)
      BY DEF H
    <3> QED BY <3>1
  <2> QED BY <2>1, <2>2, <2>3, Zenon
<1>2. NewLine \in S /\ HeaderLines(N, W) \subseteq S /\ o \in S
  <2>1. NewLine \in Breaks /\ o \in Noise(W)
    BY DEF Breaks, Noise
  <2> QED BY <2>1, TokensRead
<1>3. /\ p \in Seq(HeaderLines(N, W)) /\ Len(p) = Len(a)
      /\ \A i \in 1..Len(a) : p[i] = LineOf(a[i])
  BY LinesType
<1>4. /\ q \in Seq(HeaderLines(N, W)) /\ Len(q) = Len(b)
      /\ \A i \in 1..Len(b) : q[i] = LineOf(b[i])
  BY LinesType
<1> HIDE DEF c
<1>5. signed \in Seq(H) /\ LinesOf(signed) = p \o r
  <2>1. c \in Seq(H)
    BY <1>1
  <2>2. signed \in Seq(H)
    BY <2>1
  <2>3. LinesOf(a \o c) = LinesOf(a) \o LinesOf(c)
    BY <2>1, LinesConcat
  <2> QED BY <2>2, <2>3, Zenon
<1> HIDE DEF signed
<1>6. /\ text = Packet(signed, NewLine)
      /\ Parse(AsString(signed)) = signed
      /\ Parse(CleanLegacyPacket(AsString(signed))) = signed
      /\ Parse(CleanLegacyPacket(Doubled(AsString(signed)))) = signed
      /\ Parse(CleanLegacyPacket(Packet(signed, CarriageReturn))) = signed
  BY <1>5, PacketSurvives
<1>7. OtherEnds(Packet(signed, NewLine)) = Packet(signed, CarriageReturn)
  BY <1>5, OtherEndsRead
<1>8. \A m \in Seq(H) : Parse(CleanLegacyPacket(Ended(LinesOf(m)))) = m
  BY MessageRead
<1>9. Parse(CleanLegacyPacket(Ended(Append(p, o) \o r))) = signed
  <2>1. c \in Seq(H)
    BY <1>1
  <2>2. Parse(CleanLegacyPacket(Ended(Append(LinesOf(a), Other(Word("noise"))) \o LinesOf(c)))) = a \o c
    BY <2>1, NoisyRead
  <2> QED BY <2>2, Zenon DEF signed
<1>10. \A rest \in Seq(Tokens(N, W)) :
         Parse(CleanLegacyPacket(Printed(p, NewLine) \o (<<NewLine, NewLine>> \o rest))) = a
  BY BlankRead
<1>11. LinesOf(a \o b) = p \o q /\ a \o b \in Seq(H)
  BY LinesConcat
<1>12. LinesOf(Append(a, h) \o c) = Append(p, x) \o r /\ Append(a, h) \o c \in Seq(H)
  <2> DEFINE ah == Append(a, h)  none == << >>  one == <<h>>
  <2>1. ah \in Seq(H) /\ none \in Seq(H) /\ ah = a \o one /\ one \in Seq(H) /\ one \o none = one
    OBVIOUS
  <2>2. LinesOf(one \o none) = <<x>> \o LinesOf(none)
    BY <1>0, <2>1, Zenon
  <2>3. LinesOf(none) = none
    BY DEF LinesOf
  <2>4. <<x>> \o none = <<x>>
    OBVIOUS
  <2>5. p \o <<x>> = Append(p, x)
    <3> HIDE DEF p, x
    <3> QED BY <1>1, <1>3
  <2> HIDE DEF ah, none, one
  <2>6. LinesOf(a \o one) = p \o LinesOf(one)
    BY <2>1, LinesConcat, SMTT(40)
  <2>7. LinesOf(ah \o c) = LinesOf(ah) \o r
    <3>1. ah \in Seq(H) /\ c \in Seq(H)
      BY <1>1, <2>1
    <3> QED BY <3>1, LinesConcat
  <2>8. ah \o c \in Seq(H)
    BY <1>1, <2>1
  <2> QED BY <2>1, <2>2, <2>3, <2>4, <2>5, <2>6, <2>7, <2>8, Zenon DEF ah
<1>13. after \in Seq(Tokens(N, W))
  <2> DEFINE Z == Tokens(N, W)
  <2>1. NewLine \in Z /\ HeaderLines(N, W) \subseteq Z
    <3>1. NewLine \in Breaks
      BY DEF Breaks
    <3> QED BY <3>1, TokensRead
  <2>2. r \in Seq(Z)
    <3>1. x \in Z /\ q \in Seq(Z)
      <4> HIDE DEF Z, x, q
      <4> QED BY <1>1, <1>4, <2>1
    <3> HIDE DEF Z, x, q
    <3>2. <<x>> \o q \in Seq(Z)
      BY <3>1
    <3> QED BY <1>1, <3>2, Zenon
  <2> HIDE DEF Z, r
  <2>3. Printed(r, NewLine) \o Ended(r) = Ended(r \o r) /\ Ended(r) \in Seq(Z)
    BY <2>1, <2>2, PrintedTail
  <2> QED BY <2>3 DEF Z
<1>14. p \in Seq(S) /\ q \in Seq(S) /\ x \in S /\ r \in Seq(S)
  <2> HIDE DEF p, q, x, r, S
  <2>1. p \in Seq(S) /\ q \in Seq(S) /\ x \in S
    BY <1>1, <1>2, <1>3, <1>4
  <2>2. <<x>> \o q \in Seq(S)
    BY <2>1
  <2> QED BY <1>1, <2>1, <2>2, Zenon
<1> HIDE DEF p, q, x, r, S, H, o
<1>15. text = Ended(p \o r)
  BY <1>5, <1>6, Zenon DEF Packet, Ended
<1> HIDE DEF text
<1>16. /\ Ended(<<x>> \o q) = <<x, NewLine>> \o Ended(q)
       /\ FirstLine(Ended(<<x>> \o q)) = <<x, NewLine>>
       /\ SubSeq(Ended(<<x>> \o q), 3, Len(Ended(<<x>> \o q))) = Ended(q)
  BY <1>2, <1>14, EndedFirst
<1>17. after = <<x, NewLine>> \o Ended(q) /\ FirstLine(after) = <<x, NewLine>> /\ SubSeq(after, 3, Len(after)) = Ended(q)
  BY <1>1, <1>16, Zenon
<1>18. \A v \in Seq(S), w \in Seq(S) : Printed(v, NewLine) \o Ended(w) = Ended(v \o w) /\ Ended(w) \in Seq(S)
  BY <1>2, PrintedTail
<1>19. after \in Seq(S)
  BY <1>14, <1>18
<1> HIDE DEF after
<1> DEFINE t == Printed(p, NewLine)
<1>20. t \in Seq(S) /\ Len(t) = 2 * Len(p)
  <2>1. /\ Printed(p \o q, NewLine) = Printed(p, NewLine) \o Printed(q, NewLine)
        /\ Printed(p, NewLine) \in Seq(S) /\ Len(Printed(p, NewLine)) = 2 * Len(p)
    BY <1>2, <1>14, PrintedConcat
  <2> QED BY <2>1, Zenon
<1> HIDE DEF t
<1>21. text = t \o after
  BY <1>14, <1>15, <1>18, Zenon DEF t, after
<1>22. SubSeq(text, 1, Len(t)) = t /\ SubSeq(text, Len(t) + 1, Len(text)) = after
  BY <1>19, <1>20, <1>21, ConcatParts
<1>23. Len(t) = 2 * in.place - 1 - 1 /\ Len(t) + 1 = 2 * in.place - 1
  <2>1. Len(a) \in Nat
    OBVIOUS
  <2> QED BY <1>3, <1>20, <2>1
<1>24. ~(in.damage \in {"doubled", "crlf"}) => got = t \o Instead(in.damage, after)
  <2> DEFINE line == 2 * in.place - 1
  <2>1. ~(in.damage \in {"doubled", "crlf"}) =>
          got = SubSeq(text, 1, line - 1) \o Instead(in.damage, SubSeq(text, line, Len(text)))
    BY Zenon DEF Damaged
  <2> HIDE DEF line
  <2> QED BY <1>22, <1>23, <2>1, Zenon DEF line
<1> DEFINE msg == Parse(CleanLegacyPacket(got))
<1>25. ASSUME in.damage = "doubled" PROVE msg = signed
  <2>1. got = Doubled(text)
    BY <1>25, Zenon DEF Damaged
  <2> QED BY <1>6, <2>1, Zenon DEF text
<1>26. ASSUME in.damage = "crlf" PROVE msg = signed
  <2>1. got = OtherEnds(text)
    <3>1. "crlf" # "doubled"
      OBVIOUS
    <3> QED BY <1>26, <3>1, Zenon DEF Damaged, OtherEnds
  <2> QED BY <1>6, <1>7, <2>1, Zenon
<1>27. ASSUME in.damage = "none" PROVE msg = signed
  <2>1. Instead(in.damage, after) = after
    BY <1>27 DEF Instead
  <2>2. got = text
    BY <1>21, <1>24, <1>27, <2>1
  <2> QED BY <1>6, <2>2, Zenon DEF text
<1>28. ASSUME in.damage = "noise" PROVE msg = signed
  <2>1. Instead(in.damage, after) = <<o, NewLine>> \o after
    BY <1>28, Zenon DEF Instead, o
  <2>2. got = t \o (<<o, NewLine>> \o after)
    <3>1. ~(in.damage \in {"doubled", "crlf"})
      BY <1>28
    <3> QED BY <1>24, <2>1, <3>1, Zenon
  <2>3. PutsBefore(p, o, after) /\ <<o, NewLine>> \o after \in Seq(S)
    BY <1>2, <1>14, <1>19, PutBefore
  <2>4. Append(p, o) \in Seq(S)
    BY <1>2, <1>14
  <2>5. got = Ended(Append(p, o) \o r)
    BY <1>14, <1>18, <2>2, <2>3, <2>4, Zenon DEF PutsBefore, t, after
  <2> QED BY <1>9, <2>5, Zenon
<1>29. ASSUME in.damage = "lost" PROVE msg = a \o b
  <2>1. Instead(in.damage, after) = Ended(q)
    <3>1. "lost" # "noise" /\ "lost" # "blanks" /\ "lost" # "repeated"
      OBVIOUS
    <3> QED BY <1>17, <1>29, <3>1, Zenon DEF Instead
  <2>2. got = t \o Ended(q)
    <3>1. ~(in.damage \in {"doubled", "crlf"})
      BY <1>29
    <3> QED BY <1>24, <2>1, <3>1, Zenon
  <2>3. got = Ended(p \o q)
    BY <1>14, <1>18, <2>2, Zenon DEF t
  <2> QED BY <1>8, <1>11, <2>3, Zenon
<1>30. ASSUME in.damage = "repeated" PROVE msg = Append(a, h) \o c
  <2>1. Instead(in.damage, after) = <<x, NewLine>> \o after
    <3>1. "repeated" # "noise" /\ "repeated" # "blanks"
      OBVIOUS
    <3> QED BY <1>17, <1>30, <3>1, Zenon DEF Instead
  <2>2. got = t \o (<<x, NewLine>> \o after)
    <3>1. ~(in.damage \in {"doubled", "crlf"})
      BY <1>30
    <3> QED BY <1>24, <2>1, <3>1, Zenon
  <2>3. PutsBefore(p, x, after) /\ <<x, NewLine>> \o after \in Seq(S)
    BY <1>2, <1>14, <1>19, PutBefore
  <2>4. Append(p, x) \in Seq(S)
    BY <1>14
  <2>5. got = Ended(Append(p, x) \o r)
    BY <1>14, <1>18, <2>2, <2>3, <2>4, Zenon DEF PutsBefore, t, after
  <2> QED BY <1>8, <1>12, <2>5, Zenon
<1>31. ASSUME in.damage = "blanks" PROVE msg = a
  <2>1. Instead(in.damage, after) = <<NewLine, NewLine>> \o after
    <3>1. "blanks" # "noise"
      OBVIOUS
    <3> QED BY <1>31, <3>1, Zenon DEF Instead
  <2>2. got = t \o (<<NewLine, NewLine>> \o after)
    <3>1. ~(in.damage \in {"doubled", "crlf"})
      BY <1>31
    <3> QED BY <1>24, <2>1, <3>1, Zenon
  <2> QED BY <1>10, <1>13, <2>2, Zenon DEF t
<1> HIDE DEF msg, got
<1>32. in.damage \in {"none", "doubled", "crlf", "noise"} => msg = signed
  BY <1>25, <1>26, <1>27, <1>28
<1> QED BY <1>29, <1>30, <1>31, <1>32, Zenon DEF ReadAs, msg, got, text, signed, c

(***************************************************************************)
(* The headers of a signed request                                         *)
(***************************************************************************)
\* What a request that is signed for this time may have besides its signature.
Unsigned(N, W, timestamp) ==
    {h \in Headers(N, W) : h[1] # "Sig" /\ (h[1] = "Time" => h = Header("Time", Number(timestamp)))}
SigHeader(msg, account, timestamp) == Header("Sig", SigOf(msg, account, timestamp))

LEMMA UnsignedHas ==
  ASSUME NEW N, NEW W, NEW timestamp, NEW x \in Seq(Unsigned(N, W, timestamp))
  PROVE  /\ x \in Seq(Headers(N, W)) /\ ~Has(x, "Sig")
         /\ Has(x, "Time") => FirstOf(x, "Time") = <<Number(timestamp)>>
<1> DEFINE Q == Unsigned(N, W, timestamp)  H == Headers(N, W)  n == Number(timestamp)
<1>1. Q \subseteq H
  BY DEF Unsigned
<1>2. \A h \in Q : h[1] # "Sig" /\ (h[1] = "Time" => h = Header("Time", n))
  BY Zenon DEF Unsigned
<1>3. x \in Seq(Q)
  OBVIOUS
<1> HIDE DEF Q, H, n
<1>4. x \in Seq(H)
  BY <1>1, <1>3
<1>5. DOMAIN x = 1..Len(x) /\ \A i \in 1..Len(x) : x[i] \in Q
  BY <1>3
<1>6. ~Has(x, "Sig")
  BY <1>2, <1>5, Zenon DEF Has, Places
<1>7. Has(x, "Time") => FirstOf(x, "Time") = <<n>>
  <2> SUFFICES ASSUME Has(x, "Time") PROVE FirstOf(x, "Time") = <<n>>
    OBVIOUS
  <2> DEFINE h == x[Min(Places(x, "Time"))]
  <2>1. h \in Q /\ h[1] = "Time"
    BY <1>3, FirstPlace
  <2>2. FirstOf(x, "Time") = h[2]
    BY Zenon DEF FirstOf
  <2> HIDE DEF h
  <2>3. h = Header("Time", n)
    BY <1>2, <2>1
  <2>4. h[2] = <<n>>
    BY <2>3 DEF Header
  <2> QED BY <2>2, <2>4, Zenon
<1> QED BY <1>4, <1>6, <1>7, Zenon DEF H, n

LEMMA SignedParts ==
  ASSUME NEW N, NEW W, NEW msg \in Seq(Headers(N, W)), ~Has(msg, "Sig"), ~Has(msg, "Time"),
         NEW account, NEW timestamp, SignNames \subseteq N, SignWords(msg, account, timestamp) \subseteq W
  PROVE  /\ SignForAccount(msg, account, timestamp)
              = Append(Named(msg, account, timestamp), SigHeader(msg, account, timestamp))
         /\ Named(msg, account, timestamp) \in Seq(Unsigned(N, W, timestamp))
         /\ SigHeader(msg, account, timestamp) \in Headers(N, W)
<1> DEFINE H == Headers(N, W)  Q == Unsigned(N, W, timestamp)  n == Number(timestamp)
           user == SetHeader(msg, "User", account.user)
           named == Named(msg, account, timestamp)  sig == SigOf(msg, account, timestamp)
<1>1. Header("User", account.user) \in H /\ Header("Time", n) \in H /\ Header("Sig", sig) \in H
  <2>1. \A name \in N, word \in W : Header(name, word) \in H
    <3> SUFFICES ASSUME NEW name \in N, NEW word \in W PROVE Header(name, word) \in H
      OBVIOUS
    <3>1. <<name, word>> \in N \X W /\ <<name, word>>[1] = name /\ <<name, word>>[2] = word
      OBVIOUS
    <3> QED BY <3>1, Zenon DEF Headers
  <2>2. "User" \in N /\ "Time" \in N /\ "Sig" \in N
    BY DEF SignNames
  <2>3. account.user \in W /\ n \in W /\ sig \in W
    BY DEF SignWords
  <2> QED BY <2>1, <2>2, <2>3, Zenon
<1>2. msg \in Seq(H) /\ named = SetHeader(user, "Time", n)
  BY Zenon DEF Named
<1>3. Q = {h \in H : h[1] # "Sig" /\ (h[1] = "Time" => h = Header("Time", n))}
  BY Zenon DEF Unsigned
<1> HIDE DEF H, Q, n, user, named, sig
<1>4. SetsHeader(msg, "User", account.user, user) /\ user \in Seq(H)
  BY <1>1, <1>2, HeaderSet DEF user
<1>5. ~Has(user, "Sig") /\ ~Has(user, "Time")
  BY <1>4 DEF SetsHeader
<1>6. named = Append(user, Header("Time", n))
  BY <1>2, <1>5, Zenon DEF SetHeader, AddHeader
<1>7. Header("Time", n)[1] = "Time"
  BY DEF Header
<1>8. user \in Seq(Q)
  <2>1. DOMAIN user = 1..Len(user) /\ Len(user) \in Nat /\ \A i \in 1..Len(user) : user[i] \in H
    BY <1>4
  <2>2. \A i \in 1..Len(user) : user[i][1] # "Sig" /\ user[i][1] # "Time"
    BY <1>5, <2>1, Zenon DEF Has, Places
  <2>3. \A i \in 1..Len(user) : user[i] \in Q
    BY <1>3, <2>1, <2>2
  <2>4. user = [i \in 1..Len(user) |-> user[i]]
    BY <1>4, <2>1
  <2> QED BY <2>1, <2>3, <2>4
<1>9. Header("Time", n) \in Q
  BY <1>1, <1>3, <1>7
<1>10. named \in Seq(Q)
  <2> DEFINE e == Header("Time", n)
  <2> HIDE DEF e
  <2>1. user \in Seq(Q) /\ e \in Q
    BY <1>8, <1>9 DEF e
  <2>2. Append(user, e) \in Seq(Q)
    BY <2>1
  <2> QED BY <1>6, <2>2, Zenon DEF e
<1>11. ~Has(named, "Sig")
  BY <1>10, UnsignedHas DEF Q
<1>12. SignForAccount(msg, account, timestamp) = SetHeader(named, "Sig", sig)
  BY Zenon DEF SignForAccount, Named, SigOf, named, sig
<1>13. SignForAccount(msg, account, timestamp) = Append(named, Header("Sig", sig))
  BY <1>11, <1>12, Zenon DEF SetHeader, AddHeader
<1> QED BY <1>1, <1>10, <1>13, Zenon DEF SigHeader, named, sig, Q, H

(***************************************************************************)
(* What comes of a signed request                                          *)
(***************************************************************************)
\* A message with the headers named and the signature s last arrives with its
\* headers, the signature perhaps twice, or without a signature, or with others
\* before it.
Arrives(msg, intact, named, s, Q) ==
    \/ intact /\ msg \in {Append(named, s), Append(Append(named, s), s)}
    \/ ~intact /\ msg \in Seq(Q)
    \/ ~intact /\ \E x \in Seq(Q) : Len(x) # Len(named) /\ msg = Append(x, s)

LEMMA SignatureHit ==
  ASSUME NEW Q, NEW named \in Seq(Q), NEW s, NEW in, Sent(in) = Append(named, s),
         in.place = Len(named) + 1, in.damage \in Damages,
         NEW msg, ReadAs(msg, in.damage, named, s, << >>)
  PROVE  Arrives(msg, Intact(in), named, s, Q)
<1> DEFINE signed == Append(named, s)
<1>1. named \o (<<s>> \o << >>) = signed /\ named \o << >> = named /\ signed \o (<<s>> \o << >>) = Append(signed, s)
      /\ Len(signed) = Len(named) + 1
  <2>1. <<s>> \o << >> = <<s>>
    OBVIOUS
  <2>2. named \o <<s>> = signed /\ signed \o <<s>> = Append(signed, s) /\ Len(signed) = Len(named) + 1
    OBVIOUS
  <2>3. named \o << >> = named
    OBVIOUS
  <2> HIDE DEF signed
  <2> QED BY <2>1, <2>2, <2>3, Zenon
<1> HIDE DEF signed
<1>2. Intact(in) <=> in.damage \in {"none", "doubled", "crlf", "noise"} \/ in.damage = "repeated"
  <2>1. Len(Sent(in)) = in.place
    BY <1>1 DEF signed
  <2> QED BY <2>1, Zenon DEF Intact
<1>3. in.damage \in {"none", "doubled", "crlf", "noise"} => msg = signed
  BY <1>1, Zenon DEF ReadAs
<1>4. in.damage = "lost" => msg = named
  BY <1>1, Zenon DEF ReadAs
<1>5. in.damage = "repeated" => msg = Append(signed, s)
  BY <1>1, Zenon DEF ReadAs, signed
<1>6. in.damage = "blanks" => msg = named
  BY Zenon DEF ReadAs
<1>7. in.damage \in {"none", "doubled", "crlf", "noise"} \/ in.damage \in {"lost", "repeated", "blanks"}
  BY DEF Damages
<1>8. in.damage \in {"lost", "blanks"} => ~Intact(in)
  BY <1>2
<1>9. CASE in.damage \in {"none", "doubled", "crlf", "noise"} \/ in.damage = "repeated"
  <2>1. msg = signed \/ msg = Append(signed, s)
    BY <1>3, <1>5, <1>9, Zenon
  <2>2. msg \in {signed, Append(signed, s)}
    BY <2>1, Zenon
  <2>3. Intact(in)
    BY <1>2, <1>9, Zenon
  <2> QED BY <2>2, <2>3, Zenon DEF Arrives, signed
<1>10. CASE in.damage \in {"lost", "blanks"}
  <2>1. msg = named /\ ~Intact(in)
    BY <1>4, <1>6, <1>8, <1>10, Zenon
  <2> QED BY <2>1, Zenon DEF Arrives
<1> QED BY <1>7, <1>9, <1>10

Regroups(x, y, z) == (x \o y) \o z = x \o (y \o z)

LEMMA ThreeJoined ==
  ASSUME NEW S, NEW x \in Seq(S), NEW y \in Seq(S), NEW z \in Seq(S)
  PROVE  Regroups(x, y, z)
BY ConcatAssociative DEF Regroups

LEMMA HeaderHit ==
  ASSUME NEW H, NEW Q, Q \subseteq H, NEW named \in Seq(Q), NEW s \in H, NEW in, Sent(in) = Append(named, s),
         in.place \in 1..Len(named), in.damage \in Damages, NEW a \in Seq(Q), NEW h \in Q, NEW b \in Seq(Q),
         named = Append(a, h) \o b, Len(a) = in.place - 1,
         NEW msg, ReadAs(msg, in.damage, a, h, Append(b, s))
  PROVE  Arrives(msg, Intact(in), named, s, Q)
<1> DEFINE signed == Append(named, s)  twice == Append(a, h) \o (<<h>> \o b)
<1>1. /\ Len(signed) = Len(named) + 1 /\ Len(named) = Len(a) + 1 + Len(b)
      /\ a \o b \in Seq(Q) /\ Len(a \o b) # Len(named)
      /\ twice \in Seq(Q) /\ Len(twice) # Len(named)
  <2>1. /\ Append(a, h) \in Seq(Q) /\ Len(Append(a, h)) = Len(a) + 1
        /\ <<h>> \o b \in Seq(Q) /\ Len(<<h>> \o b) = Len(b) + 1
        /\ Len(a) \in Nat /\ Len(b) \in Nat
    OBVIOUS
  <2>2. Len(signed) = Len(named) + 1
    OBVIOUS
  <2>3. a \o b \in Seq(Q) /\ Len(a \o b) = Len(a) + Len(b)
    OBVIOUS
  <2> DEFINE v == Append(a, h)  w == <<h>> \o b
  <2>4. v \in Seq(Q) /\ w \in Seq(Q)
    BY <2>1
  <2> HIDE DEF v, w, signed
  <2>5. v \o w \in Seq(Q) /\ Len(v \o w) = Len(v) + Len(w) /\ Len(v \o b) = Len(v) + Len(b)
    BY <2>4
  <2>6. named = v \o b /\ twice = v \o w
    BY Zenon DEF v, w
  <2>7. Len(v) = Len(a) + 1 /\ Len(w) = Len(b) + 1
    BY <2>1, Zenon DEF v, w
  <2> HIDE DEF twice
  <2> QED BY <2>1, <2>2, <2>3, <2>5, <2>6, <2>7, SMTT(40)
<1> DEFINE one == <<h>>  end == Append(b, s)  first == Append(a, h)
<1> HIDE DEF signed, twice
<1>2. /\ a \in Seq(H) /\ b \in Seq(H) /\ one \in Seq(H) /\ first \in Seq(H) /\ one \o b \in Seq(H)
      /\ first = a \o one
  <2>1. a \in Seq(H) /\ b \in Seq(H) /\ h \in H /\ one \in Seq(H)
    OBVIOUS
  <2>2. first \in Seq(H) /\ first = a \o one
    BY <2>1, AppendIsConcat
  <2> HIDE DEF one, first
  <2>3. one \o b \in Seq(H)
    BY <2>1
  <2> QED BY <2>1, <2>2, <2>3, Zenon
<1> HIDE DEF one, first
<1>3. a \o end = Append(a \o b, s) /\ end \in Seq(H) /\ a \o b \in Seq(H)
  BY <1>2, ConcatAppend
<1>31. first \o end = Append(first \o b, s) /\ end \in Seq(H) /\ first \o b \in Seq(H)
  BY <1>2, ConcatAppend, SMTT(40)
<1>32. one \o end = Append(one \o b, s) /\ end \in Seq(H) /\ one \o b \in Seq(H)
  BY <1>2, ConcatAppend
<1>33. first \o Append(one \o b, s) = Append(first \o (one \o b), s)
  <2> DEFINE rest == one \o b
  <2>1. first \in Seq(H) /\ rest \in Seq(H)
    BY <1>2
  <2> HIDE DEF rest
  <2>2. first \o Append(rest, s) = Append(first \o rest, s) /\ Append(rest, s) \in Seq(H) /\ first \o rest \in Seq(H)
    BY <2>1, ConcatAppend
  <2> QED BY <2>2, Zenon DEF rest
<1> HIDE DEF end
<1>34. (a \o one) \o end = a \o (one \o end)
  <2>1. a \in Seq(H) /\ one \in Seq(H) /\ end \in Seq(H)
    BY <1>2, <1>3
  <2>2. Regroups(a, one, end)
    BY <2>1, ThreeJoined
  <2> QED BY <2>2, Zenon DEF Regroups
<1>35. a \o (<<h>> \o Append(b, s)) = signed
  <2>1. a \o (one \o end) = Append(first \o b, s)
    <3>1. a \o one = first
      BY <1>2, Zenon
    <3>2. first \o end = a \o (one \o end)
      BY <1>34, <3>1, Zenon
    <3>3. first \o end = Append(first \o b, s)
      BY <1>31, Zenon
    <3> HIDE DEF one, first
    <3> QED BY <3>2, <3>3, Zenon
  <2>2. first \o b = named
    BY Zenon DEF first
  <2>3. a \o (one \o end) = signed
    BY <2>1, <2>2, Zenon DEF signed
  <2> QED BY <2>3, Zenon DEF one, end
<1>36. Append(a, h) \o (<<h>> \o Append(b, s)) = Append(twice, s)
  BY <1>32, <1>33, Zenon DEF one, end, first, twice
<1>5. Intact(in) <=> in.damage \in {"none", "doubled", "crlf", "noise"}
  <2>1. Len(Sent(in)) # in.place
    BY <1>1 DEF signed
  <2> QED BY <2>1, Zenon DEF Intact
<1>6. in.damage \in {"none", "doubled", "crlf", "noise"} => msg = signed
  BY <1>35, Zenon DEF ReadAs
<1>7. in.damage = "lost" => msg = Append(a \o b, s)
  BY <1>3, Zenon DEF ReadAs, end
<1>8. in.damage = "repeated" => msg = Append(twice, s)
  BY <1>36, Zenon DEF ReadAs
<1>9. in.damage = "blanks" => msg = a
  BY Zenon DEF ReadAs
<1>10. in.damage \in {"none", "doubled", "crlf", "noise"} \/ in.damage = "lost" \/ in.damage = "repeated" \/ in.damage = "blanks"
  BY DEF Damages
<1>11. CASE Intact(in)
  BY <1>5, <1>6, <1>11, Zenon DEF Arrives, signed
<1>12. CASE ~Intact(in)
  <2>1. in.damage = "lost" => Arrives(msg, Intact(in), named, s, Q)
    <3>1. a \o b \in Seq(Q) /\ Len(a \o b) # Len(named)
      BY <1>1
    <3> QED BY <1>7, <1>12, <3>1, Zenon DEF Arrives
  <2>2. in.damage = "repeated" => Arrives(msg, Intact(in), named, s, Q)
    <3>1. twice \in Seq(Q) /\ Len(twice) # Len(named)
      BY <1>1
    <3> QED BY <1>8, <1>12, <3>1, Zenon DEF Arrives
  <2>3. in.damage = "blanks" => Arrives(msg, Intact(in), named, s, Q)
    BY <1>9, <1>12, Zenon DEF Arrives
  <2> QED BY <1>5, <1>10, <1>12, <2>1, <2>2, <2>3
<1> QED BY <1>11, <1>12

(***************************************************************************)
(* What the server makes of it                                             *)
(***************************************************************************)
\* What it finds of the name in set, to which h was added.
AddsFor(set, msg, h, name) ==
    /\ Has(set, name) <=> Has(msg, name) \/ h[1] = name
    /\ Has(msg, name) => FirstOf(set, name) = FirstOf(msg, name)
    /\ ~Has(msg, name) /\ h[1] = name => FirstOf(set, name) = h[2]
    /\ h[1] = name => RemoveAll(set, name) = RemoveAll(msg, name)

LEMMA LastAdded ==
  ASSUME NEW H, NEW msg \in Seq(H), NEW h \in H, NEW name
  PROVE  AddsFor(Append(msg, h), msg, h, name)
<1> DEFINE set == Append(msg, h)  n == Len(msg)  S == Places(msg, name)  T == Places(set, name)
           P == {msg[i] : i \in DOMAIN msg \ S}  R == {set[i] : i \in DOMAIN set \ T}
<1>1. /\ set \in Seq(H) /\ n \in Nat /\ Len(set) = n + 1 /\ \A i \in 1..n : set[i] = msg[i]
      /\ set[n + 1] = h /\ DOMAIN set = 1..(n + 1) /\ DOMAIN msg = 1..n
  OBVIOUS
<1>2. /\ S \subseteq 1..n
      /\ Has(msg, name) => Min(S) \in S /\ Min(S) \in 1..n
  BY FirstPlace
<1>3. RemoveAll(msg, name) = Sift(msg, P) /\ RemoveAll(set, name) = Sift(set, R)
  BY Zenon DEF RemoveAll
<1>4. R = {e \in R : e[1] # name} /\ P = {e \in P : e[1] # name}
  <2> HIDE DEF set
  <2> QED BY <1>1 DEF Places
<1>5. Sift(set, R) = SiftNext(Sift(msg, R), h, R)
  <2> HIDE DEF R
  <2> QED BY SiftAppend
<1> HIDE DEF set, n
<1>6. T = IF h[1] = name THEN S \cup {n + 1} ELSE S
  <2>1. \A i \in 1..(n + 1) : i \in 1..n \/ i = n + 1
    BY <1>1
  <2>2. \A i \in 1..n : i \in 1..(n + 1) /\ i # n + 1
    BY <1>1
  <2>3. n + 1 \in 1..(n + 1)
    BY <1>1
  <2> QED BY <1>1, <2>1, <2>2, <2>3 DEF Places
<1>7. ASSUME Has(msg, name) PROVE FirstOf(set, name) = FirstOf(msg, name)
  <2> DEFINE k == Min(S)
  <2>1. k \in S /\ k \in 1..n /\ S \in SUBSET Nat
    <3>1. 1..n \subseteq Nat
      BY <1>1
    <3>2. k \in S /\ k \in 1..n /\ S \subseteq 1..n
      BY <1>2, <1>7
    <3> HIDE DEF S, k
    <3> QED BY <3>1, <3>2
  <2>2. \A i \in S : k <= i
    <3>1. PICK j \in S : \A i \in S : j <= i
      <4> HIDE DEF S, k
      <4> QED BY <2>1, Least
    <3>2. k = j
      <4> HIDE DEF S
      <4> QED BY <2>1, <3>1, LeastOf
    <3> QED BY <3>1, <3>2, Zenon
  <2> HIDE DEF k
  <2>3. \A i \in T : k <= i
    <3> HIDE DEF S, T
    <3> QED BY <1>1, <1>6, <2>1, <2>2
  <2>4. k \in T /\ T \in SUBSET Nat
    <3> HIDE DEF S, T
    <3> QED BY <1>1, <1>6, <2>1
  <2>5. Min(T) = k
    <3> HIDE DEF T
    <3> QED BY <2>3, <2>4, LeastOf
  <2>6. set[k] = msg[k]
    BY <1>1, <2>1
  <2> QED BY <2>5, <2>6, Zenon DEF FirstOf, k
<1>8. ASSUME ~Has(msg, name), h[1] = name PROVE FirstOf(set, name) = h[2]
  <2>1. T = {n + 1}
    BY <1>6, <1>8 DEF Has
  <2>2. Min(T) = n + 1
    <3>1. \A i \in {n + 1} : n + 1 <= i
      BY <1>1
    <3>2. {n + 1} \in SUBSET Nat
      BY <1>1
    <3> QED BY <2>1, <3>1, <3>2, LeastOf
  <2> QED BY <1>1, <2>2, Zenon DEF FirstOf
<1>9. ASSUME h[1] = name PROVE RemoveAll(set, name) = RemoveAll(msg, name)
  <2>1. DOMAIN set \ T = DOMAIN msg \ S
    <3>1. (1..(n + 1)) \ (S \cup {n + 1}) = (1..n) \ S
      <4> HIDE DEF S
      <4> QED BY <1>1
    <3>2. T = S \cup {n + 1}
      BY <1>6, <1>9
    <3> HIDE DEF S, T
    <3> QED BY <1>1, <3>1, <3>2, Zenon
  <2>2. R = P
    <3> DEFINE D == DOMAIN msg \ S
    <3>1. \A i \in D : set[i] = msg[i]
      BY <1>1
    <3>2. R = {set[i] : i \in D} /\ P = {msg[i] : i \in D}
      BY <2>1, Zenon
    <3> HIDE DEF D, R, P
    <3> QED BY <3>1, <3>2
  <2>3. h \notin R
    BY <1>4, <1>9
  <2> HIDE DEF R, P
  <2> QED BY <1>3, <1>5, <2>2, <2>3, Zenon DEF SiftNext
<1>10. Has(set, name) <=> Has(msg, name) \/ h[1] = name
  <2>1. Has(set, name) <=> T # {}
    BY Zenon DEF Has
  <2>2. Has(msg, name) <=> S # {}
    BY Zenon DEF Has
  <2> HIDE DEF S, T
  <2> QED BY <1>6, <2>1, <2>2
<1> HIDE DEF S, T, P, R
<1> QED BY <1>7, <1>8, <1>9, <1>10, Zenon DEF AddsFor, set

\* The server looks at no more than this.
SeesAlike(msg, other) ==
    /\ \A name \in {"Time", "User", "Sig"} :
         (Has(msg, name) <=> Has(other, name)) /\ FirstOf(msg, name) = FirstOf(other, name)
    /\ RemoveAll(msg, "Sig") = RemoveAll(other, "Sig")

LEMMA SameVerdict ==
  ASSUME NEW msg, NEW other, SeesAlike(msg, other), NEW key, NEW now, NEW checks
  PROVE  VerifySignature(msg, key, now, checks) = VerifySignature(other, key, now, checks)
<1>1. \A name \in {"Time", "User", "Sig"} : (Has(msg, name) <=> Has(other, name))
  BY Zenon DEF SeesAlike
<1>2. /\ FirstOf(msg, "Time") = FirstOf(other, "Time") /\ FirstOf(msg, "User") = FirstOf(other, "User")
      /\ FirstOf(msg, "Sig") = FirstOf(other, "Sig") /\ RemoveAll(msg, "Sig") = RemoveAll(other, "Sig")
  BY Zenon DEF SeesAlike
<1>3. (\A name \in {"Time", "User", "Sig"} : Has(msg, name)) <=> \A name \in {"Time", "User", "Sig"} : Has(other, name)
  BY <1>1, Zenon
<1> QED BY <1>2, <1>3, Zenon DEF VerifySignature

LEMMA Unsigned401 ==
  ASSUME NEW msg, ~Has(msg, "Sig"), NEW key, NEW now, NEW checks
  PROVE  VerifySignature(msg, key, now, checks) = "refused"
<1>1. ~\A name \in {"Time", "User", "Sig"} : Has(msg, name)
  BY Zenon
<1> QED BY <1>1, Zenon DEF VerifySignature

\* A signature said once more changes nothing.
LEMMA SaidTwice ==
  ASSUME NEW H, NEW msg \in Seq(H), NEW s \in H, s[1] = "Sig", \A name \in SignNames : Has(msg, name)
  PROVE  SeesAlike(Append(msg, s), msg)
<1> DEFINE set == Append(msg, s)
<1> HIDE DEF set
<1>1. \A name : AddsFor(set, msg, s, name)
  <2>1. \A name : AddsFor(Append(msg, s), msg, s, name)
    BY LastAdded
  <2> QED BY <2>1, Zenon DEF set
<1>2. \A name \in {"Time", "User", "Sig"} : Has(msg, name)
  BY DEF SignNames
<1>3. \A name \in {"Time", "User", "Sig"} :
        (Has(set, name) <=> Has(msg, name)) /\ FirstOf(set, name) = FirstOf(msg, name)
  BY <1>1, <1>2, Zenon DEF AddsFor
<1>4. RemoveAll(set, "Sig") = RemoveAll(msg, "Sig")
  BY <1>1, Zenon DEF AddsFor
<1> QED BY <1>3, <1>4, Zenon DEF SeesAlike, set

\* The verdict on a request, the key and the time for which it came.
Judged(verdict, intact, account, key, now, timestamp, checks, P) ==
    /\ verdict = "ok" <=> /\ intact /\ key = account.key /\ Near(now, timestamp, P)
                          /\ ~(checks /\ now - timestamp >= P)
    /\ verdict = "panic" => checks /\ now - timestamp >= P

\* A signature after other headers is refused, or their time panics.
LEMMA OthersRefused ==
  ASSUME NEW P \in Nat \ {0}, P = 2^(Width - 1), 2^Width = 2 * P,
         NEW now \in Int, 0 <= now, now < P, NEW timestamp \in Int, -P <= timestamp, timestamp < P,
         NEW N, NEW W, NEW msg \in Seq(Headers(N, W)), ~Has(msg, "Sig"), ~Has(msg, "Time"),
         NEW account, NEW key, NEW checks,
         SignNames \subseteq N, SignWords(msg, account, timestamp) \subseteq W,
         NEW x \in Seq(Unsigned(N, W, timestamp)), Len(x) # Len(Named(msg, account, timestamp))
  PROVE  LET verdict == VerifySignature(Append(x, SigHeader(msg, account, timestamp)), key, now, checks)
         IN verdict # "ok" /\ (verdict = "panic" => checks /\ now - timestamp >= P)
<1> DEFINE H == Headers(N, W)  s == SigHeader(msg, account, timestamp)  received == Append(x, s)
           named == Named(msg, account, timestamp)  signed == SignForAccount(msg, account, timestamp)
           sig == SigOf(msg, account, timestamp)  verdict == VerifySignature(received, key, now, checks)
<1>1. s \in H /\ s[1] = "Sig" /\ s[2] = <<sig>>
  <2>1. s \in H
    BY SignedParts
  <2> HIDE DEF H, sig
  <2>2. s = Header("Sig", sig)
    BY Zenon DEF SigHeader, sig
  <2> HIDE DEF s
  <2> QED BY <2>1, <2>2 DEF Header
<1>2. x \in Seq(H) /\ ~Has(x, "Sig") /\ (Has(x, "Time") => FirstOf(x, "Time") = <<Number(timestamp)>>)
  BY UnsignedHas
<1>3. FirstOf(signed, "Sig") = <<sig>> /\ RemoveAll(signed, "Sig") = named
  BY SignedHeaders DEF SignNames, SignWords
<1> HIDE DEF s, named, signed, sig
<1>4. \A name : AddsFor(received, x, s, name)
  <2> HIDE DEF H
  <2>1. \A name : AddsFor(Append(x, s), x, s, name)
    BY <1>1, <1>2, LastAdded
  <2> QED BY <2>1, Zenon
<1>5. received \in Seq(H)
  <2> HIDE DEF H
  <2> QED BY <1>1, <1>2
<1> HIDE DEF received, H
<1>6. FirstOf(received, "Sig") = <<sig>> /\ RemoveAll(received, "Sig") = RemoveAll(x, "Sig")
  BY <1>1, <1>2, <1>4, Zenon DEF AddsFor
<1>7. RemoveAll(x, "Sig") = x
  <2> DEFINE Q == {x[i] : i \in DOMAIN x \ Places(x, "Sig")}
  <2>1. Places(x, "Sig") = {}
    BY <1>2, Zenon DEF Has
  <2>2. \A i \in 1..Len(x) : x[i] \in Q
    BY <1>2, <2>1
  <2> HIDE DEF Q
  <2>3. Sift(x, Q) = x
    BY <1>2, <2>2, SiftAll
  <2> QED BY <2>3, Zenon DEF RemoveAll, Q
<1>8. verdict # "ok"
  <2> SUFFICES ASSUME verdict = "ok" PROVE FALSE
    OBVIOUS
  <2>1. received \in Seq(Headers(N, W)) /\ FirstOf(received, "Sig") = FirstOf(SignForAccount(msg, account, timestamp), "Sig")
        /\ VerifySignature(received, key, now, checks) = "ok"
    BY <1>3, <1>5, <1>6, Zenon DEF signed, H
  <2>2. RemoveAll(received, "Sig") = RemoveAll(SignForAccount(msg, account, timestamp), "Sig") /\ key = account.key
    BY <2>1, SignatureBinds
  <2>3. x = named
    BY <1>3, <1>6, <1>7, <2>2, Zenon DEF signed
  <2> QED BY <2>3, Zenon DEF named
<1>9. ASSUME verdict = "panic" PROVE checks /\ now - timestamp >= P
  <2> DEFINE at == FirstOf(received, "Time")[1].n
  <2>1. checks /\ Overflows(now, at) /\ Has(received, "Time")
    <3>1. \A p, a, b : (IF ~p THEN "refused" ELSE IF a THEN "panic" ELSE IF b THEN "ok" ELSE "refused") = "panic" => p /\ a
      OBVIOUS
    <3> DEFINE p == /\ \A name \in {"Time", "User", "Sig"} : Has(received, name)
                    /\ Len(FirstOf(received, "Time")) = 1 /\ FirstOf(received, "Time")[1].form = "number"
               a == checks /\ Overflows(now, at)
    <3>2. p /\ a
      BY <1>9, Zenon DEF VerifySignature
    <3> QED BY <3>2, Zenon
  <2>2. Has(x, "Time") /\ FirstOf(received, "Time") = FirstOf(x, "Time")
    <3>1. "Sig" # "Time"
      OBVIOUS
    <3> QED BY <1>1, <1>4, <2>1, <3>1, Zenon DEF AddsFor
  <2>3. at = timestamp
    <3>1. FirstOf(received, "Time") = <<Number(timestamp)>>
      BY <1>2, <2>2, Zenon
    <3> QED BY <3>1 DEF Number
  <2> HIDE DEF at
  <2>4. MaxTimestampDifference \in Nat
    BY WireAssumption
  <2>5. /\ Overflows(now, timestamp) <=> now - timestamp >= P
        /\ Distance(now, timestamp) <= MaxTimestampDifference <=> Near(now, timestamp, P)
    BY <2>4, NearOrNot
  <2> QED BY <2>1, <2>3, <2>5, Zenon
<1> QED BY <1>8, <1>9, Zenon DEF verdict, received, s

\* The times of a request, its parts, how it comes and how it is taken.
InRange(now, timestamp, P) ==
    /\ P \in Nat \ {0} /\ P = 2^(Width - 1) /\ 2^Width = 2 * P
    /\ now \in Int /\ 0 <= now /\ now < P /\ timestamp \in Int /\ -P <= timestamp /\ timestamp < P
Signable(msg, account, timestamp, N, W) ==
    /\ msg \in Seq(Headers(N, W)) /\ ~Has(msg, "Sig") /\ ~Has(msg, "Time")
    /\ SignNames \subseteq N /\ SignWords(msg, account, timestamp) \subseteq W
ArrivesFrom(received, intact, msg, account, timestamp, N, W) ==
    /\ intact \in BOOLEAN
    /\ Arrives(received, intact, Named(msg, account, timestamp), SigHeader(msg, account, timestamp),
               Unsigned(N, W, timestamp))
Taken(received, verdict, intact, msg, account, key, now, timestamp, checks, P, N, W) ==
    /\ received \in Seq(Headers(N, W))
    /\ Judged(verdict, intact, account, key, now, timestamp, checks, P)
    /\ intact => RemoveAll(received, "Sig") = RemoveAll(SignForAccount(msg, account, timestamp), "Sig")
    /\ intact => Has(received, "User") /\ FirstOf(received, "User") = <<account.user>>

LEMMA RequestTaken ==
  ASSUME NEW P, NEW now, NEW timestamp, InRange(now, timestamp, P), NEW N, NEW W, NEW msg, NEW account,
         Signable(msg, account, timestamp, N, W), NEW key, NEW checks, NEW received, NEW intact,
         ArrivesFrom(received, intact, msg, account, timestamp, N, W)
  PROVE  Taken(received, VerifySignature(received, key, now, checks), intact,
               msg, account, key, now, timestamp, checks, P, N, W)
<1> /\ P \in Nat \ {0} /\ P = 2^(Width - 1) /\ 2^Width = 2 * P
    /\ now \in Int /\ 0 <= now /\ now < P /\ timestamp \in Int /\ -P <= timestamp /\ timestamp < P
  BY DEF InRange
<1> /\ msg \in Seq(Headers(N, W)) /\ ~Has(msg, "Sig") /\ ~Has(msg, "Time")
    /\ SignNames \subseteq N /\ SignWords(msg, account, timestamp) \subseteq W
  BY Zenon DEF Signable
<1> /\ intact \in BOOLEAN
    /\ Arrives(received, intact, Named(msg, account, timestamp), SigHeader(msg, account, timestamp),
               Unsigned(N, W, timestamp))
  BY Zenon DEF ArrivesFrom
<1> DEFINE H == Headers(N, W)  s == SigHeader(msg, account, timestamp)  Q == Unsigned(N, W, timestamp)
           named == Named(msg, account, timestamp)  signed == SignForAccount(msg, account, timestamp)
           far == checks /\ now - timestamp >= P
<1>1. signed = Append(named, s) /\ named \in Seq(Q) /\ s \in H
  BY SignedParts
<1>2. s[1] = "Sig"
  BY DEF SigHeader, Header
<1>3. /\ signed \in Seq(H) /\ Has(signed, "User") /\ Has(signed, "Time") /\ Has(signed, "Sig")
      /\ FirstOf(signed, "User") = <<account.user>>
  BY SignedHeaders DEF SignNames, SignWords
<1>4. VerifySignature(signed, key, now, checks) =
        IF far THEN "panic" ELSE IF key = account.key /\ Near(now, timestamp, P) THEN "ok" ELSE "refused"
  BY SignedAccepted
<1>5. \A x \in Seq(Q) : x \in Seq(H) /\ ~Has(x, "Sig")
  BY UnsignedHas
<1>6. \A x \in Seq(Q) : Len(x) # Len(named) =>
        LET verdict == VerifySignature(Append(x, s), key, now, checks)
        IN verdict # "ok" /\ (verdict = "panic" => far)
  BY OthersRefused
<1> HIDE DEF H, s, Q, named, signed, far
<1> DEFINE verdict == VerifySignature(received, key, now, checks)
<1>7. CASE intact
  <2>1. received = signed \/ received = Append(signed, s)
    BY <1>1, <1>7, Zenon DEF Arrives, s, named, Q
  <2>2. received \in Seq(H) /\ verdict = VerifySignature(signed, key, now, checks)
        /\ RemoveAll(received, "Sig") = RemoveAll(signed, "Sig")
        /\ Has(received, "User") /\ FirstOf(received, "User") = <<account.user>>
    <3>1. SeesAlike(Append(signed, s), signed) /\ Append(signed, s) \in Seq(H)
      <4>1. \A name \in SignNames : Has(signed, name)
        BY <1>3 DEF SignNames
      <4>2. Append(signed, s) \in Seq(H)
        BY <1>1, <1>3
      <4>3. SeesAlike(Append(signed, s), signed)
        BY <1>1, <1>2, <1>3, <4>1, SaidTwice
      <4> QED BY <4>2, <4>3, Zenon
    <3>2. VerifySignature(Append(signed, s), key, now, checks) = VerifySignature(signed, key, now, checks)
      BY <3>1, SameVerdict
    <3>3. RemoveAll(Append(signed, s), "Sig") = RemoveAll(signed, "Sig")
      BY <3>1, Zenon DEF SeesAlike
    <3>4. Has(Append(signed, s), "User") /\ FirstOf(Append(signed, s), "User") = <<account.user>>
      BY <1>3, <3>1, Zenon DEF SeesAlike
    <3> QED BY <1>3, <2>1, <3>1, <3>2, <3>3, <3>4, Zenon
  <2> HIDE DEF verdict
  <2>3. verdict = "ok" <=> key = account.key /\ Near(now, timestamp, P) /\ ~far
    BY <1>4, <2>2
  <2>4. verdict = "panic" => far
    BY <1>4, <2>2
  <2> QED BY <1>7, <2>2, <2>3, <2>4, Zenon DEF Taken, Judged, far, verdict, signed, H
<1>8. CASE ~intact
  <2>1. received \in Seq(Q) \/ \E x \in Seq(Q) : Len(x) # Len(named) /\ received = Append(x, s)
    BY <1>8, Zenon DEF Arrives, s, named, Q
  <2>2. received \in Seq(H) /\ verdict # "ok" /\ (verdict = "panic" => far)
    <3>1. CASE received \in Seq(Q)
      <4>1. received \in Seq(H) /\ ~Has(received, "Sig")
        BY <1>5, <3>1
      <4>2. verdict = "refused"
        BY <4>1, Unsigned401
      <4> HIDE DEF verdict
      <4> QED BY <4>1, <4>2
    <3>2. ASSUME NEW x \in Seq(Q), Len(x) # Len(named), received = Append(x, s)
          PROVE  received \in Seq(H) /\ verdict # "ok" /\ (verdict = "panic" => far)
      <4>1. x \in Seq(H)
        BY <1>5
      <4>2. Append(x, s) \in Seq(H)
        BY <1>1, <4>1
      <4> QED BY <1>6, <3>2, <4>2, Zenon
    <3> QED BY <2>1, <3>1, <3>2
  <2> QED BY <1>8, <2>2, Zenon DEF Taken, Judged, far, verdict, H
<1> QED BY <1>7, <1>8

LEMMA RequestArrives ==
  ASSUME NEW N, NEW W, NEW in, in.msg \in Seq(Headers(N, W)), ~Has(in.msg, "Sig"), ~Has(in.msg, "Time"),
         SignNames \subseteq N, SignWords(in.msg, in.account, in.signed) \subseteq W, Word("noise") \in W,
         in.damage \in Damages, in.place \in 1..Len(Sent(in))
  PROVE  Arrives(Parse(CleanLegacyPacket(Damaged(in, AsString(Sent(in))))), Intact(in),
                 Named(in.msg, in.account, in.signed), SigHeader(in.msg, in.account, in.signed),
                 Unsigned(N, W, in.signed))
<1> DEFINE H == Headers(N, W)  s == SigHeader(in.msg, in.account, in.signed)  Q == Unsigned(N, W, in.signed)
           named == Named(in.msg, in.account, in.signed)  signed == Sent(in)
           msg == Parse(CleanLegacyPacket(Damaged(in, AsString(signed))))
<1>1. signed = Append(named, s) /\ named \in Seq(Q) /\ s \in H
  <2>1. /\ SignForAccount(in.msg, in.account, in.signed)
             = Append(Named(in.msg, in.account, in.signed), SigHeader(in.msg, in.account, in.signed))
        /\ Named(in.msg, in.account, in.signed) \in Seq(Unsigned(N, W, in.signed))
        /\ SigHeader(in.msg, in.account, in.signed) \in Headers(N, W)
    BY SignedParts
  <2> QED BY <2>1, Zenon DEF Sent
<1>2. Q \subseteq H
  BY DEF Unsigned
<1>3. \A a \in Seq(Headers(N, W)), h \in Headers(N, W), b \in Seq(Headers(N, W)) : in.place = Len(a) + 1 =>
        ReadAs(Parse(CleanLegacyPacket(Damaged(in, AsString(a \o (<<h>> \o b))))), in.damage, a, h, b)
  BY DamagedRead
<1>4. \A a \in Seq(H), h \in H, b \in Seq(H) : in.place = Len(a) + 1 /\ signed = a \o (<<h>> \o b) =>
        ReadAs(msg, in.damage, a, h, b)
  BY <1>3, Zenon
<1> HIDE DEF H, s, Q, named, msg
<1>5. named \in Seq(H)
  BY <1>1, <1>2
<1>6. CASE in.place = Len(named) + 1
  <2>1. /\ << >> \in Seq(H) /\ <<s>> \o << >> = <<s>> /\ Append(named, s) = named \o <<s>>
    BY <1>1, <1>5, AppendIsConcat
  <2>2. ReadAs(msg, in.damage, named, s, << >>)
    BY <1>1, <1>4, <1>5, <1>6, <2>1, Zenon
  <2>3. Arrives(msg, Intact(in), named, s, Q)
    <3>1. Sent(in) = Append(named, s)
      BY <1>1
    <3> QED BY <1>1, <1>6, <2>2, <3>1, SignatureHit
  <2> QED BY <2>3, Zenon DEF msg, named, s, Q
<1>7. CASE in.place \in 1..Len(named)
  <2> DEFINE k == in.place  a == SubSeq(named, 1, k - 1)  h == named[k]  b == SubSeq(named, k + 1, Len(named))
             end == Append(b, s)  one == <<h>>  first == Append(a, h)
  <2>1. /\ named = Append(SubSeq(named, 1, k - 1), named[k]) \o SubSeq(named, k + 1, Len(named))
        /\ SubSeq(named, 1, k - 1) \in Seq(Q) /\ Len(SubSeq(named, 1, k - 1)) = k - 1
        /\ SubSeq(named, k + 1, Len(named)) \in Seq(Q) /\ Len(SubSeq(named, k + 1, Len(named))) = Len(named) - k
        /\ named[k] \in Q
    BY <1>1, <1>7, SplitAt
  <2>2. named = first \o b /\ a \in Seq(Q) /\ Len(a) = k - 1 /\ b \in Seq(Q) /\ h \in Q
    BY <2>1
  <2> HIDE DEF k, a, h, b, end, one, first
  <2>3. a \in Seq(H) /\ b \in Seq(H) /\ h \in H /\ one \in Seq(H)
    BY <1>2, <2>2 DEF one
  <2>4. first \in Seq(H) /\ first = a \o one
    BY <2>3, AppendIsConcat DEF first, one
  <2>5. first \o end = Append(first \o b, s) /\ end \in Seq(H) /\ first \o b \in Seq(H)
    BY <1>1, <2>3, <2>4, ConcatAppend DEF end
  <2>6. (a \o one) \o end = a \o (one \o end)
    <3>1. a \in Seq(H) /\ one \in Seq(H) /\ end \in Seq(H)
      BY <2>3, <2>5
    <3> QED BY <3>1, ConcatAssociative
  <2>7. signed = a \o (<<h>> \o end)
    BY <1>1, <2>2, <2>4, <2>5, <2>6, Zenon DEF one
  <2>8. in.place = Len(a) + 1 /\ Len(a) = in.place - 1
    BY <1>7, <2>2 DEF k
  <2>9. ReadAs(msg, in.damage, a, h, Append(b, s))
    BY <1>4, <2>3, <2>5, <2>7, <2>8, Zenon DEF end
  <2>10. Arrives(msg, Intact(in), named, s, Q)
    <3>1. Sent(in) = Append(named, s) /\ named = Append(a, h) \o b
      BY <1>1, <2>2, Zenon DEF first
    <3> QED BY <1>1, <1>2, <1>7, <2>2, <2>8, <2>9, <3>1, HeaderHit
  <2> QED BY <2>10, Zenon DEF msg, named, s, Q
<1>8. in.place \in 1..Len(named) \/ in.place = Len(named) + 1
  <2>1. Len(Append(named, s)) = Len(named) + 1 /\ Len(named) \in Nat
    BY <1>1
  <2> QED BY <1>1, <2>1
<1> QED BY <1>6, <1>7, <1>8

\* A message is one of headers of one line each.
LEMMA MessageHeaders ==
  ASSUME NEW msg, IsMessage(msg)
  PROVE  msg \in Seq(Headers({msg[i][1] : i \in DOMAIN msg}, {msg[i][2][1] : i \in DOMAIN msg}))
<1> DEFINE N == {msg[i][1] : i \in DOMAIN msg}  W == {msg[i][2][1] : i \in DOMAIN msg}  H == Headers(N, W)
           E == {msg[i] : i \in DOMAIN msg}
<1>1. msg \in Seq(E) /\ \A i \in DOMAIN msg : msg[i] = Header(msg[i][1], msg[i][2][1])
  BY Zenon DEF IsMessage, IsSequence
<1>2. E \subseteq H
  <2> SUFFICES ASSUME NEW i \in DOMAIN msg PROVE msg[i] \in H
    OBVIOUS
  <2> DEFINE n == msg[i][1]  w == msg[i][2][1]
  <2>1. msg[i] = Header(n, w) /\ n \in N /\ w \in W
    BY <1>1
  <2> HIDE DEF n, w, N, W
  <2>2. <<n, w>> \in N \X W /\ <<n, w>>[1] = n /\ <<n, w>>[2] = w
    BY <2>1
  <2> QED BY <2>1, <2>2, Zenon DEF Headers
<1> HIDE DEF E, H
<1>3. msg \in Seq(H)
  BY <1>1, <1>2
<1> QED BY <1>3, Zenon DEF H

\* The client reads this verdict in an answer to msg.
ReadsVerdict(answer, msg, verdict) ==
    /\ IsResponse(answer) <=> Has(msg, "Thread")
    /\ Has(msg, "Thread") => FirstOf(answer, "Thread") = FirstOf(msg, "Thread")
    /\ IsOk(answer) <=> verdict \in {"ok", "anonymous"}

LEMMA AnswerRead ==
  ASSUME NEW N, NEW W, NEW msg \in Seq(Headers(N, W)),
         NEW verdict \in {"ok", "anonymous", "refused", "panic"}
  PROVE  ReadsVerdict(Reply(msg, verdict), msg, verdict)
<1> DEFINE code == IF verdict = "panic" THEN 500 ELSE 401  sent == ResponseTo(msg, Word("2.1"))
           error == ErrorResponse(sent, code, Word("why"))
           kept == IF verdict \in {"refused", "panic"} THEN error ELSE sent
<1>1. code # 200
  OBVIOUS
<1> HIDE DEF code
<1>2. /\ Answers(sent, msg) /\ IsOk(sent)
      /\ Answers(error, msg) /\ (IsOk(error) <=> code = 200)
  BY AnswerSurvives
<1> HIDE DEF sent, error
<1>3. Answers(kept, msg) /\ (IsOk(kept) <=> verdict \in {"ok", "anonymous"})
  BY <1>1, <1>2
<1> HIDE DEF kept
<1>4. Parse(AsString(kept)) = kept
  BY <1>3, Zenon DEF Answers
<1>5. /\ IsResponse(kept) <=> Has(msg, "Thread")
      /\ Has(msg, "Thread") => FirstOf(kept, "Thread") = FirstOf(msg, "Thread")
      /\ IsOk(kept) <=> verdict \in {"ok", "anonymous"}
  BY <1>3, Zenon DEF Answers
<1> DEFINE answer == Parse(AsString(kept))
<1>6. ReadsVerdict(answer, msg, verdict)
  BY <1>4, <1>5, Zenon DEF ReadsVerdict
<1> QED BY <1>6, Zenon DEF Reply, kept, sent, error, code

LEMMA VerdictType ==
  ASSUME NEW msg, NEW key, NEW now, NEW checks
  PROVE  VerifySignature(msg, key, now, checks) \in {"ok", "refused", "panic"}
<1>1. \A p, a, b : (IF ~p THEN "refused" ELSE IF a THEN "panic" ELSE IF b THEN "ok" ELSE "refused")
                     \in {"ok", "refused", "panic"}
  OBVIOUS
<1> QED BY <1>1, Zenon DEF VerifySignature

\* The difference of the two times, as the property reads it.
LEMMA NearReads ==
  ASSUME NEW P \in Nat \ {0}, NEW now \in Int, NEW timestamp \in Int
  PROVE  Near(now, timestamp, P) <=>
           LET late == now - timestamp
           IN \/ late <= MaxTimestampDifference /\ -late <= MaxTimestampDifference
              \/ late = P
              \/ 2 * P - late <= MaxTimestampDifference
<1>1. MaxTimestampDifference \in Nat
  BY WireAssumption
<1> QED BY <1>1 DEF Near

\* Whatever request a client signs, at whatever time and for whatever key, and
\* whatever of these happens to its packet, the server takes it for good exactly if
\* it came with its headers, near in time and for the key of its account, and the
\* client reads the verdict in the answer (sign_for_account and verify_signature
\* of account.rs, clean_legacy_packet and really_handle of server.rs, response of
\* message.rs).  P is half the range of a timestamp.
THEOREM WireSafe ==
  ASSUME NEW P \in Nat \ {0}, P = 2^(Width - 1), 2^Width = 2 * P
  PROVE  ConversionsSpec => []RequestSurvivesWire
<1>1. Converted => RequestSurvivesWire
  <2> SUFFICES ASSUME Converted, Done("wire") PROVE RequestSurvivesWire
    BY Zenon DEF RequestSurvivesWire
  <2>1. input \in WireInputs /\ output = Received(input)
    BY DEF Converted, Done
  <2> DEFINE in == input  msg == Parse(CleanLegacyPacket(Damaged(in, AsString(Sent(in)))))
             judged == VerifySignature(msg, in.key, in.now, in.checks)  verdict == Verdict(msg, in)
             N == {in.msg[i][1] : i \in DOMAIN in.msg} \cup SignNames
             W == {in.msg[i][2][1] : i \in DOMAIN in.msg} \cup SignWords(in.msg, in.account, in.signed)
                    \cup {Word("noise")}
             answer == Reply(msg, verdict)
  <2>2. output.msg = msg /\ output.verdict = verdict /\ output.answer = answer
    <3>1. output = [msg |-> msg, verdict |-> verdict, answer |-> answer]
      BY <2>1, Zenon DEF Received
    <3> HIDE DEF msg, verdict, answer
    <3> QED BY <3>1
  <2>3. /\ IsMessage(in.msg) /\ ~Has(in.msg, "Sig") /\ ~Has(in.msg, "Time")
        /\ in.damage \in Damages /\ in.place \in 1..Len(Sent(in))
        /\ in.now \in 0..(2^(Width - 1) - 1) /\ in.signed \in (-(2^(Width - 1)))..(2^(Width - 1) - 1)
    BY <2>1, ConversionsAssumption, Zenon
  <2>4. /\ in.now \in Int /\ 0 <= in.now /\ in.now < P
        /\ in.signed \in Int /\ -P <= in.signed /\ in.signed < P
    <3>1. in.now \in 0..(P - 1) /\ in.signed \in (-P)..(P - 1)
      BY <2>3, Zenon
    <3> HIDE DEF in
    <3> QED BY <3>1
  <2>5. /\ in.msg \in Seq(Headers(N, W)) /\ SignNames \subseteq N
        /\ SignWords(in.msg, in.account, in.signed) \subseteq W /\ Word("noise") \in W
    <3> DEFINE N0 == {in.msg[i][1] : i \in DOMAIN in.msg}  W0 == {in.msg[i][2][1] : i \in DOMAIN in.msg}
    <3>1. in.msg \in Seq(Headers(N0, W0))
      BY <2>3, MessageHeaders
    <3>2. N0 \subseteq N /\ W0 \subseteq W /\ SignNames \subseteq N /\ Word("noise") \in W
          /\ SignWords(in.msg, in.account, in.signed) \subseteq W
      OBVIOUS
    <3> HIDE DEF N0, W0, N, W, in
    <3>3. in.msg \in Seq(Headers(N, W))
      BY <3>1, <3>2, MoreHeaders
    <3> QED BY <3>2, <3>3, Zenon
  <2> HIDE DEF N, W
  <2>6. Arrives(msg, Intact(in), Named(in.msg, in.account, in.signed), SigHeader(in.msg, in.account, in.signed),
                Unsigned(N, W, in.signed))
    <3> HIDE DEF in
    <3> QED BY <2>3, <2>5, RequestArrives
  <2>7. /\ msg \in Seq(Headers(N, W))
        /\ Judged(judged, Intact(in), in.account, in.key, in.now, in.signed, in.checks, P)
        /\ Intact(in) => RemoveAll(msg, "Sig") = RemoveAll(SignForAccount(in.msg, in.account, in.signed), "Sig")
        /\ Intact(in) => Has(msg, "User") /\ FirstOf(msg, "User") = <<in.account.user>>
    <3>1. InRange(in.now, in.signed, P)
      BY <2>4, Zenon DEF InRange
    <3>2. Signable(in.msg, in.account, in.signed, N, W)
      BY <2>3, <2>5, Zenon DEF Signable
    <3>3. ArrivesFrom(msg, Intact(in), in.msg, in.account, in.signed, N, W)
      <4>1. Intact(in) \in BOOLEAN
        BY DEF Intact
      <4> HIDE DEF in, msg
      <4> QED BY <2>6, <4>1, Zenon DEF ArrivesFrom
    <3> HIDE DEF in, msg
    <3>4. Taken(msg, VerifySignature(msg, in.key, in.now, in.checks), Intact(in),
                in.msg, in.account, in.key, in.now, in.signed, in.checks, P, N, W)
      BY <3>1, <3>2, <3>3, RequestTaken
    <3> QED BY <3>4, Zenon DEF Taken
  <2>8. ReadsVerdict(answer, msg, verdict)
    <3>1. judged \in {"ok", "refused", "panic"}
      BY VerdictType
    <3>2. verdict \in {"ok", "anonymous", "refused", "panic"}
      <4> HIDE DEF judged
      <4>1. verdict = IF IsAnonymous(msg) THEN "anonymous" ELSE judged
        BY Zenon DEF Verdict, judged
      <4> HIDE DEF verdict
      <4> QED BY <3>1, <4>1
    <3> HIDE DEF msg, verdict
    <3>3. msg \in Seq(Headers(N, W))
      BY <2>7
    <3> QED BY <3>2, <3>3, AnswerRead
  <2> DEFINE named == in.account.user # Word("anonymous")
  <2>13. verdict = IF IsAnonymous(msg) THEN "anonymous" ELSE judged
    BY Zenon DEF Verdict
  <2>14. Intact(in) => (IsAnonymous(msg) <=> ~named)
    <3> HIDE DEF msg, in
    <3>1. <<in.account.user>> = <<Word("anonymous")>> <=> in.account.user = Word("anonymous")
      OBVIOUS
    <3> QED BY <2>7, <3>1, Zenon DEF IsAnonymous
  <2> HIDE DEF msg, verdict, answer, judged, named
  <2> DEFINE late == in.now - in.signed
             near == \/ late <= MaxTimestampDifference /\ -late <= MaxTimestampDifference
                     \/ late = P
                     \/ 2 * P - late <= MaxTimestampDifference
  <2>9. Near(in.now, in.signed, P) <=> near
    <3> HIDE DEF in
    <3> QED BY <2>4, NearReads
  <2> HIDE DEF near
  <2>10. judged = "ok" <=> Intact(in) /\ in.key = in.account.key /\ near /\ ~(in.checks /\ late >= P)
    BY <2>7, <2>9, Zenon DEF Judged
  <2>11. judged = "panic" => in.checks /\ late >= P
    BY <2>7, Zenon DEF Judged
  <2>12. Intact(in) => RemoveAll(msg, "Sig") = RemoveAll(Sent(in), "Sig")
    BY <2>7, Zenon DEF Sent
  <2> HIDE DEF late, in
  <2>15. verdict = "ok" <=> Intact(in) /\ named /\ in.key = in.account.key /\ near /\ ~(in.checks /\ late >= P)
    BY <2>10, <2>13, <2>14
  <2>16. verdict = "panic" => in.checks /\ late >= P
    BY <2>11, <2>13
  <2>17. Intact(in) => (verdict = "anonymous" <=> ~named)
    <3>1. judged # "anonymous"
      BY VerdictType DEF judged
    <3> QED BY <2>13, <2>14, <3>1
  <2> QED BY <2>2, <2>8, <2>12, <2>15, <2>16, <2>17, Zenon DEF RequestSurvivesWire, ReadsVerdict, near, late, in, named
<1> QED BY <1>1, ConvertedAlways, PTL

(***************************************************************************)
(* The statement of MySQL                                                  *)
(***************************************************************************)
Pieces == {"insert digest", "insert", "update", "?"} \cup {Columns[i] : i \in 1..6}

\* s consists of threes: word, the name of a column, and a mark.
Threes(s, n, word) ==
    /\ s \in Seq(Pieces) /\ Len(s) = 3 * n
    /\ \A i \in 1..n : /\ s[3 * i - 2] = word /\ s[3 * i - 1] = Columns[i] /\ s[3 * i] = "?"

LEMMA ThreesLonger ==
  ASSUME NEW n \in Nat, NEW word \in Pieces, NEW s, Threes(s, n, word), NEW e \in Seq(Pieces),
         Len(e) = 3, e[1] = word, e[2] = Columns[n + 1], e[3] = "?"
  PROVE  Threes(s \o e, n + 1, word)
<1> DEFINE t == s \o e
<1>1. s \in Seq(Pieces) /\ Len(s) = 3 * n
  BY DEF Threes
<1>2. /\ t \in Seq(Pieces) /\ Len(t) = Len(s) + Len(e)
      /\ \A i \in 1..Len(s) + Len(e) : t[i] = IF i <= Len(s) THEN s[i] ELSE e[i - Len(s)]
  BY <1>1, ConcatProperties, Zenon
<1> HIDE DEF t
<1>3. Len(t) = 3 * (n + 1)
  BY <1>1, <1>2
<1>4. \A i \in 1..n : t[3 * i - 2] = word /\ t[3 * i - 1] = Columns[i] /\ t[3 * i] = "?"
  <2> SUFFICES ASSUME NEW i \in 1..n
               PROVE  t[3 * i - 2] = word /\ t[3 * i - 1] = Columns[i] /\ t[3 * i] = "?"
    OBVIOUS
  <2>1. /\ 3 * i - 2 \in 1..Len(s) + Len(e) /\ 3 * i - 1 \in 1..Len(s) + Len(e) /\ 3 * i \in 1..Len(s) + Len(e)
        /\ 3 * i - 2 <= Len(s) /\ 3 * i - 1 <= Len(s) /\ 3 * i <= Len(s)
    BY <1>1
  <2>2. t[3 * i - 2] = s[3 * i - 2] /\ t[3 * i - 1] = s[3 * i - 1] /\ t[3 * i] = s[3 * i]
    BY <1>2, <2>1, Zenon
  <2> QED BY <2>2, Zenon DEF Threes
<1>5. t[3 * (n + 1) - 2] = word /\ t[3 * (n + 1) - 1] = Columns[n + 1] /\ t[3 * (n + 1)] = "?"
  <2> DEFINE a == 3 * (n + 1) - 2  b == 3 * (n + 1) - 1  c == 3 * (n + 1)
  <2>1. /\ a \in 1..Len(s) + Len(e) /\ ~(a <= Len(s)) /\ a - Len(s) = 1
        /\ b \in 1..Len(s) + Len(e) /\ ~(b <= Len(s)) /\ b - Len(s) = 2
        /\ c \in 1..Len(s) + Len(e) /\ ~(c <= Len(s)) /\ c - Len(s) = 3
    BY <1>1
  <2> HIDE DEF a, b, c
  <2>2. t[a] = e[1] /\ t[b] = e[2] /\ t[c] = e[3]
    BY <1>2, <2>1
  <2> QED BY <2>2, Zenon DEF a, b, c
<1>6. \A i \in 1..(n + 1) : t[3 * i - 2] = word /\ t[3 * i - 1] = Columns[i] /\ t[3 * i] = "?"
  <2>1. \A i \in 1..(n + 1) : i \in 1..n \/ i = n + 1
    OBVIOUS
  <2> QED BY <1>4, <1>5, <2>1, Zenon
<1> QED BY <1>2, <1>3, <1>6, Zenon DEF t, Threes

Clauses(word) == [i \in 1..6 |-> <<word, Columns[i], "?">>]

LEMMA ClausesThrees ==
  ASSUME NEW word \in Pieces
  PROVE  Threes(FlattenSeq(Clauses(word)), 6, word)
<1> DEFINE part(n) == [i \in 1..n |-> <<word, Columns[i], "?">>]
           T == {n \in Nat : n <= 6 => part(n) \in Seq(Seq(Pieces)) /\ Threes(FlattenSeq(part(n)), n, word)}
<1>1. 0 \in T
  <2>1. part(0) = << >>
    OBVIOUS
  <2>2. << >> \in Seq(Seq(Pieces)) /\ Threes(<< >>, 0, word)
    BY DEF Threes
  <2> QED BY <2>1, <2>2, FlattenEmpty
<1>2. ASSUME NEW n \in Nat, n \in T PROVE n + 1 \in T
  <2> SUFFICES ASSUME n + 1 <= 6
               PROVE  part(n + 1) \in Seq(Seq(Pieces)) /\ Threes(FlattenSeq(part(n + 1)), n + 1, word)
    OBVIOUS
  <2> DEFINE ss == part(n)  e == <<word, Columns[n + 1], "?">>
  <2>1. ss \in Seq(Seq(Pieces)) /\ Threes(FlattenSeq(ss), n, word)
    BY <1>2
  <2>2. Columns[n + 1] \in Pieces
    <3>1. n + 1 \in 1..6
      OBVIOUS
    <3> QED BY <3>1, Zenon DEF Pieces
  <2>3. /\ e \in Seq(Pieces) /\ Len(e) = 3
        /\ e[1] = word /\ e[2] = Columns[n + 1] /\ e[3] = "?"
    <3>1. "?" \in Pieces
      BY DEF Pieces
    <3>2. Len(e) = 3 /\ e[1] = word /\ e[2] = Columns[n + 1] /\ e[3] = "?"
      OBVIOUS
    <3>3. \A x, y, z : <<x, y, z>> \in Seq({x, y, z})
      OBVIOUS
    <3>4. e \in Seq({word, Columns[n + 1], "?"})
      BY <3>3, Zenon
    <3> HIDE DEF e
    <3> QED BY <2>2, <3>1, <3>2, <3>4
  <2>4. part(n + 1) = Append(ss, e)
    <3>1. Len(ss) = n /\ DOMAIN ss = 1..n /\ \A i \in 1..n : ss[i] = <<word, Columns[i], "?">>
      OBVIOUS
    <3>2. /\ Append(ss, e) \in Seq(Seq(Pieces)) /\ Len(Append(ss, e)) = n + 1
          /\ \A i \in 1..n : Append(ss, e)[i] = ss[i]
          /\ Append(ss, e)[n + 1] = e
      <4> HIDE DEF ss, e
      <4> QED BY <2>1, <2>3, <3>1, AppendProperties
    <3>3. Append(ss, e) = [i \in 1..(n + 1) |-> Append(ss, e)[i]]
      <4> DEFINE u == Append(ss, e)
      <4>1. u \in Seq(Seq(Pieces)) /\ Len(u) = n + 1
        BY <3>2
      <4> HIDE DEF u
      <4>2. u = [i \in 1..Len(u) |-> u[i]]
        BY <4>1
      <4> QED BY <4>1, <4>2, Zenon DEF u
    <3>4. \A i \in 1..(n + 1) : Append(ss, e)[i] = <<word, Columns[i], "?">>
      <4>1. \A i \in 1..(n + 1) : i \in 1..n \/ i = n + 1
        OBVIOUS
      <4> QED BY <3>1, <3>2, <4>1, Zenon
    <3> QED BY <3>3, <3>4, Zenon
  <2> HIDE DEF ss, e
  <2>5. FlattenSeq(Append(ss, e)) = FlattenSeq(ss) \o e
    BY <2>1, <2>3, FlattenAppend, Zenon
  <2>6. Threes(FlattenSeq(ss) \o e, n + 1, word)
    BY <2>1, <2>3, ThreesLonger, Zenon
  <2>7. Append(ss, e) \in Seq(Seq(Pieces))
    BY <2>1, <2>3, AppendProperties
  <2> QED BY <2>4, <2>5, <2>6, <2>7, Zenon
<1>3. 6 \in T
  <2> HIDE DEF T
  <2> QED BY <1>1, <1>2, Induction
<1> QED BY <1>3 DEF Clauses

\* The statement is the name of the digest and twelve threes, and every column has
\* one among the first six and one among the last.
ColumnOf(j) == IF j <= 6 THEN Columns[j] ELSE Columns[j - 6]
ClauseOf(j) == IF j <= 6 THEN "insert" ELSE "update"

LEMMA StatementShape ==
  /\ SetRecord \in Seq(Pieces) /\ Len(SetRecord) = 38
  /\ SetRecord[1] = "insert digest" /\ SetRecord[2] = "?"
  /\ \A j \in 1..12 : /\ SetRecord[3 * j] = ClauseOf(j) /\ SetRecord[3 * j + 1] = ColumnOf(j)
                      /\ SetRecord[3 * j + 2] = "?"
<1> DEFINE h == <<"insert digest", "?">>
           a == FlattenSeq(Clauses("insert"))
           b == FlattenSeq(Clauses("update"))
           c == h \o a
           d == c \o b
<1>1. SetRecord = d
  <2>1. DOMAIN Columns = 1..6
    BY DEF Columns
  <2>2. /\ [i \in DOMAIN Columns |-> <<"insert", Columns[i], "?">>] = Clauses("insert")
        /\ [i \in DOMAIN Columns |-> <<"update", Columns[i], "?">>] = Clauses("update")
    BY <2>1, Zenon DEF Clauses
  <2> QED BY <2>2, Zenon DEF SetRecord
<1>2. h \in Seq(Pieces) /\ Len(h) = 2 /\ h[1] = "insert digest" /\ h[2] = "?"
  <2>1. "insert digest" \in Pieces /\ "?" \in Pieces
    BY DEF Pieces
  <2>2. Len(h) = 2 /\ h[1] = "insert digest" /\ h[2] = "?"
    OBVIOUS
  <2>3. h \in Seq(Pieces)
    <3>1. \A S : \A x, y \in S : <<x, y>> \in Seq(S)
      OBVIOUS
    <3> QED BY <2>1, <3>1, Zenon
  <2> QED BY <2>2, <2>3
<1>3. Threes(a, 6, "insert") /\ Threes(b, 6, "update")
  <2>1. "insert" \in Pieces /\ "update" \in Pieces
    BY DEF Pieces
  <2> QED BY <2>1, ClausesThrees, Zenon
<1> HIDE DEF h, a, b
<1>4. a \in Seq(Pieces) /\ Len(a) = 18 /\ b \in Seq(Pieces) /\ Len(b) = 18
  BY <1>3 DEF Threes
<1>5. h \in Seq(Pieces) /\ Len(h) = 2
  BY <1>2, Zenon
<1>9. /\ c \in Seq(Pieces) /\ Len(c) = 20
      /\ \A i \in 1..2 : c[i] = h[i]
      /\ \A i \in 1..18 : c[i + 2] = a[i]
  <2>1. /\ c \in Seq(Pieces) /\ Len(c) = Len(h) + Len(a)
        /\ \A i \in 1..Len(h) : c[i] = h[i]
        /\ \A i \in 1..Len(a) : c[i + Len(h)] = a[i]
    <3>1. Joining(h \o a, h, a, Pieces)
      <4>1. h \in Seq(Pieces) /\ a \in Seq(Pieces)
        BY <1>4, <1>5, Zenon
      <4> QED BY <4>1, PlacesJoined
    <3>2. Joining(c, h, a, Pieces)
      BY <3>1, Zenon
    <3> HIDE DEF c
    <3> QED BY <3>2, Zenon DEF Joining
  <2> HIDE DEF c
  <2> QED BY <1>4, <1>5, <2>1
<1> HIDE DEF c
<1>6. /\ d \in Seq(Pieces) /\ Len(d) = 38
      /\ \A i \in 1..20 : d[i] = c[i]
      /\ \A i \in 1..18 : d[i + 20] = b[i]
  <2>0. c \in Seq(Pieces) /\ Len(c) = 20
    BY <1>9, Zenon
  <2>1. /\ d \in Seq(Pieces) /\ Len(d) = Len(c) + Len(b)
        /\ \A i \in 1..Len(c) : d[i] = c[i]
        /\ \A i \in 1..Len(b) : d[i + Len(c)] = b[i]
    <3>1. Joining(c \o b, c, b, Pieces)
      <4>1. c \in Seq(Pieces) /\ b \in Seq(Pieces)
        BY <1>4, <2>0, Zenon
      <4> QED BY <4>1, PlacesJoined
    <3>2. Joining(d, c, b, Pieces)
      BY <3>1, Zenon
    <3> HIDE DEF d
    <3> QED BY <3>2, Zenon DEF Joining
  <2> HIDE DEF d
  <2> QED BY <1>4, <2>0, <2>1
<1> HIDE DEF d
<1>7. d[1] = "insert digest" /\ d[2] = "?"
  <2>1. 1 \in 1..2 /\ 1 \in 1..20 /\ 2 \in 1..2 /\ 2 \in 1..20
    OBVIOUS
  <2> QED BY <1>2, <1>9, <1>6, <2>1, Zenon
<1>8. ASSUME NEW j \in 1..12
      PROVE  d[3 * j] = ClauseOf(j) /\ d[3 * j + 1] = ColumnOf(j) /\ d[3 * j + 2] = "?"
  <2>1. CASE j <= 6
    <3>1. j \in 1..6
      BY <2>1
    <3>2. a[3 * j - 2] = "insert" /\ a[3 * j - 1] = Columns[j] /\ a[3 * j] = "?"
      BY <1>3, <3>1, Zenon DEF Threes
    <3>3. \A i \in 1..18 : d[i + 2] = a[i]
      <4>1. \A i \in 1..18 : i + 2 \in 1..20
        OBVIOUS
      <4> QED BY <1>9, <1>6, <4>1, ZenonT(60)
    <3>4. /\ 3 * j - 2 \in 1..18 /\ 3 * j - 1 \in 1..18 /\ 3 * j \in 1..18
          /\ (3 * j - 2) + 2 = 3 * j /\ (3 * j - 1) + 2 = 3 * j + 1
      BY <3>1
    <3>5. d[3 * j] = a[3 * j - 2] /\ d[3 * j + 1] = a[3 * j - 1] /\ d[3 * j + 2] = a[3 * j]
      <4>1. /\ d[(3 * j - 2) + 2] = a[3 * j - 2] /\ d[(3 * j - 1) + 2] = a[3 * j - 1]
            /\ d[3 * j + 2] = a[3 * j]
        BY <3>3, <3>4, Zenon
      <4> QED BY <3>4, <4>1, Zenon
    <3> QED BY <2>1, <3>2, <3>5, Zenon DEF ClauseOf, ColumnOf
  <2>2. CASE ~(j <= 6)
    <3> DEFINE k == j - 6
    <3>1. k \in 1..6 /\ j = k + 6
      BY <2>2
    <3> HIDE DEF k
    <3>2. b[3 * k - 2] = "update" /\ b[3 * k - 1] = Columns[k] /\ b[3 * k] = "?"
      BY <1>3, <3>1, Zenon DEF Threes
    <3>4. /\ 3 * k - 2 \in 1..18 /\ 3 * k - 1 \in 1..18 /\ 3 * k \in 1..18
          /\ (3 * k - 2) + 20 = 3 * j /\ (3 * k - 1) + 20 = 3 * j + 1 /\ 3 * k + 20 = 3 * j + 2
      BY <3>1
    <3>5. d[3 * j] = b[3 * k - 2] /\ d[3 * j + 1] = b[3 * k - 1] /\ d[3 * j + 2] = b[3 * k]
      <4>1. /\ d[(3 * k - 2) + 20] = b[3 * k - 2] /\ d[(3 * k - 1) + 20] = b[3 * k - 1]
            /\ d[3 * k + 20] = b[3 * k]
        BY <1>6, <3>4, Zenon
      <4> QED BY <3>4, <4>1, Zenon
    <3> QED BY <2>2, <3>2, <3>5, Zenon DEF ClauseOf, ColumnOf, k
  <2> QED BY <2>1, <2>2
<1> QED BY <1>1, <1>6, <1>7, <1>8, Zenon

Marks == {i \in 1..38 : SetRecord[i] = "?"}
MarkPlaces == [j \in 1..13 |-> 3 * j - 1]

LEMMA WordsOfStatement ==
  /\ \A j : ClauseOf(j) \in {"insert", "update"}
  /\ \A j \in 1..12 : ColumnOf(j) \in {Columns[i] : i \in 1..6}
  /\ \A c \in {Columns[i] : i \in 1..6} : c \notin {"?", "insert", "update", "insert digest"}
<1>1. \A j : ClauseOf(j) \in {"insert", "update"}
  BY DEF ClauseOf
<1>2. \A j \in 1..12 : ColumnOf(j) \in {Columns[i] : i \in 1..6}
  <2> SUFFICES ASSUME NEW j \in 1..12 PROVE \E i \in 1..6 : ColumnOf(j) = Columns[i]
    BY Zenon
  <2>1. CASE j <= 6
    <3>1. j \in 1..6 /\ ColumnOf(j) = Columns[j]
      BY <2>1 DEF ColumnOf
    <3> QED BY <3>1, Zenon
  <2>2. CASE ~(j <= 6)
    <3>1. j - 6 \in 1..6 /\ ColumnOf(j) = Columns[j - 6]
      BY <2>2 DEF ColumnOf
    <3> QED BY <3>1, Zenon
  <2> QED BY <2>1, <2>2
<1>3. \A i \in 1..6 : Columns[i] \notin {"?", "insert", "update", "insert digest"}
  <2>1. /\ Columns[1] = "r_count" /\ Columns[2] = "wl_count" /\ Columns[3] = "r_entered"
        /\ Columns[4] = "r_updated" /\ Columns[5] = "wl_entered" /\ Columns[6] = "wl_updated"
    BY DEF Columns
  <2>2. \A i \in 1..6 : i = 1 \/ i = 2 \/ i = 3 \/ i = 4 \/ i = 5 \/ i = 6
    OBVIOUS
  <2> QED BY <2>1, <2>2
<1> QED BY <1>1, <1>2, <1>3, Zenon

LEMMA ColumnsDiffer ==
  ASSUME NEW i \in 1..6, NEW j \in 1..6, Columns[i] = Columns[j]
  PROVE  i = j
<1>1. /\ Columns[1] = "r_count" /\ Columns[2] = "wl_count" /\ Columns[3] = "r_entered"
      /\ Columns[4] = "r_updated" /\ Columns[5] = "wl_entered" /\ Columns[6] = "wl_updated"
  BY DEF Columns
<1>2. \A k \in 1..6 : k = 1 \/ k = 2 \/ k = 3 \/ k = 4 \/ k = 5 \/ k = 6
  OBVIOUS
<1> QED BY <1>1, <1>2

LEMMA MarksAre ==
  Increasing(MarkPlaces, 13, 38) /\ Marks = Chosen(MarkPlaces, 13)
<1>1. Increasing(MarkPlaces, 13, 38)
  BY DEF Increasing, MarkPlaces
<1>2. \A i \in 1..13 : MarkPlaces[i] = 3 * i - 1
  BY DEF MarkPlaces
<1>3. ASSUME NEW i \in 1..13 PROVE MarkPlaces[i] \in Marks
  <2>1. 3 * i - 1 \in 1..38
    OBVIOUS
  <2>2. CASE i = 1
    <3>1. 3 * i - 1 = 2
      BY <2>2
    <3> QED BY <1>2, <2>1, <3>1, StatementShape, Zenon DEF Marks
  <2>3. CASE i # 1
    <3> DEFINE j == i - 1
    <3>1. j \in 1..12 /\ 3 * j + 2 = 3 * i - 1
      BY <2>3
    <3> HIDE DEF j
    <3>2. SetRecord[3 * j + 2] = "?"
      BY <3>1, StatementShape, Zenon
    <3> QED BY <1>2, <2>1, <3>1, <3>2, Zenon DEF Marks
  <2> QED BY <2>2, <2>3
<1>4. ASSUME NEW i \in Marks PROVE i \in Chosen(MarkPlaces, 13)
  <2>1. i \in 1..38 /\ SetRecord[i] = "?"
    BY DEF Marks
  <2>2. \A j \in 1..12 : i # 3 * j /\ i # 3 * j + 1
    <3>1. \A j \in 1..12 : ClauseOf(j) # "?" /\ ColumnOf(j) # "?"
      <4>1. "insert" # "?" /\ "update" # "?"
        OBVIOUS
      <4> QED BY <4>1, WordsOfStatement, Zenon
    <3> QED BY <2>1, <3>1, StatementShape, Zenon
  <2>3. i # 1
    <3>1. "insert digest" # "?"
      OBVIOUS
    <3> QED BY <2>1, <3>1, StatementShape, Zenon
  <2>4. \E j \in 1..13 : i = 3 * j - 1
    <3>1. i = 1 \/ i = 2 \/ \E j \in 1..12 : i = 3 * j \/ i = 3 * j + 1 \/ i = 3 * j + 2
      BY <2>1
    <3>2. CASE i = 2
      BY <3>2
    <3>3. CASE \E j \in 1..12 : i = 3 * j + 2
      <4> PICK j \in 1..12 : i = 3 * j + 2
        BY <3>3
      <4>1. j + 1 \in 1..13 /\ i = 3 * (j + 1) - 1
        OBVIOUS
      <4> QED BY <4>1, Zenon
    <3> QED BY <2>2, <2>3, <3>1, <3>2, <3>3, Zenon
  <2> QED BY <1>2, <2>4, Zenon DEF Chosen
<1> QED BY <1>1, <1>3, <1>4, Zenon DEF Chosen

LEMMA PlacesBefore ==
  ASSUME NEW n \in Nat, NEW m \in Nat, NEW p, Increasing(p, m, n), NEW k \in 1..m
  PROVE  {j \in Chosen(p, m) : j < p[k]} = Chosen(p, k - 1)
<1>1. \A i \in 1..m : p[i] \in Nat
  BY DEF Increasing
<1>2. \A i \in 1..m : p[i] < p[k] <=> i \in 1..(k - 1)
  <2> SUFFICES ASSUME NEW i \in 1..m PROVE p[i] < p[k] <=> i \in 1..(k - 1)
    OBVIOUS
  <2>1. CASE i < k
    BY <1>1, <2>1 DEF Increasing
  <2>2. CASE i = k
    BY <1>1, <2>2
  <2>3. CASE i > k
    BY <1>1, <2>3 DEF Increasing
  <2> QED BY <2>1, <2>2, <2>3
<1>3. \A i \in 1..(k - 1) : i \in 1..m
  OBVIOUS
<1> QED BY <1>2, <1>3, Zenon DEF Chosen

\* The statement and its values have as many marks as values, and after the
\* name of the digest every three has the value of its column.
InColumns(values, row, digest) ==
    /\ Len(values) = 13 /\ values[1] = digest
    /\ \A j \in 1..6 : values[j + 1] = row[j] /\ values[j + 7] = row[j]

LEMMA ValuesInOrder ==
  ASSUME NEW digest, NEW rec
  PROVE  InColumns(SetValues(digest, rec), Row(rec), digest)
<1> DEFINE row == Row(rec)  h == <<digest>>  c == h \o row  d == c \o row
<1>1. PICK S : h \in Seq(S) /\ row \in Seq(S) /\ Len(h) = 1 /\ h[1] = digest /\ Len(row) = 6
  <2> DEFINE T == {row[i] : i \in 1..6} \cup {digest}
  <2>1. h \in Seq(T) /\ Len(h) = 1 /\ h[1] = digest
    OBVIOUS
  <2>2. Len(row) = 6 /\ row \in Seq(T)
    <3>1. DOMAIN Columns = 1..6
      BY DEF Columns
    <3>2. row = [i \in 1..6 |-> row[i]] /\ DOMAIN row = 1..6
      BY <3>1, Zenon DEF Row
    <3> HIDE DEF row
    <3> QED BY <3>2
  <2> QED BY <2>1, <2>2, Zenon
<1> HIDE DEF h, row
<1>2. c \in Seq(S) /\ Len(c) = 7 /\ c[1] = digest /\ \A j \in 1..6 : c[j + 1] = row[j]
  <2>1. Joining(c, h, row, S)
    BY <1>1, PlacesJoined
  <2> HIDE DEF c
  <2> QED BY <1>1, <2>1 DEF Joining
<1> HIDE DEF c
<1>3. Len(d) = 13 /\ d[1] = digest /\ \A j \in 1..6 : d[j + 1] = row[j] /\ d[j + 7] = row[j]
  <2>1. Joining(d, c, row, S)
    BY <1>1, <1>2, PlacesJoined
  <2> HIDE DEF d
  <2> QED BY <1>1, <1>2, <2>1 DEF Joining
<1> QED BY <1>3, Zenon DEF SetValues, InColumns, d, c, h, row

LEMMA BoundInOrder ==
  ASSUME NEW values, Len(values) = 13
  PROVE  LET bound == BindStatement(SetRecord, values)
         IN /\ Len(bound) = 38
            /\ bound[1] = Word("insert digest")
            /\ \A j \in 1..12 : /\ bound[3 * j] = Word(ClauseOf(j))
                                /\ bound[3 * j + 1] = Word(ColumnOf(j))
                                /\ bound[3 * j + 2] = values[j + 1]
<1> DEFINE before(i) == Cardinality({k \in Marks : k < i})
           full == [i \in 1..38 |-> IF i \in Marks THEN values[before(i) + 1] ELSE Word(SetRecord[i])]
<1>1. DOMAIN SetRecord = 1..38
  <2>1. SetRecord \in Seq(Pieces) /\ Len(SetRecord) = 38
    BY StatementShape, Zenon
  <2> QED BY <2>1
<1>2. Cardinality(Marks) = 13
  <2>1. 38 \in Nat /\ 13 \in Nat /\ 13 \in 0..13
    OBVIOUS
  <2> QED BY <2>1, MarksAre, PlacesCounted, Zenon
<1>3. BindStatement(SetRecord, values) = full
  <2>1. {i \in DOMAIN SetRecord : SetRecord[i] = "?"} = Marks
    BY <1>1, Zenon DEF Marks
  <2> QED BY <1>1, <1>2, <2>1, Zenon DEF BindStatement
<1>4. \A j \in 1..13 : MarkPlaces[j] = 3 * j - 1
  BY DEF MarkPlaces
<1>5. ASSUME NEW j \in 1..12 PROVE 3 * j + 2 \in Marks /\ before(3 * j + 2) = j
  <2>1. j + 1 \in 1..13 /\ 3 * (j + 1) - 1 = 3 * j + 2 /\ (j + 1) - 1 = j /\ j \in 0..13
        /\ 38 \in Nat /\ 13 \in Nat
    OBVIOUS
  <2>2. MarkPlaces[j + 1] = 3 * j + 2
    BY <1>4, <2>1, Zenon
  <2>3. 3 * j + 2 \in Marks
    BY <2>1, <2>2, MarksAre, Zenon DEF Chosen
  <2>4. {k \in Marks : k < 3 * j + 2} = Chosen(MarkPlaces, j)
    <3>1. {k \in Chosen(MarkPlaces, 13) : k < MarkPlaces[j + 1]} = Chosen(MarkPlaces, (j + 1) - 1)
      BY <2>1, MarksAre, PlacesBefore
    <3> QED BY <2>1, <2>2, <3>1, MarksAre, Zenon
  <2>5. Cardinality(Chosen(MarkPlaces, j)) = j
    BY <2>1, MarksAre, PlacesCounted
  <2> QED BY <2>3, <2>4, <2>5, Zenon
<1>6. 1 \notin Marks /\ \A j \in 1..12 : 3 * j \notin Marks /\ 3 * j + 1 \notin Marks
  <2>1. "insert digest" # "?"
    OBVIOUS
  <2> QED BY <2>1, StatementShape, WordsOfStatement, Zenon DEF Marks
<1>7. /\ DOMAIN full = 1..38
      /\ \A i \in 1..38 : i \in Marks => full[i] = values[before(i) + 1]
      /\ \A i \in 1..38 : i \notin Marks => full[i] = Word(SetRecord[i])
  BY Zenon
<1>8. Len(full) = 38
  <2>1. \E S : full \in [1..38 -> S]
    <3> DEFINE S == {full[i] : i \in 1..38}
    <3>1. full \in [1..38 -> S]
      BY Zenon
    <3> QED BY <3>1, Zenon
  <2> HIDE DEF full
  <2> QED BY <2>1
<1> HIDE DEF full, before
<1>9. full[1] = Word("insert digest")
  <2>1. 1 \in 1..38
    OBVIOUS
  <2> QED BY <1>6, <1>7, <2>1, StatementShape, Zenon
<1>10. ASSUME NEW j \in 1..12
       PROVE  full[3 * j] = Word(ClauseOf(j)) /\ full[3 * j + 1] = Word(ColumnOf(j))
              /\ full[3 * j + 2] = values[j + 1]
  <2>1. 3 * j \in 1..38 /\ 3 * j + 1 \in 1..38 /\ 3 * j + 2 \in 1..38
    OBVIOUS
  <2> QED BY <1>5, <1>6, <1>7, <2>1, StatementShape, Zenon
<1> QED BY <1>3, <1>8, <1>9, <1>10, Zenon

Worded(bound) ==
    /\ Len(bound) = 38 /\ bound[1] = Word("insert digest")
    /\ \A j \in 1..12 : bound[3 * j] = Word(ClauseOf(j)) /\ bound[3 * j + 1] = Word(ColumnOf(j))

\* The three that a clause has for the i-th column.
ThreeOf(clause, i) == IF clause = "insert" THEN i ELSE i + 6

LEMMA ThreeOfColumn ==
  ASSUME NEW clause \in {"insert", "update"}, NEW i \in 1..6
  PROVE  /\ ThreeOf(clause, i) \in 1..12
         /\ ClauseOf(ThreeOf(clause, i)) = clause /\ ColumnOf(ThreeOf(clause, i)) = Columns[i]
         /\ \A j \in 1..12 : ClauseOf(j) = clause /\ ColumnOf(j) = Columns[i] => j = ThreeOf(clause, i)
<1>1. CASE clause = "insert"
  <2>1. i <= 6 /\ i \in 1..12
    OBVIOUS
  <2>4. ThreeOf(clause, i) = i
    BY <1>1 DEF ThreeOf
  <2>2. ClauseOf(i) = "insert" /\ ColumnOf(i) = Columns[i]
    BY <2>1, Zenon DEF ClauseOf, ColumnOf
  <2>3. ASSUME NEW j \in 1..12, ClauseOf(j) = "insert", ColumnOf(j) = Columns[i] PROVE j = i
    <3>1. "update" # "insert"
      OBVIOUS
    <3>2. j <= 6
      BY <2>3, <3>1, Zenon DEF ClauseOf
    <3>3. Columns[j] = Columns[i]
      BY <2>3, <3>2, Zenon DEF ColumnOf
    <3>4. j \in 1..6
      BY <3>2
    <3> QED BY <3>3, <3>4, ColumnsDiffer
  <2>5. ClauseOf(i) = clause /\ \A j \in 1..12 : ClauseOf(j) = clause /\ ColumnOf(j) = Columns[i] => j = i
    BY <1>1, <2>2, <2>3, Zenon
  <2> QED BY <2>1, <2>2, <2>4, <2>5
<1>2. CASE clause = "update"
  <2>1. ~(i + 6 <= 6) /\ i + 6 \in 1..12 /\ (i + 6) - 6 = i
    OBVIOUS
  <2>2. ThreeOf(clause, i) = i + 6
    BY <1>2 DEF ThreeOf
  <2>3. ClauseOf(i + 6) = "update" /\ ColumnOf(i + 6) = Columns[i]
    BY <2>1, Zenon DEF ClauseOf, ColumnOf
  <2>4. ASSUME NEW j \in 1..12, ClauseOf(j) = "update", ColumnOf(j) = Columns[i] PROVE j = i + 6
    <3>1. "update" # "insert"
      OBVIOUS
    <3>2. ~(j <= 6)
      BY <2>4, <3>1, Zenon DEF ClauseOf
    <3>3. Columns[j - 6] = Columns[i]
      BY <2>4, <3>2, Zenon DEF ColumnOf
    <3>4. j - 6 \in 1..6
      BY <3>2
    <3>5. j - 6 = i
      BY <3>3, <3>4, ColumnsDiffer
    <3> QED BY <3>5
  <2> QED BY <1>2, <2>1, <2>2, <2>3, <2>4, Zenon
<1> QED BY <1>1, <1>2

LEMMA PlacesOfThrees ==
  ASSUME NEW k \in 1..36
  PROVE  \/ k = 1
         \/ k + 1 = 3 * 1
         \/ \E j \in 1..12 : k = 3 * j
         \/ \E j \in 1..12 : k = 3 * j + 1
         \/ \E j \in 1..12 : k + 1 = 3 * j
OBVIOUS

LEMMA UpsertedValue ==
  ASSUME NEW bound, Worded(bound), NEW clause \in {"insert", "update"}, NEW i \in 1..6
  PROVE  Upserted(bound, clause)[i] = bound[3 * ThreeOf(clause, i) + 2]
<1> DEFINE j0 == ThreeOf(clause, i)
           Found(k) == bound[k] = Word(clause) /\ bound[k + 1] = Word(Columns[i])
<1>1. /\ j0 \in 1..12 /\ ClauseOf(j0) = clause /\ ColumnOf(j0) = Columns[i]
      /\ \A j \in 1..12 : ClauseOf(j) = clause /\ ColumnOf(j) = Columns[i] => j = j0
  BY ThreeOfColumn, Zenon
<1> HIDE DEF j0
<1>2. \A v, w : Word(v) = Word(w) => v = w
  BY DEF Word
<1>3. /\ Columns[i] \notin {"insert", "update"} /\ clause # "insert digest"
      /\ \A j \in 1..12 : ColumnOf(j) # clause /\ ClauseOf(j) # Columns[i]
  <2>1. \A c \in {Columns[j] : j \in 1..6} : c \notin {"insert", "update"}
    BY WordsOfStatement
  <2>2. Columns[i] \notin {"insert", "update"}
    BY <2>1, Zenon
  <2>3. \A j \in 1..12 : ColumnOf(j) \notin {"insert", "update"} /\ ClauseOf(j) \in {"insert", "update"}
    BY <2>1, WordsOfStatement, Zenon
  <2> QED BY <2>2, <2>3
<1>4. ASSUME NEW k \in 1..36, Found(k) PROVE k = 3 * j0
  <2>1. k # 1
    BY <1>2, <1>3, <1>4, Zenon DEF Worded
  <2>2. ASSUME NEW j \in 1..12, k = 3 * j + 1 PROVE FALSE
    <3>1. bound[3 * j + 1] = Word(ColumnOf(j))
      BY Zenon DEF Worded
    <3>2. Word(ColumnOf(j)) = Word(clause)
      BY <1>4, <2>2, <3>1, Zenon
    <3> QED BY <1>2, <1>3, <3>2, Zenon
  <2>3. ASSUME NEW j \in 1..12, k + 1 = 3 * j PROVE FALSE
    <3>1. bound[3 * j] = Word(ClauseOf(j))
      BY Zenon DEF Worded
    <3>2. Word(ClauseOf(j)) = Word(Columns[i])
      BY <1>4, <2>3, <3>1, Zenon
    <3> QED BY <1>2, <1>3, <3>2, Zenon
  <2>4. 1 \in 1..12
    OBVIOUS
  <2>5. PICK j \in 1..12 : k = 3 * j
    BY <2>1, <2>2, <2>3, <2>4, PlacesOfThrees, Zenon
  <2>6. ClauseOf(j) = clause /\ ColumnOf(j) = Columns[i]
    BY <1>2, <1>4, <2>5, ZenonT(60) DEF Worded
  <2> QED BY <1>1, <2>5, <2>6, Zenon
<1>5. 3 * j0 \in 1..36 /\ Found(3 * j0)
  <2>1. \A j \in 1..12 : 3 * j \in 1..36
    OBVIOUS
  <2>2. 3 * j0 \in 1..36
    BY <1>1, <2>1, Zenon
  <2> QED BY <1>1, <2>2, Zenon DEF Worded
<1> DEFINE found == CHOOSE k \in 1..36 : Found(k)
<1>6. found = 3 * j0
  <2> HIDE DEF Found, j0
  <2>1. found \in 1..36 /\ Found(found)
    BY <1>5, Zenon
  <2> HIDE DEF found
  <2> QED BY <1>4, <2>1, Zenon
<1>7. Upserted(bound, clause)[i] = bound[found + 2]
  <2>1. DOMAIN Columns = 1..6
    BY DEF Columns
  <2>2. 38 - 2 = 36
    OBVIOUS
  <2>3. 1..(Len(bound) - 2) = 1..36
    BY <2>2, Zenon DEF Worded
  <2> QED BY <2>1, <2>3, Zenon DEF Upserted
<1> HIDE DEF found
<1> QED BY <1>6, <1>7, Zenon DEF j0

\* Whichever clause of its statement MySQL follows, that of a new digest or that of
\* a known one, the row has the value of every column and no other: the question
\* marks take the thirteen values in their order (bind_statement, execute_set_record).
THEOREM StatementSetsRow ==
  ASSUME NEW digest, NEW rec, NEW clause \in {"insert", "update"}
  PROVE  Upserted(BindStatement(SetRecord, SetValues(digest, rec)), clause) = Row(rec)
<1> DEFINE values == SetValues(digest, rec)
           bound == BindStatement(SetRecord, values)
           up == Upserted(bound, clause)
           row == Row(rec)
<1>1. /\ Len(values) = 13 /\ values[1] = digest
      /\ \A j \in 1..6 : values[j + 1] = row[j] /\ values[j + 7] = row[j]
  <2>1. InColumns(values, row, digest)
    BY ValuesInOrder, Zenon
  <2> HIDE DEF values, row
  <2> QED BY <2>1, Zenon DEF InColumns
<1> HIDE DEF values, row
<1>2. /\ Len(bound) = 38
      /\ bound[1] = Word("insert digest")
      /\ \A j \in 1..12 : /\ bound[3 * j] = Word(ClauseOf(j))
                          /\ bound[3 * j + 1] = Word(ColumnOf(j))
                          /\ bound[3 * j + 2] = values[j + 1]
  BY <1>1, BoundInOrder, Zenon
<1> HIDE DEF bound
<1>3. ASSUME NEW i \in 1..6 PROVE up[i] = row[i]
  <2> DEFINE j == ThreeOf(clause, i)
  <2>1. Worded(bound)
    BY <1>2, Zenon DEF Worded
  <2>2. up[i] = bound[3 * j + 2]
    BY <2>1, UpsertedValue
  <2>3. j \in 1..12
    BY ThreeOfColumn, Zenon
  <2>4. j + 1 = i + 1 \/ j + 1 = i + 7
    BY DEF ThreeOf
  <2> HIDE DEF j
  <2>5. up[i] = values[j + 1]
    BY <1>2, <2>2, <2>3, Zenon
  <2> QED BY <1>1, <2>4, <2>5, Zenon
<1>4. DOMAIN Columns = 1..6
  BY DEF Columns
<1>5. up = [i \in 1..6 |-> up[i]]
  <2>1. DOMAIN up = DOMAIN Columns
    BY DEF Upserted
  <2>2. up = [i \in DOMAIN up |-> up[i]]
    BY DEF Upserted
  <2> HIDE DEF up
  <2> QED BY <1>4, <2>1, <2>2, Zenon
<1>6. row = [i \in 1..6 |-> row[i]]
  BY <1>4, Zenon DEF Row, row
<1> HIDE DEF up
<1> QED BY <1>3, <1>5, <1>6, Zenon DEF up, row, bound, values

(***************************************************************************)
(* The replies of Redis                                                    *)
(***************************************************************************)
\* s has the two of each place one after the other.
InTwos(s, S, n, x, y) ==
    /\ s \in Seq(S) /\ Len(s) = 2 * n
    /\ \A i \in 1..n : s[2 * i - 1] = x[i] /\ s[2 * i] = y[i]

LEMMA TwosLonger ==
  ASSUME NEW S, NEW n \in Nat, NEW x, NEW y, NEW s, InTwos(s, S, n, x, y), NEW e \in Seq(S),
         Len(e) = 2, e[1] = x[n + 1], e[2] = y[n + 1]
  PROVE  InTwos(s \o e, S, n + 1, x, y)
<1> DEFINE t == s \o e
<1>1. s \in Seq(S) /\ Len(s) = 2 * n
  BY DEF InTwos
<1>2. Joining(t, s, e, S)
  BY <1>1, PlacesJoined
<1> HIDE DEF t
<1>3. t \in Seq(S) /\ Len(t) = 2 * (n + 1)
  BY <1>1, <1>2 DEF Joining
<1>4. ASSUME NEW i \in 1..n PROVE t[2 * i - 1] = x[i] /\ t[2 * i] = y[i]
  <2>1. 2 * i - 1 \in 1..Len(s) /\ 2 * i \in 1..Len(s)
    BY <1>1
  <2>2. t[2 * i - 1] = s[2 * i - 1] /\ t[2 * i] = s[2 * i]
    BY <1>2, <2>1, Zenon DEF Joining
  <2> QED BY <2>2, Zenon DEF InTwos
<1>5. t[2 * (n + 1) - 1] = x[n + 1] /\ t[2 * (n + 1)] = y[n + 1]
  <2>1. 1 \in 1..Len(e) /\ 2 \in 1..Len(e) /\ 1 + Len(s) = 2 * (n + 1) - 1 /\ 2 + Len(s) = 2 * (n + 1)
    BY <1>1
  <2>2. t[1 + Len(s)] = e[1] /\ t[2 + Len(s)] = e[2]
    BY <1>2, <2>1, Zenon DEF Joining
  <2> QED BY <2>1, <2>2, Zenon
<1>6. \A i \in 1..(n + 1) : t[2 * i - 1] = x[i] /\ t[2 * i] = y[i]
  <2>1. \A i \in 1..(n + 1) : i \in 1..n \/ i = n + 1
    OBVIOUS
  <2> QED BY <1>4, <1>5, <2>1, Zenon
<1> QED BY <1>3, <1>6, Zenon DEF t, InTwos

LEMMA TwosFlat ==
  ASSUME NEW S, NEW m \in Nat, NEW x, NEW y, \A i \in 1..m : x[i] \in S /\ y[i] \in S
  PROVE  InTwos(FlattenSeq([i \in 1..m |-> <<x[i], y[i]>>]), S, m, x, y)
<1> DEFINE part(n) == [i \in 1..n |-> <<x[i], y[i]>>]
           T == {n \in Nat : n <= m => part(n) \in Seq(Seq(S)) /\ InTwos(FlattenSeq(part(n)), S, n, x, y)}
<1>1. 0 \in T
  <2>1. part(0) = << >>
    OBVIOUS
  <2>2. << >> \in Seq(Seq(S)) /\ InTwos(<< >>, S, 0, x, y)
    BY DEF InTwos
  <2> QED BY <2>1, <2>2, FlattenEmpty
<1>2. ASSUME NEW n \in Nat, n \in T PROVE n + 1 \in T
  <2> SUFFICES ASSUME n + 1 <= m
               PROVE  part(n + 1) \in Seq(Seq(S)) /\ InTwos(FlattenSeq(part(n + 1)), S, n + 1, x, y)
    OBVIOUS
  <2> DEFINE ss == part(n)  e == <<x[n + 1], y[n + 1]>>
  <2>1. ss \in Seq(Seq(S)) /\ InTwos(FlattenSeq(ss), S, n, x, y)
    BY <1>2
  <2>2. x[n + 1] \in S /\ y[n + 1] \in S
    <3>1. n + 1 \in 1..m
      OBVIOUS
    <3> QED BY <3>1, Zenon
  <2>3. e \in Seq(S) /\ Len(e) = 2 /\ e[1] = x[n + 1] /\ e[2] = y[n + 1]
    BY <2>2
  <2>4. part(n + 1) = Append(ss, e)
    <3>1. Len(ss) = n /\ \A i \in 1..n : ss[i] = <<x[i], y[i]>>
      OBVIOUS
    <3>2. /\ Append(ss, e) \in Seq(Seq(S)) /\ Len(Append(ss, e)) = n + 1
          /\ \A i \in 1..n : Append(ss, e)[i] = ss[i]
          /\ Append(ss, e)[n + 1] = e
      <4> HIDE DEF ss, e
      <4> QED BY <2>1, <2>3, <3>1, AppendProperties
    <3>3. Append(ss, e) = [i \in 1..(n + 1) |-> Append(ss, e)[i]]
      <4> DEFINE u == Append(ss, e)
      <4>1. u \in Seq(Seq(S)) /\ Len(u) = n + 1
        BY <3>2
      <4> HIDE DEF u
      <4>2. u = [i \in 1..Len(u) |-> u[i]]
        BY <4>1
      <4> QED BY <4>1, <4>2, Zenon DEF u
    <3>4. \A i \in 1..(n + 1) : Append(ss, e)[i] = <<x[i], y[i]>>
      <4>1. \A i \in 1..(n + 1) : i \in 1..n \/ i = n + 1
        OBVIOUS
      <4> QED BY <3>1, <3>2, <4>1, Zenon
    <3> QED BY <3>3, <3>4, Zenon
  <2> HIDE DEF ss, e
  <2>5. FlattenSeq(Append(ss, e)) = FlattenSeq(ss) \o e
    BY <2>1, <2>3, FlattenAppend, Zenon
  <2>6. InTwos(FlattenSeq(ss) \o e, S, n + 1, x, y)
    BY <2>1, <2>3, TwosLonger, Zenon
  <2>7. Append(ss, e) \in Seq(Seq(S))
    BY <2>1, <2>3, AppendProperties
  <2> QED BY <2>4, <2>5, <2>6, <2>7, Zenon
<1>3. m \in T
  <2> HIDE DEF T
  <2> QED BY <1>1, <1>2, Induction
<1> QED BY <1>3

\* The stream is an array of n payloads.
Streams(stream, n, texts) ==
    /\ n \in Nat /\ Len(stream) = 2 * n + 1 /\ stream[1] = Line("*", n)
    /\ \A i \in 1..n : stream[2 * i] = Line("$", 1) /\ stream[2 * i + 1] = Bytes(texts[i])

LEMMA CommandStreams ==
  ASSUME NEW S, NEW texts \in Seq(S)
  PROVE  Streams(WriteCommand(texts), Len(texts), texts)
<1> DEFINE n == Len(texts)
           x == [i \in 1..n |-> Line("$", 1)]
           y == [i \in 1..n |-> Bytes(texts[i])]
           S2 == {x[i] : i \in 1..n} \cup {y[i] : i \in 1..n} \cup {Line("*", n)}
           h == <<Line("*", n)>>
           b == FlattenSeq([i \in 1..n |-> <<x[i], y[i]>>])
           stream == h \o b
<1>1. n \in Nat /\ DOMAIN texts = 1..n
  OBVIOUS
<1>2. InTwos(b, S2, n, x, y)
  <2>1. \A i \in 1..n : x[i] \in S2 /\ y[i] \in S2
    <3> HIDE DEF x, y, n
    <3> QED BY Zenon
  <2> HIDE DEF x, y, n, S2
  <2> QED BY <1>1, <2>1, TwosFlat
<1>3. WriteCommand(texts) = stream
  <2>1. [i \in DOMAIN texts |-> <<Line("$", 1), Bytes(texts[i])>>] = [i \in 1..n |-> <<x[i], y[i]>>]
    BY <1>1, Zenon
  <2> QED BY <2>1, Zenon DEF WriteCommand, Bulks
<1>4. h \in Seq(S2) /\ Len(h) = 1 /\ h[1] = Line("*", n)
  <2> HIDE DEF x, y, n
  <2> QED OBVIOUS
<1>5. b \in Seq(S2) /\ Len(b) = 2 * n
  BY <1>2, Zenon DEF InTwos
<1> HIDE DEF h, b, S2
<1>6. Joining(stream, h, b, S2)
  BY <1>4, <1>5, PlacesJoined
<1> HIDE DEF stream
<1>7. Len(stream) = 2 * n + 1 /\ stream[1] = Line("*", n)
  <2> HIDE DEF n
  <2>1. 1 \in 1..Len(h)
    BY <1>4
  <2> QED BY <1>1, <1>4, <1>5, <1>6, <2>1 DEF Joining
<1>8. ASSUME NEW i \in 1..n PROVE stream[2 * i] = Line("$", 1) /\ stream[2 * i + 1] = Bytes(texts[i])
  <2>1. b[2 * i - 1] = x[i] /\ b[2 * i] = y[i]
    <3> HIDE DEF x, y, n
    <3> QED BY <1>2, Zenon DEF InTwos
  <2>2. x[i] = Line("$", 1) /\ y[i] = Bytes(texts[i])
    BY Zenon
  <2>3. 2 * i - 1 \in 1..Len(b) /\ 2 * i \in 1..Len(b) /\ (2 * i - 1) + Len(h) = 2 * i /\ 2 * i + Len(h) = 2 * i + 1
    <3> HIDE DEF n
    <3>1. Len(h) = 1
      BY <1>4
    <3> QED BY <1>1, <1>5, <3>1
  <2>4. stream[(2 * i - 1) + Len(h)] = b[2 * i - 1] /\ stream[2 * i + Len(h)] = b[2 * i]
    BY <1>6, <2>3, Zenon DEF Joining
  <2> HIDE DEF x, y, n
  <2> QED BY <2>1, <2>2, <2>3, <2>4, Zenon
<1> QED BY <1>1, <1>3, <1>7, <1>8, Zenon DEF Streams

BulkAt(texts, i) == Resp("bulk", texts[i], 2 * i + 2)

LEMMA BulkRead ==
  ASSUME NEW stream, NEW n, NEW texts, Streams(stream, n, texts), NEW i \in 1..n, NEW reads
  PROVE  /\ ReadAt(stream, reads, 2 * i) = BulkAt(texts, i)
         /\ ReadAt(stream, reads, 2 * i + 1) = Broken
<1>1. n \in Nat /\ Len(stream) = 2 * n + 1 /\ stream[2 * i] = Line("$", 1) /\ stream[2 * i + 1] = Bytes(texts[i])
  BY Zenon DEF Streams
<1>2. ~(2 * i > Len(stream)) /\ 2 * i # Len(stream)
  BY <1>1
<1> DEFINE line == Line("$", 1)  bytes == Bytes(texts[i])
<1>3. line.token = "line" /\ line.prefix = "$" /\ line.n = 1
  BY DEF Line
<1>4. bytes.token = "bytes" /\ bytes.payload = texts[i] /\ bytes.crlf = TRUE
  BY DEF Bytes
<1>5. 1 # NoInteger /\ 1 # -1 /\ ~(1 < 0)
  BY RepliesAssumption
<1>6. "$" # "+" /\ "$" # "-" /\ "$" # ":" /\ "$" # "*" /\ "bytes" # "line"
  OBVIOUS
<1> HIDE DEF line, bytes
<1>7. stream[2 * i] = line /\ stream[2 * i + 1] = bytes
  BY <1>1, Zenon DEF line, bytes
<1>8. ReadAt(stream, reads, 2 * i) = Resp("bulk", texts[i], 2 * i + 2)
  BY <1>2, <1>3, <1>4, <1>5, <1>6, <1>7, Zenon DEF ReadAt
<1>9. ReadAt(stream, reads, 2 * i + 1) = Broken
  BY <1>4, <1>6, <1>7, Zenon DEF ReadAt
<1> QED BY <1>8, <1>9, Zenon DEF BulkAt

\* What has been read of the array after k of its values.
ArrayOf(texts, k) == Resp("array", [i \in 1..k |-> BulkAt(texts, i)], 2 * k + 2)

LEMMA OneMoreBulk ==
  ASSUME NEW texts, NEW k \in Nat
  PROVE  Append([i \in 1..k |-> BulkAt(texts, i)], BulkAt(texts, k + 1)) = [i \in 1..(k + 1) |-> BulkAt(texts, i)]
<1> DEFINE b(i) == BulkAt(texts, i)
           v == [i \in 1..k |-> b(i)]  e == b(k + 1)  w == Append(v, e)
           S == {b(i) : i \in 1..(k + 1)}
<1>1. v \in Seq(S) /\ Len(v) = k /\ e \in S /\ \A i \in 1..k : v[i] = b(i)
  <2> HIDE DEF b
  <2> QED OBVIOUS
<1>2. w \in Seq(S) /\ Len(w) = k + 1 /\ w[k + 1] = e /\ \A i \in 1..k : w[i] = v[i]
  <2> HIDE DEF v, e, S
  <2> QED BY <1>1, AppendProperties
<1>3. w = [i \in 1..(k + 1) |-> w[i]]
  <2> HIDE DEF w, S
  <2>1. w = [i \in 1..Len(w) |-> w[i]]
    BY <1>2
  <2> QED BY <1>2, <2>1, Zenon
<1>4. \A i \in 1..(k + 1) : w[i] = b(i)
  <2>1. \A i \in 1..(k + 1) : i \in 1..k \/ i = k + 1
    OBVIOUS
  <2> HIDE DEF w, v, b
  <2> QED BY <1>1, <1>2, <2>1, Zenon DEF e
<1> HIDE DEF w
<1> QED BY <1>3, <1>4, Zenon DEF w

\* The recursive function of read_resp for an array of n values.
Added(reads, before) ==
    LET value == IF before = Broken THEN Broken ELSE reads[before.next]
    IN IF value = Broken THEN Broken ELSE Resp("array", Append(before.payload, value), value.next)
Elements(array, reads, n, from) ==
    array = [k \in 0..n |-> IF k = 0 THEN Resp("array", << >>, from) ELSE Added(reads, array[k - 1])]

LEMMA NotBroken ==
  /\ \A texts, i : BulkAt(texts, i) # Broken /\ BulkAt(texts, i).next = 2 * i + 2
  /\ \A texts, i : /\ ArrayOf(texts, i) # Broken /\ ArrayOf(texts, i).next = 2 * i + 2
                 /\ ArrayOf(texts, i).payload = [k \in 1..i |-> BulkAt(texts, k)]
<1>1. \A kind, payload, next : /\ Resp(kind, payload, next).kind = kind
                              /\ Resp(kind, payload, next).payload = payload
                              /\ Resp(kind, payload, next).next = next
  BY DEF Resp
<1>2. Broken.kind = "broken" /\ "bulk" # "broken" /\ "array" # "broken"
  BY DEF Broken
<1>3. \A kind, payload, next : kind # "broken" => Resp(kind, payload, next) # Broken
  <2> SUFFICES ASSUME NEW kind, NEW payload, NEW next, Resp(kind, payload, next) = Broken
               PROVE  kind = "broken"
    BY Zenon
  <2>1. Resp(kind, payload, next).kind = Broken.kind
    BY Zenon
  <2> QED BY <1>1, <1>2, <2>1
<1>4. ASSUME NEW texts, NEW i PROVE BulkAt(texts, i) # Broken /\ BulkAt(texts, i).next = 2 * i + 2
  <2>1. BulkAt(texts, i) = Resp("bulk", texts[i], 2 * i + 2)
    BY Zenon DEF BulkAt
  <2> QED BY <1>1, <1>2, <1>3, <2>1
<1>5. ASSUME NEW texts, NEW i
      PROVE  /\ ArrayOf(texts, i) # Broken /\ ArrayOf(texts, i).next = 2 * i + 2
             /\ ArrayOf(texts, i).payload = [k \in 1..i |-> BulkAt(texts, k)]
  <2> DEFINE values == [k \in 1..i |-> BulkAt(texts, k)]
  <2>1. ArrayOf(texts, i) = Resp("array", values, 2 * i + 2)
    BY Zenon DEF ArrayOf
  <2> HIDE DEF values
  <2>2. ArrayOf(texts, i) # Broken /\ ArrayOf(texts, i).next = 2 * i + 2 /\ ArrayOf(texts, i).payload = values
    BY <1>1, <1>2, <1>3, <2>1
  <2> QED BY <2>2, Zenon DEF values
<1> QED BY <1>4, <1>5, Zenon

\* One more value: after k of them the next one is read where they end.
LEMMA NextElement ==
  ASSUME NEW n \in Nat, NEW texts, NEW reads, \A i \in 1..n : reads[2 * i] = BulkAt(texts, i), NEW k \in 1..n
  PROVE  Added(reads, ArrayOf(texts, k - 1)) = ArrayOf(texts, k)
<1> DEFINE before == ArrayOf(texts, k - 1)
           value == IF before = Broken THEN Broken ELSE reads[before.next]
<1>1. 2 * (k - 1) + 2 = 2 * k /\ k - 1 \in Nat /\ (k - 1) + 1 = k
  OBVIOUS
<1>2. before # Broken /\ before.next = 2 * k /\ before.payload = [i \in 1..(k - 1) |-> BulkAt(texts, i)]
  <2>1. /\ before # Broken /\ before.next = 2 * (k - 1) + 2
        /\ before.payload = [i \in 1..(k - 1) |-> BulkAt(texts, i)]
    BY NotBroken, Zenon
  <2> HIDE DEF before
  <2> QED BY <1>1, <2>1, Zenon
<1> HIDE DEF before
<1>3. value = BulkAt(texts, k)
  BY <1>2, Zenon
<1> HIDE DEF value
<1>4. value # Broken /\ value.next = 2 * k + 2
  BY <1>3, NotBroken, Zenon
<1>5. Append(before.payload, value) = [i \in 1..k |-> BulkAt(texts, i)]
  <2> DEFINE l == k - 1
  <2>1. l \in Nat /\ l + 1 = k
    BY <1>1
  <2>2. before.payload = [i \in 1..l |-> BulkAt(texts, i)]
    BY <1>2, Zenon
  <2> HIDE DEF l
  <2>3. Append([i \in 1..l |-> BulkAt(texts, i)], BulkAt(texts, l + 1)) = [i \in 1..(l + 1) |-> BulkAt(texts, i)]
    BY <2>1, OneMoreBulk
  <2> QED BY <1>3, <2>1, <2>2, <2>3, Zenon
<1>6. (IF value = Broken THEN Broken ELSE Resp("array", Append(before.payload, value), value.next))
        = ArrayOf(texts, k)
  BY <1>4, <1>5, Zenon DEF ArrayOf
<1> QED BY <1>6, Zenon DEF value, before, Added

LEMMA ArrayRead ==
  ASSUME NEW n \in Nat, NEW texts, NEW reads, \A i \in 1..n : reads[2 * i] = BulkAt(texts, i)
  PROVE  ReadArray(reads, n, 2) = ArrayOf(texts, n)
<1> DEFINE h == [k \in 0..n |-> ArrayOf(texts, k)]
           array == CHOOSE array : Elements(array, reads, n, 2)
<1>1. ReadArray(reads, n, 2) = array[n]
  BY Zenon DEF ReadArray, Elements, Added
<1>2. ArrayOf(texts, 0) = Resp("array", << >>, 2)
  <2>1. [i \in 1..0 |-> BulkAt(texts, i)] = << >> /\ 2 * 0 + 2 = 2
    OBVIOUS
  <2> QED BY <2>1, Zenon DEF ArrayOf
<1>3. \A k \in 1..n : Added(reads, ArrayOf(texts, k - 1)) = ArrayOf(texts, k)
  BY NextElement
<1>5. Elements(h, reads, n, 2)
  <2>1. \A k \in 0..n : ArrayOf(texts, k) = IF k = 0 THEN Resp("array", << >>, 2) ELSE Added(reads, h[k - 1])
    <3> SUFFICES ASSUME NEW k \in 0..n, k # 0 PROVE ArrayOf(texts, k) = Added(reads, h[k - 1])
      BY <1>2, Zenon
    <3>1. k \in 1..n /\ k - 1 \in 0..n
      OBVIOUS
    <3>2. h[k - 1] = ArrayOf(texts, k - 1)
      BY <3>1, Zenon
    <3> QED BY <1>3, <3>1, <3>2, Zenon
  <2>2. h = [k \in 0..n |-> IF k = 0 THEN Resp("array", << >>, 2) ELSE Added(reads, h[k - 1])]
    BY <2>1, Zenon
  <2> QED BY <2>2, Zenon DEF Elements
<1>6. Elements(array, reads, n, 2)
  <2> HIDE DEF h
  <2> QED BY <1>5, Zenon
<1> HIDE DEF array, h
<1>7. /\ array[0] = Resp("array", << >>, 2)
      /\ \A k \in 1..n : array[k] = Added(reads, array[k - 1])
  <2>1. array = [k \in 0..n |-> IF k = 0 THEN Resp("array", << >>, 2) ELSE Added(reads, array[k - 1])]
    BY <1>6, Zenon DEF Elements
  <2>2. 0 \in 0..n /\ \A k \in 1..n : k \in 0..n /\ k # 0
    OBVIOUS
  <2> QED BY <2>1, <2>2, Zenon
<1> DEFINE T == {k \in Nat : k <= n => array[k] = ArrayOf(texts, k)}
<1>8. 0 \in T
  BY <1>2, <1>7, Zenon
<1>9. ASSUME NEW k \in Nat, k \in T PROVE k + 1 \in T
  <2> SUFFICES ASSUME k + 1 <= n PROVE array[k + 1] = ArrayOf(texts, k + 1)
    OBVIOUS
  <2>1. array[k] = ArrayOf(texts, k)
    BY <1>9
  <2>2. k + 1 \in 1..n /\ (k + 1) - 1 = k
    OBVIOUS
  <2> QED BY <1>3, <1>7, <2>1, <2>2, Zenon
<1>10. n \in T
  <2> HIDE DEF T
  <2> QED BY <1>8, <1>9, Induction
<1> QED BY <1>1, <1>10

LEMMA ReadsDefined ==
  ASSUME NEW stream, NEW n, NEW texts, Streams(stream, n, texts)
  PROVE  ReadResp(stream) = ArrayOf(texts, n)
<1>1. n \in Nat /\ Len(stream) = 2 * n + 1 /\ stream[1] = Line("*", n)
  BY Zenon DEF Streams
<1> DEFINE N == Len(stream) + 1
           Reads(r) == r = [i \in 1..N |-> ReadAt(stream, r, i)]
<1>2. N = 2 * n + 2 /\ N \in Nat
  BY <1>1
<1>3. \A i \in 1..n : 2 * i \in 1..N /\ 2 * i + 1 \in 1..N
  BY <1>1
<1>4. ASSUME NEW reads PROVE ReadAt(stream, reads, 1) = ReadArray(reads, n, 2)
  <2> DEFINE line == Line("*", n)
  <2>1. line.token = "line" /\ line.prefix = "*" /\ line.n = n
    BY DEF Line
  <2>2. "*" # "+" /\ "*" # "-" /\ "*" # ":" /\ n # NoInteger /\ n # -1 /\ ~(n < 0)
    BY <1>1, RepliesAssumption
  <2>3. ~(1 > Len(stream)) /\ 1 + 1 = 2
    BY <1>1
  <2>4. stream[1] = line
    BY <1>1, Zenon
  <2> HIDE DEF line
  <2> QED BY <2>1, <2>2, <2>3, <2>4, Zenon DEF ReadAt
<1>5. \A reads : ReadAt(stream, reads, N) = Broken
  <2>1. N > Len(stream)
    BY <1>1
  <2> QED BY <2>1, Zenon DEF ReadAt
<1> HIDE DEF N
<1>6. \A i \in 1..N : i = 1 \/ i = N \/ \E j \in 1..n : i = 2 * j \/ i = 2 * j + 1
  <2> SUFFICES ASSUME NEW i \in 1..N, i # 1, i # N
               PROVE  \E j \in 1..n : i = 2 * j \/ i = 2 * j + 1
    BY Zenon
  <2> DEFINE j == i \div 2
  <2>1. j \in 1..n /\ (i = 2 * j \/ i = 2 * j + 1)
    BY <1>1, <1>2
  <2> HIDE DEF j
  <2> QED BY <2>1, Zenon
<1>12. \A i \in 1..n : \A r : ReadAt(stream, r, 2 * i) = BulkAt(texts, i) /\ ReadAt(stream, r, 2 * i + 1) = Broken
  BY BulkRead
<1>7. ASSUME NEW i \in 1..N, i # 1, NEW r, NEW q PROVE ReadAt(stream, r, i) = ReadAt(stream, q, i)
  <2>1. CASE i = N
    BY <1>5, <2>1, Zenon
  <2>2. CASE \E j \in 1..n : i = 2 * j \/ i = 2 * j + 1
    BY <1>12, <2>2, Zenon
  <2> QED BY <1>6, <1>7, <2>1, <2>2, Zenon
<1>8. \A r : Reads(r) => r[1] = ArrayOf(texts, n)
  <2> SUFFICES ASSUME NEW r, Reads(r) PROVE r[1] = ArrayOf(texts, n)
    OBVIOUS
  <2>1. 1 \in 1..N
    BY <1>1, <1>2
  <2>2. r[1] = ReadAt(stream, r, 1)
    BY <2>1, Zenon
  <2>3. \A i \in 1..n : r[2 * i] = BulkAt(texts, i)
    <3> SUFFICES ASSUME NEW i \in 1..n PROVE r[2 * i] = BulkAt(texts, i)
      BY Zenon
    <3>1. 2 * i \in 1..N
      BY <1>3
    <3>2. r[2 * i] = ReadAt(stream, r, 2 * i)
      BY <3>1, Zenon
    <3> QED BY <1>12, <3>2, Zenon
  <2>4. ReadArray(r, n, 2) = ArrayOf(texts, n)
    BY <1>1, <2>3, ArrayRead
  <2> QED BY <1>4, <2>2, <2>4, Zenon
<1>9. \E r : Reads(r)
  <2> DEFINE v == [i \in 1..N |-> ReadAt(stream, << >>, i)]
             w == [i \in 1..N |-> ReadAt(stream, v, i)]
  <2>1. /\ \A i \in 1..n : v[2 * i] = BulkAt(texts, i)
        /\ \A i \in 1..n : w[2 * i] = BulkAt(texts, i)
    <3> SUFFICES ASSUME NEW i \in 1..n PROVE v[2 * i] = BulkAt(texts, i) /\ w[2 * i] = BulkAt(texts, i)
      BY Zenon
    <3>1. 2 * i \in 1..N
      BY <1>3
    <3>2. v[2 * i] = ReadAt(stream, << >>, 2 * i) /\ w[2 * i] = ReadAt(stream, v, 2 * i)
      BY <3>1, Zenon
    <3> HIDE DEF v, w
    <3> QED BY <1>12, <3>2, Zenon
  <2>2. ReadArray(v, n, 2) = ArrayOf(texts, n) /\ ReadArray(w, n, 2) = ArrayOf(texts, n)
    <3> HIDE DEF v, w
    <3> QED BY <1>1, <2>1, ArrayRead
  <2>3. ReadAt(stream, v, 1) = ReadAt(stream, w, 1)
    BY <1>4, <2>2, Zenon
  <2>4. \A i \in 1..N : ReadAt(stream, v, i) = ReadAt(stream, w, i)
    <3> HIDE DEF v, w
    <3> QED BY <1>7, <2>3, Zenon
  <2>5. Reads(w)
    BY <2>4, Zenon
  <2> QED BY <2>5, Zenon
<1> DEFINE reads == CHOOSE r : Reads(r)
<1>10. ReadResp(stream) = reads[1]
  BY Zenon DEF ReadResp, N
<1>11. Reads(reads)
  <2> HIDE DEF Reads
  <2> QED BY <1>9, Zenon
<1> HIDE DEF reads, Reads
<1> QED BY <1>8, <1>10, <1>11, Zenon

LEMMA ArgumentsOf ==
  ASSUME NEW hash, NEW fields, InSomeOrder(fields, DOMAIN hash)
  PROVE  \E S : InTwos(FlattenSeq([i \in DOMAIN fields |-> <<fields[i], hash[fields[i]]>>]), S, Len(fields),
                      fields, [i \in DOMAIN fields |-> hash[fields[i]]])
<1> DEFINE m == Len(fields)
           y == [i \in DOMAIN fields |-> hash[fields[i]]]
           S == {fields[i] : i \in 1..m} \cup {y[i] : i \in 1..m}
<1>1. m \in Nat /\ DOMAIN fields = 1..m
  BY DEF InSomeOrder
<1>2. [i \in DOMAIN fields |-> <<fields[i], hash[fields[i]]>>] = [i \in 1..m |-> <<fields[i], y[i]>>]
  BY <1>1, Zenon
<1>3. \A i \in 1..m : fields[i] \in S /\ y[i] \in S
  <2> HIDE DEF y, m
  <2> QED BY Zenon
<1> HIDE DEF S, y, m
<1>4. InTwos(FlattenSeq([i \in 1..m |-> <<fields[i], y[i]>>]), S, m, fields, y)
  BY <1>1, <1>3, TwosFlat
<1>5. InTwos(FlattenSeq([i \in DOMAIN fields |-> <<fields[i], hash[fields[i]]>>]), S, m, fields, y)
  BY <1>2, <1>4, Zenon DEF y
<1> QED BY <1>5, Zenon DEF m, y

Odd(n) == {i \in 1..n : i % 2 = 1}

\* Of an array of names and values the last value of each name counts, here the only one.
IsHash(hash) == hash = [name \in DOMAIN hash |-> hash[name]]

LastOfNames(v, names) == [name \in {v[i] : i \in names} |-> v[Max({i \in names : v[i] = name}) + 1]]
Alternate(v, m, fields, hash) == \A i \in 1..m : v[2 * i - 1] = fields[i] /\ v[2 * i] = hash[fields[i]]

LEMMA PairsDecoded ==
  ASSUME NEW hash, IsHash(hash), NEW fields, InSomeOrder(fields, DOMAIN hash),
         NEW v, Alternate(v, Len(fields), fields, hash)
  PROVE  LastOfNames(v, Odd(2 * Len(fields))) = hash
<1> DEFINE m == Len(fields)
<1>0. \A i \in 1..m : v[2 * i - 1] = fields[i] /\ v[2 * i] = hash[fields[i]]
  BY Zenon DEF Alternate
<1> DEFINE names == Odd(2 * m)  of(name) == {i \in names : v[i] = name}
<1>1. /\ m \in Nat /\ DOMAIN fields = 1..m
      /\ \A i \in 1..m : fields[i] \in DOMAIN hash
      /\ \A name \in DOMAIN hash : \E i \in 1..m : \A j \in 1..m : fields[j] = name <=> j = i
  <2>1. fields \in Seq(DOMAIN hash)
    BY DEF InSomeOrder
  <2>2. m \in Nat /\ DOMAIN fields = 1..m /\ \A i \in 1..m : fields[i] \in DOMAIN hash
    BY <2>1
  <2>3. ASSUME NEW name \in DOMAIN hash
        PROVE  \E i \in 1..m : \A j \in 1..m : fields[j] = name <=> j = i
    <3>1. \E i \in DOMAIN fields : \A j \in DOMAIN fields : fields[j] = name <=> j = i
      BY Zenon DEF InSomeOrder
    <3> DEFINE D == DOMAIN fields
    <3>2. D = 1..m
      BY <2>2
    <3>3. \E i \in D : \A j \in D : fields[j] = name <=> j = i
      BY <3>1, Zenon
    <3> HIDE DEF D, m
    <3> QED BY <3>2, <3>3, Zenon
  <2> QED BY <2>2, <2>3
<1>2. /\ \A i \in 1..m : 2 * i - 1 \in names
      /\ \A k \in names : \E i \in 1..m : k = 2 * i - 1
      /\ names \subseteq 1..(2 * m) /\ 2 * m \in Nat
  <2>1. \A i \in 1..m : 2 * i - 1 \in names
    <3> SUFFICES ASSUME NEW i \in 1..m PROVE 2 * i - 1 \in 1..(2 * m) /\ (2 * i - 1) % 2 = 1
      BY Zenon DEF Odd
    <3> QED BY <1>1
  <2>2. \A k \in names : \E i \in 1..m : k = 2 * i - 1
    <3> SUFFICES ASSUME NEW k \in 1..(2 * m), k % 2 = 1 PROVE \E i \in 1..m : k = 2 * i - 1
      BY Zenon DEF Odd
    <3> DEFINE i == k \div 2 + 1
    <3>1. i \in 1..m /\ k = 2 * i - 1
      BY <1>1
    <3> HIDE DEF i
    <3> QED BY <3>1, Zenon
  <2>3. names \subseteq 1..(2 * m) /\ 2 * m \in Nat
    BY <1>1 DEF Odd
  <2> QED BY <2>1, <2>2, <2>3
<1> HIDE DEF names
<1>3. {v[i] : i \in names} = DOMAIN hash
  <2>1. ASSUME NEW k \in names PROVE v[k] \in DOMAIN hash
    <3>1. PICK i \in 1..m : k = 2 * i - 1
      BY <1>2, Zenon
    <3>2. v[2 * i - 1] = fields[i] /\ fields[i] \in DOMAIN hash
      BY <1>0, <1>1, Zenon
    <3> QED BY <3>1, <3>2, Zenon
  <2>2. ASSUME NEW name \in DOMAIN hash PROVE \E k \in names : v[k] = name
    <3>1. PICK i \in 1..m : fields[i] = name
      BY <1>1, Zenon
    <3> QED BY <1>0, <1>2, <3>1, Zenon
  <2> QED BY <2>1, <2>2, Zenon
<1>4. ASSUME NEW name \in DOMAIN hash PROVE v[Max(of(name)) + 1] = hash[name]
  <2>1. PICK i \in 1..m : \A j \in 1..m : fields[j] = name <=> j = i
    BY <1>1, Zenon
  <2>2. 2 * i - 1 \in of(name)
    BY <1>0, <1>2, <2>1, Zenon
  <2>3. \A k \in of(name) : k = 2 * i - 1
    <3> SUFFICES ASSUME NEW k \in names, v[k] = name PROVE k = 2 * i - 1
      BY Zenon
    <3>1. PICK j \in 1..m : k = 2 * j - 1
      BY <1>2, Zenon
    <3>2. fields[j] = name
      BY <1>0, <3>1, Zenon
    <3> QED BY <2>1, <3>1, <3>2, Zenon
  <2>4. Max(of(name)) \in of(name)
    <3>1. of(name) \in SUBSET (1..(2 * m)) /\ of(name) # {} /\ 2 * m \in Nat
      BY <1>2, <2>2
    <3> HIDE DEF of
    <3> QED BY <3>1, GreatestOf
  <2>5. Max(of(name)) = 2 * i - 1
    <3> HIDE DEF of
    <3> QED BY <2>3, <2>4, Zenon
  <2>6. (2 * i - 1) + 1 = 2 * i
    OBVIOUS
  <2>7. v[2 * i] = hash[name]
    BY <1>0, <2>1, Zenon
  <2> HIDE DEF of
  <2> QED BY <2>5, <2>6, <2>7, Zenon
<1>5. [name \in {v[i] : i \in names} |-> v[Max(of(name)) + 1]] = [name \in DOMAIN hash |-> hash[name]]
  BY <1>3, <1>4, Zenon
<1>6. [name \in {v[i] : i \in names} |-> v[Max(of(name)) + 1]] = hash
  BY <1>5, Zenon DEF IsHash
<1> QED BY <1>6, Zenon DEF names, m, LastOfNames

\* Whatever hash Redis holds, and in whatever order it gives the fields, the client
\* reads that very hash from the reply, byte by byte (write_command, read_resp,
\* decode_hgetall).
THEOREM HashSurvives ==
  ASSUME NEW hash, IsHash(hash),
         NEW fields, InSomeOrder(fields, DOMAIN hash)
  PROVE  DecodeHgetall(ReadResp(HashReply(hash, fields))) = {hash}
<1> DEFINE m == Len(fields)
           y == [i \in DOMAIN fields |-> hash[fields[i]]]
           texts == FlattenSeq([i \in DOMAIN fields |-> <<fields[i], hash[fields[i]]>>])
           n == Len(texts)
           reply == ArrayOf(texts, n)
           v == [i \in DOMAIN reply.payload |-> reply.payload[i].payload]
<1>1. m \in Nat /\ DOMAIN fields = 1..m
  BY DEF InSomeOrder
<1>2. PICK S : InTwos(texts, S, m, fields, y)
  BY ArgumentsOf, Zenon
<1>3. /\ texts \in Seq(S) /\ n = 2 * m
      /\ \A i \in 1..m : texts[2 * i - 1] = fields[i] /\ texts[2 * i] = y[i]
  <2> HIDE DEF texts, y, m
  <2> QED BY <1>2, Zenon DEF InTwos
<1>4. \A i \in 1..m : y[i] = hash[fields[i]]
  BY <1>1, Zenon
<1>5. HashReply(hash, fields) = WriteCommand(texts)
  BY Zenon DEF HashReply
<1> HIDE DEF texts, y
<1>6. ReadResp(WriteCommand(texts)) = reply
  BY <1>3, CommandStreams, ReadsDefined, Zenon
<1>7. reply.kind = "array" /\ reply.payload = [i \in 1..n |-> BulkAt(texts, i)]
  <2>1. reply.kind = "array"
    BY DEF ArrayOf, Resp
  <2> HIDE DEF n
  <2> QED BY <2>1, NotBroken, Zenon
<1>8. \A i : BulkAt(texts, i).kind = "bulk" /\ BulkAt(texts, i).payload = texts[i]
  BY DEF BulkAt, Resp
<1>9. n \in Nat /\ n % 2 = 0
  <2> HIDE DEF m, n
  <2> QED BY <1>1, <1>3
<1> HIDE DEF reply, n
<1>10. v = [i \in 1..n |-> texts[i]]
  BY <1>7, <1>8, Zenon
<1>11. Len(reply.payload) = n
  <2> HIDE DEF reply
  <2> QED BY <1>7, <1>9
<1>12. DecodeHgetall(reply)
         = {LastOfNames(v, Odd(n))}
  <2>1. ~(\E i \in DOMAIN reply.payload : reply.payload[i].kind # "bulk")
    <3> DEFINE values == reply.payload
    <3>1. values = [i \in 1..n |-> BulkAt(texts, i)]
      BY <1>7, Zenon
    <3> HIDE DEF values
    <3>2. \A i \in DOMAIN values : values[i].kind = "bulk"
      BY <1>8, <3>1, Zenon
    <3> QED BY <3>2, Zenon DEF values
  <2>2. reply.kind # "nil"
    BY <1>7
  <2>3. {i \in DOMAIN v : i % 2 = 1} = Odd(n)
    BY <1>10, Zenon DEF Odd
  <2>4. DecodeHgetall(reply)
         = {LastOfNames(v, {i \in DOMAIN v : i % 2 = 1})}
    BY <1>7, <1>9, <1>11, <2>1, <2>2, Zenon DEF DecodeHgetall, LastOfNames
  <2> HIDE DEF v
  <2> QED BY <2>3, <2>4, Zenon
<1>13. \A i \in 1..m : v[2 * i - 1] = fields[i] /\ v[2 * i] = hash[fields[i]]
  <2> SUFFICES ASSUME NEW i \in 1..m PROVE v[2 * i - 1] = fields[i] /\ v[2 * i] = hash[fields[i]]
    BY Zenon
  <2>1. 2 * i - 1 \in 1..n /\ 2 * i \in 1..n
    <3> HIDE DEF m
    <3> QED BY <1>1, <1>3
  <2>2. v[2 * i - 1] = texts[2 * i - 1] /\ v[2 * i] = texts[2 * i]
    <3> HIDE DEF v, m
    <3> QED BY <1>10, <2>1, Zenon
  <2> HIDE DEF v, m
  <2> QED BY <1>3, <1>4, <2>2, Zenon
<1>14. LastOfNames(v, Odd(2 * m)) = hash
  <2>1. Alternate(v, Len(fields), fields, hash)
    BY <1>13, Zenon DEF Alternate
  <2> HIDE DEF v
  <2> QED BY <2>1, PairsDecoded
<1> HIDE DEF v, m
<1> QED BY <1>3, <1>5, <1>6, <1>12, <1>14, Zenon

(***************************************************************************)
(* The engines                                                             *)
(***************************************************************************)
Copied(codec, rec, copies) == copies # {} /\ \A copy \in copies : SameRecord(codec, rec, copy)

LEMMA CopiesOf ==
  ASSUME NEW rec
  PROVE  /\ Copies("gdbm", rec) = DecodeRecord(EncodeRecord(rec))
         /\ Copies("redis_v0", rec) = RedisV0Decode(RedisV0Encode(rec))
         /\ Copies("redis", rec) =
              UNION {UNION {RedisV1Decode(hash) :
                              hash \in DecodeHgetall(ReadResp(HashReply(RedisV1Encode(rec), fields)))} :
                       fields \in Orders}
         /\ Copies("mysql", rec) =
              UNION {ParseRow(Upserted(BindStatement(SetRecord, SetValues(Word("digest"), rec)), clause)) :
                       clause \in {"insert", "update"}}
BY Zenon DEF Copies

LEMMA RedisCopied ==
  ASSUME ZoneAssumption, NEW rec \in Record
  PROVE  Copied("redis", rec, Copies("redis", rec))
<1> DEFINE hash == RedisV1Encode(rec)
           once == RedisV1Decode(hash)
           names == {Columns[i] : i \in DOMAIN Columns}
           each(fields) == UNION {RedisV1Decode(h) : h \in DecodeHgetall(ReadResp(HashReply(hash, fields)))}
<1>1. once # {} /\ \A copy \in once : SameRecord("redis", rec, copy)
  BY RecordsSurvive, Zenon
<1>2. IsHash(hash) /\ DOMAIN hash = names
  <2>1. IsHash(hash)
    BY DEF IsHash, RedisV1Encode
  <2>2. DOMAIN hash = {"r_count", "wl_count", "r_entered", "r_updated", "wl_entered", "wl_updated"}
    BY DEF RedisV1Encode
  <2>3. names = {"r_count", "wl_count", "r_entered", "r_updated", "wl_entered", "wl_updated"}
    BY DEF Columns
  <2> QED BY <2>1, <2>2, <2>3, Zenon
<1> HIDE DEF hash, once, names
<1>3. ASSUME NEW fields \in Orders
      PROVE  each(fields) = once
  <2>1. InSomeOrder(fields, DOMAIN hash)
    BY <1>2, RepliesAssumption, Zenon DEF names
  <2>2. DecodeHgetall(ReadResp(HashReply(hash, fields))) = {hash}
    BY <1>2, <2>1, HashSurvives
  <2> DEFINE copies == {RedisV1Decode(h) : h \in {hash}}
  <2>3. UNION copies = once
    BY Zenon DEF once
  <2> QED BY <2>2, <2>3, Zenon
<1>4. Orders # {}
  BY RepliesAssumption, Zenon
<1>5. Copies("redis", rec) = UNION {each(fields) : fields \in Orders}
  BY CopiesOf, Zenon DEF hash
<1> HIDE DEF each
<1>6. Copies("redis", rec) = once
  BY <1>3, <1>4, <1>5
<1> QED BY <1>1, <1>6, Zenon DEF Copied

LEMMA MySqlCopied ==
  ASSUME ZoneAssumption, NEW rec \in Record
  PROVE  Copied("mysql", rec, Copies("mysql", rec))
<1> DEFINE row == Row(rec)
           bound == BindStatement(SetRecord, SetValues(Word("digest"), rec))
           once == ParseRow(row)
<1>1. Copied("mysql", rec, once)
  BY RecordsSurvive, Zenon DEF KeptRecord, Copied
<1>2. \A clause \in {"insert", "update"} : Upserted(bound, clause) = row
  BY StatementSetsRow, Zenon
<1>3. Copies("mysql", rec) = UNION {ParseRow(Upserted(bound, clause)) : clause \in {"insert", "update"}}
  BY CopiesOf, Zenon
<1> HIDE DEF bound, row
<1>4. Copies("mysql", rec) = UNION {once : clause \in {"insert", "update"}}
  BY <1>2, <1>3, Zenon
<1>5. Copies("mysql", rec) = once
  BY <1>4, Zenon
<1> QED BY <1>1, <1>5, Zenon

\* In every zone, whatever the record and the engine, and in whatever order Redis
\* gives the fields of a hash, what is read back is the record that was stored; and
\* every day has its date, the next one the date after it, and the date its day
\* again (engines.rs, redis_engine.rs, mysql_cli.rs, local_time.rs).
THEOREM ExactSafe ==
  ASSUME ZoneAssumption
  PROVE  ConversionsSpec => []ConversionsExact
<1>1. Converted => RecordsKept
  <2> SUFFICES ASSUME Converted, Done("record") PROVE RecordsKept
    BY Zenon DEF RecordsKept
  <2>1. input \in RecordInputs /\ output = Copies(input.codec, input.rec)
    BY DEF Converted, Done
  <2> DEFINE codec == input.codec  rec == input.rec
  <2>2. codec \in {"gdbm", "redis_v0", "redis", "mysql"} /\ rec \in Record
    BY <2>1, ConversionsAssumption, Zenon
  <2> HIDE DEF codec, rec
  <2>3. Copied("gdbm", rec, Copies("gdbm", rec)) /\ Copied("redis_v0", rec, Copies("redis_v0", rec))
    <3>1. /\ KeptRecord("gdbm", rec, DecodeRecord(EncodeRecord(rec)))
          /\ KeptRecord("redis_v0", rec, RedisV0Decode(RedisV0Encode(rec)))
      BY <2>2, RecordsSurvive, Zenon
    <3>2. /\ KeptRecord("gdbm", rec, Copies("gdbm", rec))
          /\ KeptRecord("redis_v0", rec, Copies("redis_v0", rec))
      BY <3>1, CopiesOf, Zenon
    <3> QED BY <3>2, Zenon DEF KeptRecord, Copied
  <2>4. Copied("redis", rec, Copies("redis", rec))
    BY <2>2, RedisCopied, Zenon
  <2>5. Copied("mysql", rec, Copies("mysql", rec))
    BY <2>2, MySqlCopied, Zenon
  <2>6. Copied(codec, rec, Copies(codec, rec))
    BY <2>2, <2>3, <2>4, <2>5, Zenon
  <2> QED BY <2>1, <2>6, Zenon DEF RecordsKept, Copied, codec, rec
<1>2. Converted => CalendarExact
  <2> SUFFICES ASSUME Converted, Done("day") PROVE CalendarExact
    BY Zenon DEF CalendarExact
  <2> DEFINE day == CivilFromDays(input)  next == CivilFromDays(input + 1)
  <2>1. input \in Int /\ output = <<day, next>>
    BY ConversionsAssumption DEF Converted, Done
  <2>2. next = Tomorrow(day) /\ DaysFromCivil(day) = input
    BY <2>1, DatesAreDays, DaysFollow, Zenon
  <2> HIDE DEF day, next
  <2>3. output[1] = day /\ output[2] = next
    BY <2>1
  <2> QED BY <2>2, <2>3, Zenon DEF CalendarExact
<1>3. Converted => ConversionsExact
  BY <1>1, <1>2 DEF ConversionsExact
<1> QED BY <1>3, ConvertedAlways, PTL
=============================================================================
