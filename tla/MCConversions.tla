---------------------------- MODULE MCConversions -----------------------------
(* The start of the two programs, and the conversions that change no state: a   *)
(* topic and an input are chosen, Convert computes what the code makes of it.   *)
EXTENDS Startup, Conversions

CONSTANTS alice, Bob, carol

Mail == INSTANCE Mails

ASSUME ZoneAssumption

MCZone == <<[from |-> 0, offset |-> 3600], [from |-> 1679792400, offset |-> 7200],
            [from |-> 1698541200, offset |-> 3600]>>
MCOrders == {Columns, Reverse(Columns)}

(***************************************************************************)
(* Records and days                                                        *)
(***************************************************************************)
\* Around the end of summer time of 2023, a second of the repeated hour
\* included, the beginning of the epoch and a leap day.
Instants == {None, 0, 951782399, 1690000000, 1698541199, 1698541200, 1698544800}
MCRecordInputs ==
    {[codec |-> c,
      rec |-> [r_count |-> n, wl_count |-> 9 - n, r_entered |-> t, r_updated |-> u,
               wl_entered |-> u, wl_updated |-> t]] :
       c \in {"gdbm", "redis", "redis_v0", "mysql"}, n \in {0, 4}, t \in Instants, u \in Instants}
MCDays == UNION {(c - 2)..(c + 2) : c \in {-719468, -719528, -1, 59, 789, 11016, 47540}}

(***************************************************************************)
(* Access files                                                            *)
(***************************************************************************)
Passwd == {Missing, << >>, <<<<alice, 1>>, <<Bob, 1>>, <<alice, 2>>>>}
Who == {{"all"}, {Bob}, {alice, Anonymous}}
AccessLines ==
    {<<ops, who, verdict>> : ops \in {{"all"}, {"check", "report"}, {"check"}}, who \in Who,
                             verdict \in {"allow", "deny"}}
      \cup {<< >>, <<{"all"}, {Bob}, "other">>, <<{"all"}, {Bob}>>}
MCAclInputs ==
    {[passwd |-> p, access |-> a] :
       p \in Passwd, a \in {Missing} \cup UNION {[1..n -> AccessLines] : n \in 0..3}}
MCLowerCase == (Bob :> "bob")
MCPeople == {alice, Bob, Lower(Bob), carol, Anonymous}

(***************************************************************************)
(* Servers and accounts                                                    *)
(***************************************************************************)
ServerLines == {<<"h", 1>>, <<"g", 2>>, <<"", 3>>, <<"h", NotNumber>>, <<"h">>, << >>}
AccountLines ==
    {<<"h", 1, alice, key>> : key \in {<<"", "k1">>, <<"s", "k2">>, <<"k1">>, <<"", "">>}}
      \cup {<<"g", 2, Bob, <<"", "k1">>>>, <<"h", NotNumber, Bob, <<"", "k1">>>>, <<"h", 1>>}
MCFileInputs ==
    {[file |-> "servers", lines |-> f] : f \in {Missing} \cup UNION {[1..n -> ServerLines] : n \in 0..3}}
      \cup {[file |-> "accounts", lines |-> f] :
               f \in {Missing} \cup UNION {[1..n -> AccountLines] : n \in 0..3}}

(***************************************************************************)
(* Signed requests on the wire                                             *)
(***************************************************************************)
Requests ==
    {InitForSending(request, 1024, Word("2.1")) :
       request \in {SpecDigestRequest("report", Word("a"), Word("spec")),
                    BatchRequest("report", Word("spec"), <<Word("a"), Word("b")>>)}}
MCWireInputs ==
    {in \in [msg : Requests, account : {[user |-> Word(name), key |-> "key"] : name \in {"alice", "anonymous"}},
             signed : {-16, -13, 0, 1, 5, 6, 15}, damage : Damages, place : 1..8,
             key : {"key", "other"}, now : {3, 14}, checks : BOOLEAN] :
       in.place <= Len(Sent(in))}

(***************************************************************************)
(* Mails                                                                   *)
(***************************************************************************)
Plain(i, size) == <<"plain", i, size>>
Body(n) == [i \in 1..n |-> <<Plain(i, 5), Plain(100 + i, 5)>>]
MailHeader(name, word) == <<<<"name", name>>, word>>
Subject == MailHeader("Subject", Plain(1, 9))
TypeLine(main, sub) == MailHeader("Content-Type", <<"media", main, sub>>)
ManyParts(b) == <<TypeLine("multipart", "mixed"), <<<<"indent">>, <<"boundary", b>>>>, << >>>>
Marker(b) == <<<<<<"marker", b>>>>>>
Closing(b) == <<<<<<"closing", b>>>>>>
NoiseOf(line) ==
    <<<<Plain(50, 7)>>, << >>, <<<<"email">>, line[1], <<"url">>, Plain(51, 10), line[2]>>>>

\* The same body in every form a mail may have.
MailOf(n, form) ==
    LET body == Body(n)
        half == n \div 2
        head == <<Subject, << >>>>
    IN CASE form = "bare" -> body
         [] form = "plain" -> head \o body
         [] form = "headers" -> <<<<<<"indent">>, Plain(2, 9)>>, <<Plain(3, 9)>>, Subject,
                                  <<<<"indent">>, Plain(4, 9)>>, TypeLine("text", "plain"), << >>>> \o body
         [] form = "noise" -> head \o FlattenSeq([i \in 1..n |-> NoiseOf(body[i])])
         [] form = "quoted" -> <<MailHeader("Content-Transfer-Encoding", <<"encoding", "quoted-printable">>), << >>>>
                                 \o FlattenSeq([i \in 1..n |-> <<<<body[i][1], <<"soft">>>>, <<body[i][2]>>>>])
         [] form = "html" -> <<TypeLine("text", "html"), << >>, <<<<"tag", "style">>, Plain(5, 9)>>,
                               <<<<"tag", "b">>, Plain(6, 9), <<"endtag", "style">>, <<"tag", "body">>>>>>
                               \o body \o <<<<<<"endtag", "body">>>>>>
         [] form \in {"parts", "broken"} ->
              LET end(b) == IF form = "parts" THEN Closing(b) ELSE << >>
                  inner == ManyParts("c") \o Marker("c") \o <<TypeLine("text", "plain"), << >>>>
                             \o SubSeq(body, half + 1, n) \o end("c")
              IN ManyParts("b") \o <<<<Plain(7, 9)>>>> \o Marker("b") \o head \o SubSeq(body, 1, half)
                   \o Marker("b") \o inner \o end("b")
                   \o (IF form = "parts" THEN <<<<Plain(8, 9)>>>> ELSE << >>)
Forms == {"bare", "plain", "headers", "noise", "quoted", "html", "parts", "broken"}
MailInputs == {[lines |-> n, form |-> f, style |-> s] : n \in 1..12, f \in Forms, s \in {"msg", "mbox"}}
FromLine == <<<<<<"From", 0, 4>>, <<"email">>>>>>
MailText(in) ==
    (IF in.style = "msg" THEN MailOf(in.lines, in.form)
     ELSE FromLine \o MailOf(in.lines, in.form) \o FromLine \o MailOf(2, "plain")) \o <<<< >>>>

(***************************************************************************)
(* Start-up                                                                *)
(***************************************************************************)
Long(option, inline) ==
    [kind |-> "long", options |-> {option}, exact |-> TRUE, inline |-> inline, value |-> Text("long")]
MCWord(w) == [kind |-> "word", options |-> {}, exact |-> FALSE, inline |-> << >>, value |-> Text(w)]
Beginning(options) ==
    [kind |-> "long", options |-> options, exact |-> FALSE, inline |-> << >>, value |-> Text("short")]
DashDash == [kind |-> "--", options |-> {}, exact |-> FALSE, inline |-> << >>, value |-> Text("--")]
Whole2 == [kind |-> "word", options |-> {}, exact |-> FALSE, inline |-> << >>, value |-> Integer(2)]

CommandLine(prog, arguments) == [program |-> prog, args |-> arguments]
MCCommandLines ==
    {CommandLine("ruzord", << >>),
     CommandLine("ruzord", <<Long("--threads", <<Text("true")>>), Beginning({"--detach"}), MCWord("out")>>),
     CommandLine("ruzord", <<Long("--database-engine", <<Text("mysql")>>), Beginning({"--pre-fork"}), Whole2>>),
     CommandLine("ruzord", <<Long("--proxy-source", <<List(<<<<"first">>>>)>>), Long("--detach", <<Text("out")>>)>>),
     CommandLine("ruzord", <<Long("--address", << >>), Long("--threads", <<Text("true")>>)>>),
     CommandLine("ruzord", <<Long("--database-engine", <<Text("mysql")>>), Long("--processes", <<Text("true")>>),
                      Long("--detach", <<Text("out")>>)>>),
     CommandLine("ruzord", <<Beginning({"--max-threads", "--max-processes"}), Whole2>>),
     CommandLine("ruzord", <<Long("--pre-fork", <<Integer(1)>>)>>),
     CommandLine("ruzord", <<Long("--database-engine", <<Text("redis_v0")>>),
                      Long("--dsn", <<List(<<"", "6379", "", "", "someone">>)>>)>>),
     CommandLine("ruzord", <<Long("--version", << >>), DashDash, MCWord("rest")>>),
     CommandLine("ruzord", <<Long("--homedir", <<[form |-> "", names |-> <<"elsewhere">>]>>),
                      Long("--detach", <<Text("out")>>)>>),
     CommandLine("ruzor", << >>),
     CommandLine("ruzor", <<Long("--timeout", <<Text("soon")>>), MCWord("check")>>),
     CommandLine("ruzor", <<Long("--debug", <<Text("yes")>>)>>),
     CommandLine("ruzor", <<Beginning({"--timeout"}), Whole2, DashDash, MCWord("check")>>),
     CommandLine("ruzor", <<Long("--style", << >>), DashDash, MCWord("check")>>),
     CommandLine("ruzor", <<Long("--detach", <<Text("out")>>), MCWord("check")>>)}
Proxies == List(<<<<"a", 1>>, <<"">>, <<"b", NotNumber>>, <<"c">>>>)
Key(name, value) == <<"=", name, value>>
MCConfigFiles ==
    {Missing,
     <<Key("--address", Text("nowhere")), <<"[", "server">>, Key("--address", Text("one")), << >>,
       <<"[", "client">>, Key("--timeout", Integer(9)),
       <<"[", "server">>, Key("--address", Text("two"))>>,
     <<<<"[", "server">>, Key("--proxy-source", List(<<<<"third">>>>)), Key("proxysources", Proxies)>>,
     <<<<"[", "server">>, Key("--database-engine", Text("redis")), Key("--cleanup-age", Text("never"))>>,
     <<<<"[", "server">>, Key("--password-file", [form |-> "~", names |-> <<"passwd">>]),
       Key("--max-threads", Text("many"))>>,
     <<<<"[", "server">>, Key("--processes", Text("true")), Key("--pre-fork", Integer(3)),
       Key("--dsn", List(<<"h", "u", "p", "db", "t">>))>>,
     <<<<"[", "server">>, Key("--forward-client-homedir", Text("client"))>>,
     <<<<"[", "server">>, Key("--database-engine", Text("sqlite"))>>}
MCHomes == {[form |-> "/", names |-> <<"home">>]}
MCHome == [form |-> "/", names |-> <<"root">>]

(***************************************************************************)
(* The state machine                                                       *)
(***************************************************************************)
Init ==
    \/ topic = "startup" /\ input = None /\ output = None /\ StartInit
    \/ /\ StartInit /\ program = "ruzord" /\ args = << >> /\ section = << >>
       /\ \/ ConversionsInit
          \/ /\ output = None
             /\ topic = "mail" /\ input \in MailInputs

Next ==
    \/ /\ \/ ConversionsNext
          \/ Convert("mail", Mail!InputPredigests(input.style, MailText(input)))
       /\ UNCHANGED startVars
    \/ topic = "startup" /\ StartNext /\ UNCHANGED conversionVars

Spec == Init /\ [][Next]_<<conversionVars, startVars>>

(***************************************************************************)
(* Properties                                                              *)
(***************************************************************************)
\* A mail has the predigest of its text alone: all of up to four lines, else
\* three from each of two places.  Neither other headers, short lines, addresses,
\* links and long words, nor the encoding, HTML around it, parts within parts and
\* an end that is missing change it, nor the mails next to it in an mbox
\* (predigest_with_spec, split_mbox).
MailsAlike ==
    Done("mail") =>
        LET n == input.lines
            places == IF n <= 4 THEN [i \in 1..n |-> i]
                      ELSE <<n \div 5 + 1, n \div 5 + 2, n \div 5 + 3, (3 * n) \div 5 + 1,
                             (3 * n) \div 5 + 2, (3 * n) \div 5 + 3>>
            within == SelectSeq(places, LAMBDA i : i <= n)
            expected == [i \in DOMAIN within |-> Body(n)[within[i]]]
        IN output = IF input.style = "msg" THEN <<expected>> ELSE <<expected, Body(2)>>

\* What the README says of the paths in a configuration file: a server has them in
\* its home directory, unless they are absolute.  The home of the forwarder's client
\* stays as it is written (expand_config_paths).
ConfigPathsInHome ==
    phase = "serving" =>
        \A s \in (PathSettings \cup {"--forward-client-homedir"}) \ given :
            KeysOf(s) # {} =>
                \E key \in KeysOf(s) :
                    config[s] = ExpandHomefile(config["--homedir"], section[key], HOME)
=============================================================================
