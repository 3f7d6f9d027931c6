----------------------------- MODULE Conversions ------------------------------
(* Conversions that change no state, as a state machine: a topic and an input   *)
(* are chosen, and Convert computes what the code makes of it.  The topics are  *)
(* a record in the store of an engine, a day and its date, the access file, the *)
(* servers and accounts of a client, and a signed request on its way to the     *)
(* server.                                                                      *)
EXTENDS Configuration, Wire, Replies

CONSTANTS
    RecordInputs, \* [codec, rec], an engine and a record
    Days,         \* days since the epoch
    AclInputs,    \* [passwd, access], two files
    People,       \* the users asked about
    FileInputs,   \* [file, lines], a servers or an accounts file
    WireInputs,   \* [msg, account, signed, damage, place, key, now, checks]
    None          \* no output yet

VARIABLES topic, input, output

conversionVars == <<topic, input, output>>

Damages == {"none", "doubled", "crlf", "noise", "lost", "repeated", "blanks"}

Loaded(in) == IF in.file = "servers" THEN LoadServers(in.lines) ELSE LoadAccounts(in.lines)

(***************************************************************************)
(* A signed request on its way                                             *)
(***************************************************************************)
Sent(in) == SignForAccount(in.msg, in.account, in.signed)

\* What stands where the line at the beginning of after stood: a line without a
\* colon or two empty ones before it, the line twice, or the line no more.
FirstLine(after) == SubSeq(after, 1, 2)
Instead(damage, after) ==
    IF damage = "noise" THEN <<Other(Word("noise")), NewLine>> \o after
    ELSE IF damage = "blanks" THEN <<NewLine, NewLine>> \o after
    ELSE IF damage = "repeated" THEN FirstLine(after) \o after
    ELSE IF damage = "lost" THEN SubSeq(after, 3, Len(after))
    ELSE after

Crlf(token) == IF token = NewLine THEN CarriageReturn ELSE token
\* Or every newline comes twice, or the line ends are those of another system.
Damaged(in, text) ==
    IF in.damage = "doubled" THEN Doubled(text)
    ELSE IF in.damage = "crlf" THEN [i \in DOMAIN text |-> Crlf(text[i])]
    ELSE LET line == 2 * in.place - 1     \* each line is followed by a newline
         IN SubSeq(text, 1, line - 1) \o Instead(in.damage, SubSeq(text, line, Len(text)))

\* Without a user a request is anonymous, and nobody looks at its signature.
IsAnonymous(msg) == ~Has(msg, "User") \/ FirstOf(msg, "User") = <<Word("anonymous")>>
Verdict(msg, in) ==
    IF IsAnonymous(msg) THEN "anonymous" ELSE VerifySignature(msg, in.key, in.now, in.checks)
\* What the client reads of the answer, when nothing but the signature is wrong.
Reply(msg, verdict) ==
    LET sent == ResponseTo(msg, Word("2.1"))
        error == ErrorResponse(sent, IF verdict = "panic" THEN 500 ELSE 401, Word("why"))
    IN Parse(AsString(IF verdict \in {"refused", "panic"} THEN error ELSE sent))

\* really_handle as far as the signature goes.
Received(in) ==
    LET msg == Parse(CleanLegacyPacket(Damaged(in, AsString(Sent(in)))))
        verdict == Verdict(msg, in)
    IN [msg |-> msg, verdict |-> verdict, answer |-> Reply(msg, verdict)]

IsMessage(msg) == IsSequence(msg) /\ \A i \in DOMAIN msg : msg[i] = Header(msg[i][1], msg[i][2][1])

ASSUME ConversionsAssumption ==
    /\ \A in \in RecordInputs : in.codec \in {"gdbm", "redis_v0", "redis", "mysql"} /\ in.rec \in Record
    /\ Days \subseteq Int
    /\ \A in \in AclInputs : IsSequence(Lines(in.passwd)) /\ IsSequence(Lines(in.access))
    /\ \A in \in FileInputs : IsSequence(Lines(in.lines))
    /\ \A in \in WireInputs :
         /\ IsMessage(in.msg) /\ ~Has(in.msg, "Sig") /\ ~Has(in.msg, "Time")
         /\ in.damage \in Damages /\ in.place \in 1..Len(Sent(in))
         /\ in.now \in 0..(2^(Width - 1) - 1) /\ in.checks \in BOOLEAN
         /\ in.signed \in (-(2^(Width - 1)))..(2^(Width - 1) - 1)

(***************************************************************************)
(* The state machine                                                       *)
(***************************************************************************)
ConversionsInit ==
    /\ output = None
    /\ \/ topic = "record" /\ input \in RecordInputs
       \/ topic = "day" /\ input \in Days
       \/ topic = "access" /\ input \in AclInputs
       \/ topic = "file" /\ input \in FileInputs
       \/ topic = "wire" /\ input \in WireInputs

Convert(about, result) ==
    /\ topic = about /\ output = None
    /\ output' = result
    /\ UNCHANGED <<topic, input>>

ConversionsNext ==
    \/ Convert("record", Copies(input.codec, input.rec))
    \/ Convert("day", <<CivilFromDays(input), CivilFromDays(input + 1)>>)
    \/ Convert("access", LoadAccessFile(input.access, LoadPasswdFile(input.passwd)))
    \/ Convert("file", Loaded(input))
    \/ Convert("wire", Received(input))

ConversionsSpec == ConversionsInit /\ [][ConversionsNext]_conversionVars

(***************************************************************************)
(* Properties                                                              *)
(***************************************************************************)
Done(about) == topic = about /\ output # None

\* What an engine stores of a record is read again as the same record, in
\* whatever order a hash comes back; only a time of the hour that the clocks
\* repeat may come back as the other one with the same reading (the encodings
\* of engines.rs, redis_engine.rs, mysql_cli.rs).
RecordsKept ==
    Done("record") =>
        output # {} /\ \A copy \in output : SameRecord(input.codec, input.rec, copy)

\* civil_from_days counts the days of the Gregorian calendar, and
\* days_from_civil takes each of them back.
CalendarExact ==
    Done("day") => output[2] = Tomorrow(output[1]) /\ DaysFromCivil(output[1]) = input

\* Times and records survive being written as text and read again.
ConversionsExact == RecordsKept /\ CalendarExact

Said(words, name) == \E word \in words : Lower(word) = name
AllSaid(words) == words # {} /\ \A word \in words : Lower(word) = "all"
Spelled(users) == {users[i][1] : i \in {j \in DOMAIN users : Len(users[j]) = 2}}
RulesAbout(rules, users, user, op) ==
    {i \in DOMAIN rules :
       LET line == rules[i]
       IN /\ Len(line) = 3 /\ line[3] \in {"allow", "deny"}
          /\ IF AllSaid(line[2]) THEN user \in Spelled(users) ELSE Said(line[2], user)
          /\ AllSaid(line[1]) \/ Said(line[1], op)}

\* A user may do an operation exactly if the last line of the access file that
\* names both allows it: a name counts in lower case, "all" stands for the users
\* of the passwd file as they are spelled there and never for the anonymous one,
\* and without a file only the default remains (load_access_file).
AclLastLineDecides ==
    Done("access") =>
        \A user \in People, op \in AllOps :
            LET rules == Lines(input.access)
                about == RulesAbout(rules, Lines(input.passwd), user, op)
            IN (user \in DOMAIN output /\ op \in output[user])
                 <=> IF input.access = Missing THEN user = Anonymous /\ op # "whitelist"
                     ELSE about # {} /\ rules[Max(about)][3] = "allow"

UsableServers(lines) ==
    {i \in DOMAIN lines : Len(lines[i]) = 2 /\ lines[i][1] # "" /\ lines[i][2] # NotNumber}
AskedInOrder(servers, lines) ==
    LET usable == UsableServers(lines)
    IN IF usable = {} THEN servers = <<PublicServer>>
       ELSE /\ Len(servers) = Cardinality(usable)
            /\ \A i \in usable : servers[Cardinality({j \in usable : j <= i})] = lines[i]

UsableAccounts(lines) ==
    {i \in DOMAIN lines : /\ Len(lines[i]) = 4 /\ lines[i][2] # NotNumber
                          /\ Len(lines[i][4]) = 2 /\ lines[i][4] # <<"", "">>}
SignedByLast(accounts, lines) ==
    LET usable == UsableAccounts(lines)
        address(i) == <<lines[i][1], lines[i][2]>>
    IN /\ DOMAIN accounts = {address(i) : i \in usable}
       /\ \A i \in usable :
            LET last == lines[Max({j \in usable : address(j) = address(i)})]
            IN accounts[address(i)] = [user |-> last[3], salt |-> last[4][1], key |-> last[4][2]]

\* A client is never without a server, and asks those of its file in their order;
\* it signs for a server by the last usable line of that very host and port.
ServersAndAccounts ==
    Done("file") => IF input.file = "servers" THEN AskedInOrder(output, Lines(input.lines))
                    ELSE SignedByLast(output, Lines(input.lines))

\* The files of a home directory are read as their lines say.
FilesDecide == AclLastLineDecides /\ ServersAndAccounts

\* Whether the request arrives as it was sent; only the last header, the signature,
\* may be said twice.
Intact(in) ==
    \/ in.damage \in {"none", "doubled", "crlf", "noise"}
    \/ in.damage = "repeated" /\ in.place = Len(Sent(in))

\* The server takes a request for one of its user exactly if it came with the
\* headers it was sent with, in time and for the key of its account, however its
\* lines end (clean_legacy_packet, sign_for_account, verify_signature); it takes
\* one that came so for an anonymous one only if that is how it was sent.  Times that
\* are half the range of an integer apart, or nearly all of it, a build without
\* overflow checks takes for close ones, and a build with them panics.  The client
\* can read the answer exactly if its thread reached the server.
RequestSurvivesWire ==
    Done("wire") =>
        LET half == 2^(Width - 1)
            late == input.now - input.signed
            near == \/ late <= MaxTimestampDifference /\ -late <= MaxTimestampDifference
                    \/ late = half
                    \/ 2 * half - late <= MaxTimestampDifference
            overflows == input.checks /\ late >= half
            answer == output.answer
            threaded == Has(output.msg, "Thread")
            named == input.account.user # Word("anonymous")
        IN /\ output.verdict = "ok" <=> /\ Intact(input) /\ named /\ input.key = input.account.key
                                        /\ near /\ ~overflows
           /\ Intact(input) => (output.verdict = "anonymous" <=> ~named)
           /\ output.verdict = "ok" => RemoveAll(output.msg, "Sig") = RemoveAll(Sent(input), "Sig")
           /\ output.verdict = "panic" => overflows
           /\ IsResponse(answer) <=> threaded
           /\ threaded => FirstOf(answer, "Thread") = FirstOf(output.msg, "Thread")
           /\ IsOk(answer) <=> output.verdict \in {"ok", "anonymous"}
=============================================================================
