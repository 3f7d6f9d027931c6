-------------------------------- MODULE Wire ---------------------------------
(* A message as headers, as the text of a packet and as what a signature        *)
(* covers: src/src/message.rs, sign and verify of src/src/account.rs, and       *)
(* clean_legacy_packet of src/src/server.rs.  A text is a sequence of lines and *)
(* line ends; a header is a name and the lines of its value.  A name stands for *)
(* all its spellings, the hash of the code is taken as injective.               *)
EXTENDS Integers, Texts, Sifting, SequencesExt

CONSTANTS
    MaxTimestampDifference,
    Width           \* bits of a timestamp, 64 in the code

ASSUME WireAssumption == Width \in Nat \ {0} /\ MaxTimestampDifference \in Nat

(***************************************************************************)
(* Headers                                                                 *)
(***************************************************************************)
Header(name, word) == <<name, <<word>>>>

\* Where the headers of this name are.
Places(msg, name) == {i \in DOMAIN msg : msg[i][1] = name}
Has(msg, name) == Places(msg, name) # {}
FirstOf(msg, name) == msg[Min(Places(msg, name))][2]
GetAll(msg, name) ==
    LET named == Sift(msg, {msg[i] : i \in Places(msg, name)})
    IN [i \in DOMAIN named |-> named[i][2]]
AddHeader(msg, name, word) == Append(msg, Header(name, word))
SetHeader(msg, name, word) ==
    IF Has(msg, name) THEN ReplaceAt(msg, Min(Places(msg, name)), Header(name, word))
    ELSE AddHeader(msg, name, word)
RemoveAll(msg, name) == Sift(msg, {msg[i] : i \in DOMAIN msg \ Places(msg, name)})

Threaded(msg) == Has(msg, "PV") /\ Has(msg, "Thread")
IsRequest(msg) == Has(msg, "Op") /\ Threaded(msg)
IsResponse(msg) == Has(msg, "Code") /\ Has(msg, "Diag") /\ Threaded(msg)
IsOk(msg) == Has(msg, "Code") /\ FirstOf(msg, "Code") = <<Number(200)>>

(***************************************************************************)
(* Requests and responses                                                  *)
(***************************************************************************)
Request(op) == <<Header("Op", op)>>
DigestRequest(op, digest) == AddHeader(Request(op), "Op-Digest", digest)
SpecDigestRequest(op, digest, spec) == AddHeader(DigestRequest(op, digest), "Op-Spec", spec)
\* BatchClient::add_digest: the specification comes first.
BatchRequest(op, spec, digests) ==
    AddHeader(Request(op), "Op-Spec", spec)
      \o [i \in DOMAIN digests |-> Header("Op-Digest", digests[i])]

InitForSending(msg, thread, version) ==
    SetHeader(IF Has(msg, "Thread") THEN msg ELSE AddHeader(msg, "Thread", Number(thread)),
              "PV", version)

\* response(): a request without a thread is answered without one.
ResponseTo(msg, version) ==
    <<Header("Code", Number(200)), Header("Diag", Word("OK")), Header("PV", version)>>
      \o [i \in 1..(IF Has(msg, "Thread") THEN 1 ELSE 0) |-> <<"Thread", FirstOf(msg, "Thread")>>]
ErrorResponse(response, code, diag) ==
    SetHeader(SetHeader(response, "Code", Number(code)), "Diag", diag)

(***************************************************************************)
(* Texts                                                                   *)
(***************************************************************************)
NewLine == [kind |-> "newline"]
CarriageReturn == [kind |-> "crlf"]   \* \r\n and a lone \r
HeaderLine(name, word) == [kind |-> "header", name |-> name, word |-> word]
Folded(word) == [kind |-> "folded", word |-> word]
Other(word) == [kind |-> "other", word |-> word]   \* without a colon

\* The first line of a value follows its name, the others are printed bare.
HeaderText(header) ==
    FlattenSeq([i \in DOMAIN header[2] |->
      <<IF i = 1 THEN HeaderLine(header[1], header[2][1]) ELSE Other(header[2][i]), NewLine>>])
AsString(msg) == FlattenSeq([i \in DOMAIN msg |-> HeaderText(msg[i])]) \o <<NewLine>>

IsBreak(token) == token.kind \in {"newline", "crlf"}
\* The line breaks that end an empty line.
EmptyLines(text) == {i \in DOMAIN text : IsBreak(text[i]) /\ (i = 1 \/ IsBreak(text[i - 1]))}

AddLine(msg, line) ==
    IF line.kind = "header" THEN Append(msg, Header(line.name, line.word))
    ELSE IF line.kind = "folded" /\ msg # << >>
    THEN [msg EXCEPT ![Len(msg)] = <<@[1], Append(@[2], line.word)>>]
    ELSE msg
HeadersOf(lines) ==
    LET msg[n \in 0..Len(lines)] == IF n = 0 THEN << >> ELSE AddLine(msg[n - 1], lines[n])
    IN msg[Len(lines)]
Parse(text) ==
    HeadersOf(IF EmptyLines(text) = {} THEN text ELSE SubSeq(text, 1, Min(EmptyLines(text)) - 1))

\* Mutant: the packet is taken as it comes.
AsItComes(packet) == Append(packet, NewLine)
\* Of two newlines in a row the second is dropped, then the next pair is looked for.
Cleaned(acc, token) ==
    IF token = NewLine /\ acc.paired THEN [acc EXCEPT !.paired = FALSE]
    ELSE [out |-> Append(acc.out, token), paired |-> token = NewLine]
CleanLegacyPacket(packet) ==
    LET acc[n \in 0..Len(packet)] ==
          IF n = 0 THEN [out |-> << >>, paired |-> FALSE] ELSE Cleaned(acc[n - 1], packet[n])
    IN Append(acc[Len(packet)].out, NewLine)

\* The packet of a client that says every newline twice.
Twice(token) == IF token = NewLine THEN <<NewLine, NewLine>> ELSE <<token>>
Doubled(packet) == FlattenSeq([i \in DOMAIN packet |-> Twice(packet[i])])

(***************************************************************************)
(* Signatures                                                              *)
(***************************************************************************)
Trim(text) == SubSeq(text, 1, Max({0} \cup {i \in DOMAIN text : ~IsBreak(text[i])}))
HashKey(key, user) == [key |-> key, user |-> user]
SignMsg(hashed, timestamp, msg) ==
    [form |-> "sig", hashed |-> hashed, time |-> timestamp, text |-> Trim(AsString(msg))]

SignForAccount(msg, account, timestamp) ==
    LET named == SetHeader(SetHeader(msg, "User", account.user), "Time", Number(timestamp))
    IN SetHeader(named, "Sig", SignMsg(HashKey(account.key, <<account.user>>), timestamp, named))

Wrapped(n) == ((n + 2^(Width - 1)) % 2^Width) - 2^(Width - 1)
Abs(n) == IF n < 0 THEN -n ELSE n
Overflows(now, timestamp) ==
    \/ Wrapped(now - timestamp) # now - timestamp
    \/ now - timestamp = -(2^(Width - 1))
\* In a build without checks the absolute value of the least integer is itself.
Distance(now, timestamp) == Wrapped(Abs(Wrapped(now - timestamp)))

\* "ok", "refused" or "panic", in a build that checks integers for overflow or not
VerifySignature(msg, key, now, checks) ==
    LET timestamp == FirstOf(msg, "Time")[1].n
        parses == /\ \A name \in {"Time", "User", "Sig"} : Has(msg, name)
                  /\ Len(FirstOf(msg, "Time")) = 1 /\ FirstOf(msg, "Time")[1].form = "number"
    IN IF ~parses THEN "refused"
       ELSE IF checks /\ Overflows(now, timestamp) THEN "panic"
       ELSE IF /\ Distance(now, timestamp) <= MaxTimestampDifference
               /\ FirstOf(msg, "Sig") = <<SignMsg(HashKey(key, FirstOf(msg, "User")), timestamp,
                                                  RemoveAll(msg, "Sig"))>>
            THEN "ok" ELSE "refused"
=============================================================================
