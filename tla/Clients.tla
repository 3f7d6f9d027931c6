------------------------------- MODULE Clients -------------------------------
(* Runs of the command line client (src/src/bin/ruzor.rs) against the servers  *)
(* of its servers file, over a network that loses, delays, reorders and        *)
(* duplicates datagrams.  Each call of a command to a server is one signed     *)
(* request from a socket of its own, whose port a later call may get again,    *)
(* and one datagram read as the answer (client.rs).  Runs on one host share    *)
(* the ports and the file of the local whitelist, which a command reads as a   *)
(* whole and writes back as a whole (config.rs).  A server verifies a request  *)
(* and counts and answers it later; what happens inside is the subject of      *)
(* Server.                                                                     *)
EXTENDS Integers, Sequences, FiniteSets

CONSTANTS
    Clients, Ports,
    Servers,      \* load_servers of each client, a sequence
    Digests,
    Lines,        \* the runs the clients may be together, each the commands [op, digests],
                  \* "anonymous", "account" or "stranger", its clock against the servers'
    EmptyInput,   \* the digests of an input at its end (input_digests)
    Window,       \* MAX_TIMESTAMP_DIFFERENCE
    OkMin,        \* ThreadId::OK_MIN
    ErrorIds,     \* thread ids below it that other servers put on their refusals
    Threshold, WlThreshold,  \* --report-threshold, --whitelist-threshold
    Copies,       \* bound: how often the one request that is repeated is delivered
    Waiting,      \* bound: how many deliveries wait for a database at a time
    Horizon       \* bound: the servers' clock stops here

Hosts == UNION {{Servers[c][i] : i \in DOMAIN Servers[c]} : c \in Clients}

ASSUME ClientsAssumption ==
    /\ {Window, OkMin, Threshold, WlThreshold, Copies, Waiting, Horizon} \subseteq Nat
    /\ \A t \in ErrorIds : t \in Nat /\ t < OkMin
    /\ \A f \in Lines : \A c \in Clients :
         /\ f[c].commands \in Seq([op : STRING, digests : Seq(Digests)])
         /\ f[c].user \in {"anonymous", "account", "stranger"} /\ f[c].skew \in Int
    /\ Digests # {} /\ EmptyInput \in Seq(Digests)
    /\ \A c \in Clients : Servers[c] \in Seq(Hosts)

Calls == {"ping", "pong", "check", "info", "report", "whitelist"}
Verdicts == {"check", "pong"}
LocalEdits == {"local_whitelist", "local_unwhitelist"}
NoAnswer == [code |-> 0, r |-> 0, wl |-> 0]

VARIABLES
    clock,
    line,     \* the run each client is
    pc,       \* "command", "call", "waiting", "loaded", "writing", "done"
    nth,      \* the command a run is at
    turn,     \* the call of that command
    fed,      \* an earlier command of the run has read stdin
    exitCode,
    allOk, foundHit, whitelisted,   \* what the command has found so far
    local,    \* the local whitelist as the command loaded it
    socket,   \* the port and the request of the call under way
    listFile, \* the file of the local whitelist
    sent,     \* every request sent, with what is left to deliver of it
    served,   \* the deliveries a server has verified and not yet answered
    answers,  \* every answer sent
    counts,   \* the counters of each server and digest
    credited, \* history: the deliveries some server counted, and when
    intended, \* history: the local whitelist when each edit is done at once
    spoiled   \* history: a command used that file while another edited it, or broke off

runVars == <<pc, nth, turn, fed, exitCode, allOk, foundHit, whitelisted, local, socket>>
fileVars == <<listFile, intended, spoiled>>
netVars == <<sent, answers>>
serverVars == <<served, counts, credited>>
cvars == <<clock, line, runVars, fileVars, netVars, serverVars>>

CInit ==
    /\ clock = 1
    /\ line \in Lines
    /\ pc = [c \in Clients |-> "command"]
    /\ nth = [c \in Clients |-> 1] /\ turn = [c \in Clients |-> 1]
    /\ fed = [c \in Clients |-> FALSE]
    /\ exitCode = [c \in Clients |-> 0]
    /\ allOk = [c \in Clients |-> TRUE]
    /\ foundHit = [c \in Clients |-> FALSE] /\ whitelisted = [c \in Clients |-> FALSE]
    /\ local = [c \in Clients |-> {}]
    /\ socket = [c \in Clients |-> [port |-> "none", number |-> 0]]
    /\ listFile = {} /\ intended = {} /\ spoiled = FALSE
    /\ sent = {} /\ answers = {} /\ served = {} /\ credited = {}
    /\ counts = [s \in Hosts |-> [d \in Digests |-> [r |-> 0, wl |-> 0]]]

(***************************************************************************)
(* The run                                                                 *)
(***************************************************************************)
Command(c) == line[c].commands[nth[c]]
ReadsStdin(op) == op \in (Calls \ {"ping"}) \cup LocalEdits \cup {"digest", "predigest"}
\* stdin is read to its end by the first command that reads it.
Input(c) == IF fed[c] THEN EmptyInput ELSE Command(c).digests
\* digest, predigest, genkey and an unknown command call no server.
CallsOf(c) ==
    CASE Command(c).op = "ping" -> Len(Servers[c])
      [] Command(c).op \in Calls \ {"ping"} -> Len(Input(c)) * Len(Servers[c])
      [] OTHER -> 0
ServerAt(c, k) == Servers[c][((k - 1) % Len(Servers[c])) + 1]
DigestAt(c, k) == IF Command(c).op = "ping" THEN CHOOSE d \in Digests : TRUE
                  ELSE Input(c)[((k - 1) \div Len(Servers[c])) + 1]

Holders == {c \in Clients : pc[c] \in {"loaded", "writing"}}

\* The next command begins; check and the local commands load the whitelist.
Begin(c) ==
    /\ pc[c] = "command" /\ nth[c] <= Len(line[c].commands)
    /\ local' = [local EXCEPT ![c] =
         IF Command(c).op \in LocalEdits \cup {"check"} THEN listFile ELSE {}]
    /\ spoiled' = (spoiled \/ (Command(c).op \in LocalEdits \cup {"check"} /\ Holders # {}))
    /\ pc' = [pc EXCEPT ![c] = IF Command(c).op \in LocalEdits THEN "loaded" ELSE "call"]
    /\ turn' = [turn EXCEPT ![c] = 1]
    /\ allOk' = [allOk EXCEPT ![c] = TRUE]
    /\ foundHit' = [foundHit EXCEPT ![c] = FALSE]
    /\ whitelisted' = [whitelisted EXCEPT ![c] = FALSE]
    /\ UNCHANGED <<clock, line, nth, fed, exitCode, socket, listFile, intended,
                   netVars, serverVars>>

Finish(c, ok) ==
    /\ exitCode' = [exitCode EXCEPT ![c] = IF ok THEN @ ELSE 1]
    /\ nth' = [nth EXCEPT ![c] = @ + 1]
    /\ fed' = [fed EXCEPT ![c] = @ \/ ReadsStdin(Command(c).op)]
    /\ pc' = [pc EXCEPT ![c] = "command"]

CommandOk(c) ==
    IF Command(c).op \in Verdicts THEN allOk[c] /\ foundHit[c] /\ ~whitelisted[c] ELSE allOk[c]

CommandEnds(c) ==
    /\ pc[c] = "call" /\ turn[c] > CallsOf(c)
    /\ Finish(c, CommandOk(c))
    /\ UNCHANGED <<clock, line, turn, allOk, foundHit, whitelisted, local, socket,
                   fileVars, netVars, serverVars>>

RunEnds(c) ==
    /\ pc[c] = "command" /\ nth[c] > Len(line[c].commands)
    /\ pc' = [pc EXCEPT ![c] = "done"]
    /\ UNCHANGED <<clock, line, nth, turn, fed, exitCode, allOk, foundHit, whitelisted,
                   local, socket, fileVars, netVars, serverVars>>

(***************************************************************************)
(* The local whitelist                                                     *)
(***************************************************************************)
Edited(c, list) ==
    LET ds == {Input(c)[i] : i \in DOMAIN Input(c)}
    IN IF Command(c).op = "local_whitelist" THEN list \cup ds ELSE list \ ds

\* fs::write creates or empties the file, then fills it.
Truncate(c) ==
    /\ pc[c] = "loaded"
    /\ listFile' = {}
    /\ spoiled' = (spoiled \/ Holders # {c})
    /\ pc' = [pc EXCEPT ![c] = "writing"]
    /\ UNCHANGED <<clock, line, nth, turn, fed, exitCode, allOk, foundHit, whitelisted,
                   local, socket, intended, netVars, serverVars>>

\* Mutant: the digests are written in place of the list.
EditsOnly(c) == Edited(c, {})
EditedList(c) == Edited(c, local[c])

Fill(c) ==
    /\ pc[c] = "writing"
    /\ listFile' = EditedList(c)
    /\ intended' = Edited(c, intended)
    /\ Finish(c, TRUE)
    /\ UNCHANGED <<clock, line, turn, allOk, foundHit, whitelisted, local, socket,
                   spoiled, netVars, serverVars>>

\* The file cannot be written: execute returns the error and the run ends.
WriteFails(c) ==
    /\ pc[c] \in {"loaded", "writing"}
    /\ spoiled' = (spoiled \/ pc[c] = "writing")
    /\ exitCode' = [exitCode EXCEPT ![c] = 1]
    /\ pc' = [pc EXCEPT ![c] = "done"]
    /\ UNCHANGED <<clock, line, nth, turn, fed, allOk, foundHit, whitelisted, local, socket,
                   listFile, intended, netVars, serverVars>>

(***************************************************************************)
(* One call: Client::round_trip                                            *)
(***************************************************************************)
LocalMatch(c) == Command(c).op = "check" /\ DigestAt(c, turn[c]) \in local[c]
Calling(c) == pc[c] = "call" /\ turn[c] <= CallsOf(c)

\* mock_check_response: neither a hit nor whitelisted.
Mock(c) ==
    /\ Calling(c) /\ LocalMatch(c)
    /\ turn' = [turn EXCEPT ![c] = @ + 1]
    /\ UNCHANGED <<clock, line, pc, nth, fed, exitCode, allOk, foundHit, whitelisted,
                   local, socket, fileVars, netVars, serverVars>>

\* ThreadId::generate takes any id of the ok range: a new one, or one in use.
ThreadChoices == {OkMin + Cardinality(sent)} \cup {p.thread : p \in sent}
Bound == {socket[c].port : c \in {x \in Clients : pc[x] = "waiting"}}

\* bind_for, sign and send_to.
Send(c) ==
    /\ Calling(c) /\ ~LocalMatch(c)
    /\ \E port \in Ports \ Bound, thread \in ThreadChoices :
         LET server == ServerAt(c, turn[c])
             digest == DigestAt(c, turn[c])
         IN /\ socket' = [socket EXCEPT ![c] = [port |-> port, number |-> Cardinality(sent) + 1]]
            /\ sent' = sent \cup {[by |-> c, number |-> Cardinality(sent) + 1, port |-> port,
                                   thread |-> thread, op |-> Command(c).op, server |-> server,
                                   digest |-> digest, user |-> line[c].user, time |-> clock + line[c].skew,
                                   wlThen |-> counts[server][digest].wl, left |-> Copies]}
    /\ pc' = [pc EXCEPT ![c] = "waiting"]
    /\ UNCHANGED <<clock, line, nth, turn, fed, exitCode, allOk, foundHit, whitelisted, local,
                   fileVars, answers, serverVars>>

Request(c) == CHOOSE p \in sent : p.number = socket[c].number

Settle(c, a) ==
    LET ok == a.code = 200
        verdict == ok /\ Command(c).op \in Verdicts
    IN /\ allOk' = [allOk EXCEPT ![c] = @ /\ ok]
       /\ whitelisted' = [whitelisted EXCEPT ![c] = @ \/ (verdict /\ a.wl > WlThreshold)]
       /\ foundHit' = [foundHit EXCEPT ![c] =
                         @ \/ (verdict /\ a.wl <= WlThreshold /\ a.r > Threshold)]
       /\ turn' = [turn EXCEPT ![c] = @ + 1]
       /\ pc' = [pc EXCEPT ![c] = "call"]
       /\ UNCHANGED <<clock, line, nth, fed, exitCode, local, socket, fileVars, netVars, serverVars>>

\* Mutant: another thread id is never an error.
AnyThread(expected, id) == TRUE
ThreadAccepted(expected, id) == id = expected \/ id < OkMin

\* The one datagram recv_from returns, whoever sent it and for which request.
Receive(c) ==
    /\ pc[c] = "waiting"
    /\ \E a \in answers :
         /\ a.port = socket[c].port
         /\ Settle(c, IF ThreadAccepted(Request(c).thread, a.thread)
                      THEN [code |-> a.code, r |-> a.r, wl |-> a.wl] ELSE NoAnswer)

\* The time-out, and the errors of the socket.
TimedOut(c) == pc[c] = "waiting" /\ Settle(c, NoAnswer)

(***************************************************************************)
(* The servers                                                             *)
(***************************************************************************)
\* Mutant: a time in the future is always within the range.
OneSided(time) == clock - time <= Window
TimeAccepted(time) == clock - time <= Window /\ time - clock <= Window

\* verify_signature for named users, and the default access file.
Signed(p) == p.user = "anonymous" \/ (p.user = "account" /\ TimeAccepted(p.time))
Permitted(p) == p.user = "account" \/ p.op # "whitelist"

Code(p) == IF ~Signed(p) THEN 401 ELSE IF ~Permitted(p) THEN 403 ELSE 200

Incremented(op, counter) ==
    IF op = "report" THEN [counter EXCEPT !.r = @ + 1] ELSE [counter EXCEPT !.wl = @ + 1]

\* A request arrives, once, again, late, or never: really_handle verifies it and
\* looks up its permission.
Verify(p) ==
    /\ p.left > 0 /\ Cardinality(served) < Waiting
    /\ p.left < Copies => \A q \in sent : q.left < Copies - 1 => q.number = p.number
    /\ sent' = (sent \ {p}) \cup {[p EXCEPT !.left = @ - 1]}
    /\ served' = served \cup {[number |-> p.number, copy |-> p.left, code |-> Code(p)]}
    /\ UNCHANGED <<clock, line, runVars, fileVars, answers, counts, credited>>

\* The database's mutex is had, at some later time: the request is counted or
\* looked up, and answered.
Serve(p, s) ==
    /\ s.number = p.number
    /\ served' = served \ {s}
    /\ LET now == counts[p.server][p.digest]
           counted == s.code = 200 /\ p.op \in {"report", "whitelist"}
       IN /\ counts' = IF ~counted THEN counts
                       ELSE [counts EXCEPT ![p.server][p.digest] = Incremented(p.op, @)]
          /\ credited' = IF counted
                         THEN credited \cup {[number |-> p.number, copy |-> s.copy, at |-> clock]}
                         ELSE credited
          /\ \E thread \in {p.thread} \cup (IF s.code # 200 THEN ErrorIds ELSE {}) :
               answers' = answers \cup
                 {[port |-> p.port, thread |-> thread, code |-> s.code,
                   r |-> CASE p.op = "pong" -> Threshold + 1
                           [] p.op \in {"check", "info"} -> now.r
                           [] OTHER -> 0,
                   wl |-> IF p.op \in {"check", "info"} THEN now.wl ELSE 0]}
    /\ UNCHANGED <<clock, line, runVars, fileVars, sent>>

Server == \E p \in sent : Verify(p) \/ \E s \in served : Serve(p, s)

ClockTick ==
    /\ clock < Horizon /\ clock' = clock + 1
    /\ UNCHANGED <<line, runVars, fileVars, netVars, serverVars>>

Run(c) ==
    \/ Begin(c) \/ CommandEnds(c) \/ RunEnds(c)
    \/ Truncate(c) \/ Fill(c) \/ WriteFails(c)
    \/ Mock(c) \/ Send(c) \/ Receive(c) \/ TimedOut(c)

CNext == (\E c \in Clients : Run(c)) \/ Server \/ ClockTick

CSpec == CInit /\ [][CNext]_cvars

(***************************************************************************)
(* Properties                                                              *)
(***************************************************************************)
CallsBy(c, ops) == {p \in sent : p.by = c /\ p.op \in ops}
\* No other request has drawn the thread id of this one.
Alone(p) == \A q \in sent : q.thread = p.thread => q.number = p.number
Succeeded(c) == pc[c] = "done" /\ exitCode[c] = 0

\* A run that exits with 0 has reported and whitelisted what it was asked to at
\* every server: late, duplicated and misdirected answers never confirm another
\* request (read_response), as long as the thread ids differ.
ExitZeroMeansCounted ==
    \A c \in Clients : Succeeded(c) =>
        \A p \in CallsBy(c, {"report", "whitelist"}) :
            Alone(p) => \E k \in credited : k.number = p.number

\* A run that exits with 0 after a check has the verdict of the servers after it
\* asked them: one has more reports than the threshold, and none had more
\* whitelistings than theirs when it was asked (command_check_like).
ExitZeroMeansSpam ==
    \A c \in Clients : Succeeded(c) =>
        LET asked == CallsBy(c, {"check"})
        IN (\A p \in asked : Alone(p)) =>
             /\ \A p \in asked : p.wlThen <= WlThreshold
             /\ asked # {} => \E p \in asked : counts[p.server][p.digest].r > Threshold
             /\ \A i \in DOMAIN line[c].commands : line[c].commands[i].op = "check" => asked # {}

\* An exit code of 0 tells what the servers did, whatever the network does.
ExitZeroTells == ExitZeroMeansCounted /\ ExitZeroMeansSpam

\* However long the network keeps or repeats the request of an account, and
\* however long the server keeps it from the database: it is never counted before
\* the window around its time has begun, and never if the client's clock is
\* behind by more than the window (verify_signature, with_database).
CountedInWindow ==
    \A p \in sent, k \in credited :
        k.number = p.number /\ p.user = "account" =>
            p.time - Window <= k.at /\ line[p.by].skew + Window >= 0

\* An edit of the local whitelist is only lost to a command that overlapped it,
\* or to a write that broke off.
LocalEditsKept == spoiled \/ (Holders = {} => listFile = intended)
=============================================================================
