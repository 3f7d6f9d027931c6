---------------------------- MODULE Configuration ----------------------------
(* What the files of a home directory mean (src/src/config.rs) and how the      *)
(* programs find them.  A file is Missing (it cannot be read) or a sequence of  *)
(* lines; a line is the sequence of its parts, << >> when it is blank or a      *)
(* comment.  A part that is a list of words is the set of them.                 *)
EXTENDS Integers, SequencesExt, Sifting

CONSTANTS
    Missing,
    NotNumber,   \* a part that does not parse as a number
    Anonymous,
    LowerCase    \* [word -> word] for the words with an upper-case letter

AllOps == {"check", "report", "ping", "pong", "info", "whitelist"}
DefaultAnonOps == AllOps \ {"whitelist"}

IsSequence(s) == s \in Seq({s[i] : i \in DOMAIN s})
Lines(file) == IF file = Missing THEN << >> ELSE file
Lower(word) == IF word \in DOMAIN LowerCase THEN LowerCase[word] ELSE word
LowerWords(words) == {Lower(word) : word \in words}
IsNumber(part) == part # NotNumber

\* load_passwd_file: user:key, the last line of a user counts.
Account(accounts, line) ==
    IF Len(line) # 2 THEN accounts
    ELSE [user \in DOMAIN accounts \cup {line[1]} |->
            IF user = line[1] THEN line[2] ELSE accounts[user]]
LoadPasswdFile(file) ==
    LET accounts[n \in 0..Len(Lines(file))] ==
          IF n = 0 THEN << >> ELSE Account(accounts[n - 1], Lines(file)[n])
    IN accounts[Len(Lines(file))]

(***************************************************************************)
(* The access file: operations, users, allow or deny                       *)
(***************************************************************************)
OperationsOf(line) ==
    IF LowerWords(line[1]) = {"all"} THEN AllOps ELSE LowerWords(line[1])
\* "all" are the users of the passwd file, spelled as there.
UsersOf(line, accounts) ==
    IF LowerWords(line[2]) = {"all"} THEN DOMAIN accounts ELSE LowerWords(line[2])
IsRule(line) == Len(line) = 3 /\ line[3] \in {"allow", "deny"}
OpsOf(acl, user) == IF user \in DOMAIN acl THEN acl[user] ELSE {}

\* Mutant: a deny line takes away everything.
Emptied(acl, user, line) == {}
Denied(acl, user, line) == OpsOf(acl, user) \ OperationsOf(line)
Granted(acl, user, line) == OpsOf(acl, user) \cup OperationsOf(line)

ApplyLine(acl, line, accounts) ==
    IF ~IsRule(line) THEN acl
    ELSE [user \in DOMAIN acl \cup UsersOf(line, accounts) |->
            IF user \notin UsersOf(line, accounts) THEN acl[user]
            ELSE IF line[3] = "allow" THEN Granted(acl, user, line) ELSE Denied(acl, user, line)]

LoadAccessFile(file, accounts) ==
    IF file = Missing THEN [user \in {Anonymous} |-> DefaultAnonOps]
    ELSE LET acl[n \in 0..Len(file)] ==
               IF n = 0 THEN << >> ELSE ApplyLine(acl[n - 1], file[n], accounts)
         IN acl[Len(file)]

(***************************************************************************)
(* The files of the client                                                 *)
(***************************************************************************)
\* host : port : user : salt,key; the last usable line of a server counts.
KeyFromHexstr(part) == Len(part) = 2
IsAccount(line) ==
    /\ Len(line) = 4
    /\ IsNumber(line[2])
    /\ KeyFromHexstr(line[4]) /\ line[4] # <<"", "">>
ServerOf(line) == <<line[1], line[2]>>
ClientAccount(accounts, line) ==
    IF ~IsAccount(line) THEN accounts
    ELSE [server \in DOMAIN accounts \cup {ServerOf(line)} |->
            IF server # ServerOf(line) THEN accounts[server]
            ELSE [user |-> line[3], salt |-> line[4][1], key |-> line[4][2]]]
LoadAccounts(file) ==
    LET accounts[n \in 0..Len(Lines(file))] ==
          IF n = 0 THEN << >> ELSE ClientAccount(accounts[n - 1], Lines(file)[n])
    IN accounts[Len(Lines(file))]

\* host : port, in the order of the file.
IsServer(line) == Len(line) = 2 /\ line[1] # "" /\ IsNumber(line[2])
ServersFileHasEntries(file) == \E i \in DOMAIN Lines(file) : IsServer(Lines(file)[i])
PublicServer == <<"public.pyzor.org", 24441>>
LoadServers(file) ==
    LET lines == Lines(file)
        servers == Sift(lines, {lines[i] : i \in {j \in DOMAIN lines : IsServer(lines[j])}})
    IN IF servers = << >> THEN <<PublicServer>> ELSE servers

\* source[:port], separated by commas; empty ones are skipped.
ParseProxySources(sources) ==
    LET named == SelectSeq(sources, LAMBDA source : source # <<"">>)
    IN [i \in DOMAIN named |->
          IF Len(named[i]) = 2 /\ IsNumber(named[i][2])
          THEN <<<<named[i][1]>>, named[i][2]>> ELSE <<named[i], 24441>>]

(***************************************************************************)
(* Data source names: fields separated by commas, "" where one is missing   *)
(***************************************************************************)
Field(fields, i) == IF i \in DOMAIN fields THEN fields[i] ELSE ""
\* RedisDsn::parse: host, port, password, db, username
RedisDsn(fields) ==
    LET refused == \/ Field(fields, 5) # "" /\ Field(fields, 3) = ""
                   \/ \E i \in {2, 4} : Field(fields, i) # "" /\ ~IsNumber(Field(fields, i))
        or(i, default) == IF Field(fields, i) = "" THEN default ELSE Field(fields, i)
    IN IF refused THEN {}
       ELSE {[host |-> or(1, "localhost"), port |-> or(2, 6379), password |-> Field(fields, 3),
              db |-> or(4, 0), username |-> Field(fields, 5)]}
\* MySqlDsn::parse: host, user, password, database, table
MySqlDsn(fields) ==
    {[host |-> fields[1], user |-> fields[2], password |-> fields[3],
      database |-> fields[4], table |-> fields[5]] : i \in {Len(fields)} \cap {5}}

(***************************************************************************)
(* config: sections of key = value; a line is <<"[", section>> or           *)
(* <<"=", key, value>>                                                      *)
(***************************************************************************)
ReadIniSection(file, section) ==
    LET lines == Lines(file)
        current(i) == LET heads == {j \in 1..i : Len(lines[j]) = 2}
                      IN IF heads = {} THEN "" ELSE Lower(lines[Max(heads)][2])
        mine == {i \in DOMAIN lines : Len(lines[i]) = 3 /\ current(i) = section}
        key(i) == Lower(lines[i][2])
    IN [k \in {key(i) : i \in mine} |-> lines[Max({i \in mine : key(i) = k})][3]]

(***************************************************************************)
(* Paths: [root, names], root "/" or "" for the working directory           *)
(***************************************************************************)
\* expand_homefile: value is [form, names], form "empty", "~", "/" or ""; a
\* home that the environment does not name stands for itself.
ExpandHomefile(homedir, value, HOME) ==
    LET expanded == IF value.form # "~" THEN value
                    ELSE IF HOME = Missing THEN [form |-> "", names |-> <<"~">> \o value.names]
                    ELSE [form |-> HOME.form, names |-> HOME.names \o value.names]
    IN CASE value.form = "empty" -> value
         [] expanded.form = "/" -> expanded
         [] OTHER -> [form |-> homedir.form, names |-> homedir.names \o expanded.names]
=============================================================================
