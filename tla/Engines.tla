------------------------------- MODULE Engines -------------------------------
(* The engines that keep the records in a database server: redis and redis_v0  *)
(* (src/src/redis_engine.rs) and mysql (mysql_engine.rs with either executor). *)
(* Each operation is a program of commands, each atomic at the database, any   *)
(* of which may fail there or lose its answer to the five second time-out.     *)
(* Several ruzord processes share the database: between two commands of one    *)
(* session others run theirs, keys expire and a starting server cleans up.     *)
EXTENDS Records, Sequences

CONSTANTS
    Sessions, Digests, Jobs,  \* see Tally; answer is what a set caches
    Kinds,     \* the engines a behaviour may use
    Shared,    \* the engines whose sessions hold no mutex in common
    Ages,      \* values of --cleanup-age, NoTime for none
    Horizon,   \* the clock stops here
    Faults     \* subset of {"refused", "lost"}: what may happen to a command

ASSUME EnginesAssumption ==
    /\ Kinds \subseteq {"redis", "redis_v0", "mysql"}
    /\ Shared \subseteq Kinds
    /\ Horizon \in Nat
    /\ Ages \subseteq Nat \cup {NoTime}
    /\ Faults \subseteq {"refused", "lost"}
    /\ \A j \in Jobs :
         /\ j.op \in {"report", "whitelist", "set", "get"}
         /\ j.digests \in Seq(Digests) /\ j.digests # << >>
         /\ j.answer \in Record
         /\ j.op = "set" => HasMatch(j.answer)

VARIABLES
    engine, maxAge,
    now,
    table,     \* the row of each digest; Blank is none, a time of 0 stands for None
    deadline,  \* when the key expires, NoTime for never
    job, outcome, taken,  \* see Tally
    pc,        \* the command a session issues next
    at,        \* the digest of its job it is at
    stamp,     \* now_timestamp() when it began
    held,      \* the record it read
    acked,     \* history: the latest stamp of an update answered ok
    cached     \* history: when a mysql row was last replaced by a set

dbVars == <<table, deadline>>
vars == <<engine, maxAge, now, dbVars, job, outcome, taken, pc, at, stamp, held, acked, cached>>

DigestOf(s) == job[s].digests[at[s]]
Row(s) == table[DigestOf(s)]
IsUpdate(s) == job[s].op \in {"report", "whitelist"}
Count(s) == IF job[s].op = "report" THEN "r_count" ELSE "wl_count"
Entered(s) == IF job[s].op = "report" THEN "r_entered" ELSE "wl_entered"
Updated(s) == IF job[s].op = "report" THEN "r_updated" ELSE "wl_updated"

Expiring == engine # "mysql" /\ maxAge \notin {NoTime, 0}

\* The command an operation starts each of its digests with.
First(s) ==
    CASE engine = "redis" -> IF IsUpdate(s) THEN "HINCRBY"
                             ELSE IF job[s].op = "set" THEN "HSET all" ELSE "HGETALL"
      [] engine = "redis_v0" -> IF job[s].op = "set" THEN "SET" ELSE "GET"
      [] engine = "mysql" -> IF IsUpdate(s) THEN "UPSERT"
                             ELSE IF job[s].op = "set" THEN "UPSERT all" ELSE "SELECT"

Init ==
    /\ engine \in Kinds /\ maxAge \in Ages /\ now = 1
    /\ table = [d \in Digests |-> Blank]
    /\ deadline = [d \in Digests |-> NoTime]
    /\ job \in [Sessions -> Jobs]
    /\ outcome = [s \in Sessions |-> "none"]
    /\ taken = [s \in Sessions |-> 0]
    /\ pc = [s \in Sessions |-> "idle"]
    /\ at = [s \in Sessions |-> 1]
    /\ stamp = [s \in Sessions |-> 0]
    /\ held = [s \in Sessions |-> Blank]
    /\ acked = [d \in Digests |-> NoTime]
    /\ cached = [d \in Digests |-> 0]

\* Mutant: the mutex is taken for each get and each set.
AlwaysAdmits == TRUE
\* Within one process the database mutex admits one operation at a time.
MutexAdmits == engine \in Shared \/ \A s \in Sessions : outcome[s] # "busy"

Begin(s) ==
    /\ outcome[s] = "none"
    /\ MutexAdmits
    /\ outcome' = [outcome EXCEPT ![s] = "busy"]
    /\ pc' = [pc EXCEPT ![s] = First(s)]
    /\ stamp' = [stamp EXCEPT ![s] = now]
    /\ UNCHANGED <<engine, maxAge, now, dbVars, job, taken, at, held, acked, cached>>

Fails(s) ==
    /\ outcome' = [outcome EXCEPT ![s] = "failed"]
    /\ pc' = [pc EXCEPT ![s] = "idle"]
    /\ UNCHANGED <<at, held, acked>>

Continue(s, command) ==
    /\ pc' = [pc EXCEPT ![s] = command]
    /\ UNCHANGED <<outcome, at, held, acked>>

\* Which updates the cleanup of the engine takes as a sign of life.
Refreshes(s) == engine # "mysql" \/ job[s].op = "report"

\* The digest is done: the next one, or the answer.
Onward(s, read) ==
    /\ held' = [held EXCEPT ![s] = read]
    /\ IF at[s] < Len(job[s].digests)
       THEN /\ at' = [at EXCEPT ![s] = @ + 1]
            /\ pc' = [pc EXCEPT ![s] = First(s)]
            /\ UNCHANGED <<outcome, acked>>
       ELSE /\ outcome' = [outcome EXCEPT ![s] = "ok"]
            /\ pc' = [pc EXCEPT ![s] = "idle"]
            /\ acked' = [d \in Digests |->
                 IF /\ IsUpdate(s) /\ Refreshes(s)
                    /\ \E i \in DOMAIN job[s].digests : job[s].digests[i] = d
                    /\ acked[d] = NoTime \/ acked[d] < stamp[s]
                 THEN stamp[s] ELSE acked[d]]
            /\ UNCHANGED at

Unaffected == UNCHANGED dbVars /\ UNCHANGED taken
Stays(s) == UNCHANGED <<engine, maxAge, now, job, stamp>>

\* One command: connect, write_command, read_resp (or one SQL statement).
Issue(s, effect, answered) ==
    /\ \/ effect /\ answered
       \/ "lost" \in Faults /\ effect /\ Fails(s)
       \/ "refused" \in Faults /\ Unaffected /\ Fails(s)
    /\ Stays(s)

Refused(s) == Unaffected /\ Fails(s) /\ Stays(s)
Put(s, row) == table' = [table EXCEPT ![DigestOf(s)] = row]
PutField(s, field, value) == Put(s, [Row(s) EXCEPT ![field] = value])
Counted(s) == taken' = [taken EXCEPT ![s] = @ + 1]
At(s, command) == outcome[s] = "busy" /\ pc[s] = command

(***************************************************************************)
(* redis: RedisV1Database                                                  *)
(***************************************************************************)
Hincrby(s) ==
    /\ At(s, "HINCRBY")
    /\ IF Row(s)[Count(s)] = MaxCount THEN Refused(s)
       ELSE Issue(s, PutField(s, Count(s), Row(s)[Count(s)] + 1) /\ Counted(s)
                       /\ UNCHANGED deadline,
                  Continue(s, "HSETNX"))

\* A field holding 0 exists, and stays.
Hsetnx(s) ==
    /\ At(s, "HSETNX")
    /\ Issue(s, PutField(s, Entered(s), FirstTime(Row(s)[Entered(s)], stamp[s]))
                  /\ UNCHANGED <<deadline, taken>>,
             Continue(s, "HSET"))

\* Mutant: expiry is left out after a whitelist.
ExpireReports(s) ==
    IF Expiring /\ job[s].op # "whitelist" THEN Continue(s, "EXPIRE") ELSE Onward(s, Blank)
ExpireIfNeeded(s) == IF Expiring THEN Continue(s, "EXPIRE") ELSE Onward(s, Blank)

Hset(s) ==
    /\ At(s, "HSET")
    /\ Issue(s, PutField(s, Updated(s), stamp[s]) /\ UNCHANGED <<deadline, taken>>,
             ExpireIfNeeded(s))

Expire(s) ==
    /\ At(s, "EXPIRE")
    /\ Issue(s, /\ deadline' = [deadline EXCEPT ![DigestOf(s)] =
                                  IF Row(s) = Blank THEN NoTime ELSE now + maxAge]
                /\ UNCHANGED <<table, taken>>,
             Onward(s, Blank))

\* redis_v1_time writes 0 for None, decode_time reads None for 0.
V1Time(t) == IF t = NoTime THEN 0 ELSE t
V1Encoded(rec) ==
    [rec EXCEPT !.r_entered = V1Time(@), !.r_updated = V1Time(@),
                !.wl_entered = V1Time(@), !.wl_updated = V1Time(@)]
Decoded(t) == IF t = 0 THEN NoTime ELSE t
V1Decoded(row) ==
    [row EXCEPT !.r_entered = Decoded(@), !.r_updated = Decoded(@),
                !.wl_entered = Decoded(@), !.wl_updated = Decoded(@)]

HsetAll(s) ==
    /\ At(s, "HSET all")
    /\ Issue(s, Put(s, V1Encoded(ProxyRecord(job[s].answer, stamp[s]))) /\ Counted(s)
                  /\ UNCHANGED deadline,
             ExpireIfNeeded(s))

Hgetall(s) ==
    /\ At(s, "HGETALL")
    /\ Issue(s, Unaffected, Onward(s, V1Decoded(Row(s))))

(***************************************************************************)
(* redis_v0: RedisV0Database under the report and whitelist of the trait    *)
(***************************************************************************)
Get(s) ==
    /\ At(s, "GET")
    /\ Issue(s, Unaffected,
             IF ~IsUpdate(s) THEN Onward(s, Row(s))
             ELSE /\ held' = [held EXCEPT ![s] = Row(s)]
                  /\ pc' = [pc EXCEPT ![s] = "SET"]
                  /\ UNCHANGED <<outcome, at, acked>>)

V0Record(s) ==
    CASE job[s].op = "report" -> RIncrement(held[s], now)
      [] job[s].op = "whitelist" -> WlIncrement(held[s], now)
      [] OTHER -> ProxyRecord(job[s].answer, stamp[s])

\* SETEX with any max_age, 0 included, which the database refuses; SET without.
Set(s) ==
    /\ At(s, "SET")
    /\ IF maxAge = 0 THEN Refused(s)
       ELSE Issue(s, /\ Put(s, V0Record(s)) /\ Counted(s)
                     /\ deadline' = [deadline EXCEPT ![DigestOf(s)] =
                                       IF maxAge = NoTime THEN NoTime ELSE now + maxAge],
                  Onward(s, Blank))

(***************************************************************************)
(* mysql: one statement for each digest                                    *)
(***************************************************************************)
\* The row report() or whitelist() inserts has all four times.
Inserted(s) ==
    [r_count |-> IF job[s].op = "report" THEN 1 ELSE 0,
     wl_count |-> IF job[s].op = "report" THEN 0 ELSE 1,
     r_entered |-> now, r_updated |-> now, wl_entered |-> now, wl_updated |-> now]

Upsert(s) ==
    /\ At(s, "UPSERT")
    /\ IF Row(s)[Count(s)] = MaxCount THEN Refused(s)
       ELSE Issue(s, /\ Put(s, IF Row(s) = Blank THEN Inserted(s)
                               ELSE [Row(s) EXCEPT ![Count(s)] = @ + 1, ![Updated(s)] = now])
                     /\ Counted(s) /\ UNCHANGED deadline,
                  Onward(s, Blank))

UpsertAll(s) ==
    /\ At(s, "UPSERT all")
    /\ Issue(s, Put(s, ProxyRecord(job[s].answer, stamp[s])) /\ Counted(s)
                  /\ UNCHANGED deadline,
             Onward(s, Blank))
    /\ cached' = IF taken' = taken THEN cached ELSE [cached EXCEPT ![DigestOf(s)] = now]

Select(s) ==
    /\ At(s, "SELECT")
    /\ Issue(s, Unaffected, Onward(s, Row(s)))

(***************************************************************************)
(* Ageing                                                                  *)
(***************************************************************************)
Tick ==
    /\ now < Horizon /\ now' = now + 1
    /\ UNCHANGED <<engine, maxAge, dbVars, job, outcome, taken, pc, at, stamp, held, acked, cached>>

KeyExpires(d) ==
    /\ deadline[d] # NoTime /\ now >= deadline[d]
    /\ table' = [table EXCEPT ![d] = Blank]
    /\ deadline' = [deadline EXCEPT ![d] = NoTime]
    /\ UNCHANGED <<engine, maxAge, now, job, outcome, taken, pc, at, stamp, held, acked, cached>>

\* Mutant: everything not updated this second is stale.
NoCutoff == now
Cutoff == now - maxAge

\* A server that starts on the same table with this cleanup age.
Reorganize ==
    /\ engine = "mysql" /\ maxAge \notin {NoTime, 0}
    /\ table' = [d \in Digests |->
         IF table[d].r_updated # NoTime /\ table[d].r_updated < Cutoff
         THEN Blank ELSE table[d]]
    /\ UNCHANGED <<engine, maxAge, now, deadline, job, outcome, taken, pc, at, stamp, held, acked, cached>>

Session(s) ==
    \/ Begin(s) \/ UpsertAll(s)
    \/ /\ \/ Hincrby(s) \/ Hsetnx(s) \/ Hset(s) \/ Expire(s) \/ HsetAll(s) \/ Hgetall(s)
          \/ Get(s) \/ Set(s)
          \/ Upsert(s) \/ Select(s)
       /\ UNCHANGED cached

Next == (\E s \in Sessions : Session(s)) \/ Tick \/ (\E d \in Digests : KeyExpires(d)) \/ Reorganize

Spec == Init /\ [][Next]_vars

(***************************************************************************)
(* Properties                                                              *)
(***************************************************************************)
\* Between GET and SET a redis_v0 session holds the record: a key that expires
\* meanwhile comes back with its counters, and counts as not yet forgotten.
Kept(d) ==
    LET holders == {s \in Sessions : At(s, "SET") /\ IsUpdate(s) /\ DigestOf(s) = d}
    IN IF holders = {} THEN table[d] ELSE held[CHOOSE s \in holders : TRUE]

T == INSTANCE Tally WITH
       TallyMax <- MaxCount,
       tally <- [d \in Digests |-> [r_count |-> Kept(d).r_count, wl_count |-> Kept(d).wl_count]]

\* However many sessions share the database and whichever commands fail, the
\* counters follow a table of atomic increments (report, whitelist and set of
\* the three engines): redis by HINCRBY, mysql by its statement, redis_v0 only
\* because one mutex covers its GET and SET.
RefinesTally == T!TSpec

\* The row of d is being written, or was left by a session that failed on it.
Unfinished(d) ==
    \E s \in Sessions :
        /\ outcome[s] \in {"busy", "failed"}
        /\ \E i \in 1..at[s] : i <= Len(job[s].digests) /\ job[s].digests[i] = d

\* A count without the time of its update, or a key that is never to expire
\* although there is a cleanup age, is only left by a session that failed
\* between its commands (expire_if_needed, the commands of report).
HalfWrittenOnlyByFailure ==
    \A d \in Digests :
        \/ Unfinished(d)
        \/ /\ table[d].r_count > 0 => table[d].r_updated # NoTime
           /\ table[d].wl_count > 0 => table[d].wl_updated # NoTime
           /\ Expiring /\ table[d] # Blank => deadline[d] # NoTime

\* Neither expiry nor cleanup removes a record within the cleanup age of an
\* update that was answered ok; mysql looks at reports only, and not at those
\* before a set, which replaces the row with the times of its own.
NoFreshRowLost ==
    [][\A d \in Digests :
         table[d] # Blank /\ table'[d] = Blank
         /\ acked[d] # NoTime /\ (engine = "mysql" => acked[d] > cached[d])
            => now >= acked[d] + maxAge]_vars
=============================================================================
