----------------------------- MODULE EnginesProofs -----------------------------
(* Proofs about the engines.  First those that keep the records in a database   *)
(* server: what a report leaves behind, when a row goes, and that the counters  *)
(* are those of Tally, for any sessions, jobs, digests and failing commands.    *)
EXTENDS Engines, FileEngines, SequenceFacts

Reading == {"HGETALL", "GET", "SELECT"}
Counting == {"HINCRBY", "HSET all", "SET", "UPSERT", "UPSERT all"}
Commands == Reading \cup Counting \cup {"HSETNX", "HSET", "EXPIRE"}

\* The commands of an operation.
Program(s) ==
    IF engine = "redis"
    THEN IF IsUpdate(s) THEN {"HINCRBY", "HSETNX", "HSET", "EXPIRE"}
         ELSE IF job[s].op = "set" THEN {"HSET all", "EXPIRE"} ELSE {"HGETALL"}
    ELSE IF engine = "redis_v0"
    THEN IF IsUpdate(s) THEN {"GET", "SET"} ELSE IF job[s].op = "set" THEN {"SET"} ELSE {"GET"}
    ELSE IF IsUpdate(s) THEN {"UPSERT"}
         ELSE IF job[s].op = "set" THEN {"UPSERT all"} ELSE {"SELECT"}

TypeInv ==
    /\ engine \in Kinds /\ maxAge \in Ages /\ now \in Nat
    /\ table \in [Digests -> Record] /\ deadline \in [Digests -> Times]
    /\ job \in [Sessions -> Jobs]
    /\ outcome \in [Sessions -> {"none", "busy", "ok", "failed"}]
    /\ pc \in [Sessions -> Commands \cup {"idle"}]
    /\ at \in [Sessions -> Nat \ {0}] /\ taken \in [Sessions -> Nat]
    /\ stamp \in [Sessions -> Nat] /\ held \in [Sessions -> Record]
    /\ acked \in [Digests -> Times] /\ cached \in [Digests -> Nat]
    /\ \A s \in Sessions : /\ at[s] <= Len(job[s].digests) /\ stamp[s] <= now
                           /\ outcome[s] = "busy" =>
                                pc[s] \in Program(s) /\ (pc[s] = "EXPIRE" => Expiring)
-----------------------------------------------------------------------------
(* Records.                                                                    *)

LEMMA ElementType == ASSUME NEW S, NEW q \in Seq(S), NEW i \in 1..Len(q) PROVE q[i] \in S
OBVIOUS

LEMMA NonEmpty == ASSUME NEW S, NEW q \in Seq(S), q # << >> PROVE Len(q) \in Nat /\ Len(q) >= 1
OBVIOUS

LEMMA BlankType == Blank \in Record
BY RecordsAssumption DEF Blank, Record, Counts, Times

LEMMA JobType ==
  ASSUME NEW j \in Jobs
  PROVE  /\ j.op \in {"report", "whitelist", "set", "get"}
         /\ j.digests \in Seq(Digests) /\ Len(j.digests) \in Nat /\ Len(j.digests) >= 1
         /\ j.answer \in Record /\ (j.op = "set" => HasMatch(j.answer))
<1>1. /\ j.op \in {"report", "whitelist", "set", "get"}
      /\ j.digests \in Seq(Digests) /\ j.digests # << >>
      /\ j.answer \in Record /\ (j.op = "set" => HasMatch(j.answer))
  BY EnginesAssumption
<1> QED BY <1>1, NonEmpty

LEMMA DigestType ==
  ASSUME TypeInv, NEW s \in Sessions
  PROVE  /\ DigestOf(s) \in Digests /\ Row(s) \in Record
         /\ job[s].op \in {"report", "whitelist", "set", "get"}
         /\ job[s].digests \in Seq(Digests) /\ Len(job[s].digests) \in Nat
         /\ at[s] \in 1..Len(job[s].digests)
<1>1. job[s] \in Jobs /\ at[s] \in Nat \ {0} /\ at[s] <= Len(job[s].digests)
  BY DEF TypeInv
<1>2. /\ job[s].op \in {"report", "whitelist", "set", "get"}
      /\ job[s].digests \in Seq(Digests) /\ Len(job[s].digests) \in Nat
  BY <1>1, JobType
<1>3. at[s] \in 1..Len(job[s].digests)
  BY <1>1, <1>2
<1>4. DigestOf(s) \in Digests
  BY <1>2, <1>3, ElementType DEF DigestOf
<1> QED BY <1>2, <1>3, <1>4 DEF TypeInv, Row

LEMMA ProxyRecordType ==
  ASSUME NEW c \in Record, NEW t \in Int
  PROVE  ProxyRecord(c, t) \in Record
BY DEF ProxyRecord, ProxyTime, Record, Record, Counts, Times

LEMMA V1EncodedType ==
  ASSUME NEW rec \in Record
  PROVE  /\ V1Encoded(rec) \in Record
         /\ V1Encoded(rec).r_count = rec.r_count /\ V1Encoded(rec).wl_count = rec.wl_count
         /\ V1Encoded(rec).r_updated # NoTime /\ V1Encoded(rec).wl_updated # NoTime
         /\ V1Encoded(rec).r_entered # NoTime /\ V1Encoded(rec).wl_entered # NoTime
<1>1. \A t \in Times : V1Time(t) \in Int /\ V1Time(t) # NoTime /\ V1Time(t) \in Times
  BY RecordsAssumption DEF V1Time, Times
<1> HIDE DEF Times
<1> QED BY <1>1 DEF V1Encoded, Record

LEMMA V1DecodedType == ASSUME NEW rec \in Record PROVE V1Decoded(rec) \in Record
BY ZenonT(40) DEF V1Decoded, Decoded, Record, Times

CountFields == {"r_count", "wl_count"}
TimeFields == {"r_entered", "r_updated", "wl_entered", "wl_updated"}

LEMMA FieldsOf ==
  ASSUME NEW rec \in Record
  PROVE  /\ \A f \in CountFields : rec[f] \in Counts
         /\ \A f \in TimeFields : rec[f] \in Times
BY DEF Record, CountFields, TimeFields

LEMMA CountSet ==
  ASSUME NEW rec \in Record, NEW f \in CountFields, NEW v \in Counts
  PROVE  [rec EXCEPT ![f] = v] \in Record
BY DEF Record, CountFields

LEMMA TimeSet ==
  ASSUME NEW rec \in Record, NEW f \in TimeFields, NEW v \in Times
  PROVE  [rec EXCEPT ![f] = v] \in Record
BY DEF Record, TimeFields

LEMMA SidesType ==
  ASSUME NEW s
  PROVE  Count(s) \in CountFields /\ Entered(s) \in TimeFields /\ Updated(s) \in TimeFields
BY DEF Count, Entered, Updated, CountFields, TimeFields

LEMMA IncrementType ==
  ASSUME NEW rec \in Record, NEW t \in Int
  PROVE  RIncrement(rec, t) \in Record /\ WlIncrement(rec, t) \in Record
<1>1. \A n \in Counts : Bump(n) \in Counts
  BY RecordsAssumption DEF Bump, Counts
<1>2. \A u \in Times : FirstTime(u, t) \in Times /\ t \in Times
  BY DEF FirstTime, Times
<1> QED BY <1>1, <1>2 DEF RIncrement, WlIncrement, Record
-----------------------------------------------------------------------------
(* What a command does.                                                        *)

\* The row the command of a session leaves, and when its key expires.
Stored(s) ==
    CASE pc[s] = "HINCRBY" -> [Row(s) EXCEPT ![Count(s)] = Row(s)[Count(s)] + 1]
      [] pc[s] = "HSETNX" -> [Row(s) EXCEPT ![Entered(s)] = FirstTime(Row(s)[Entered(s)], stamp[s])]
      [] pc[s] = "HSET" -> [Row(s) EXCEPT ![Updated(s)] = stamp[s]]
      [] pc[s] = "HSET all" -> V1Encoded(ProxyRecord(job[s].answer, stamp[s]))
      [] pc[s] = "SET" -> V0Record(s)
      [] pc[s] = "UPSERT" -> IF Row(s) = Blank THEN Inserted(s)
                             ELSE [Row(s) EXCEPT ![Count(s)] = @ + 1, ![Updated(s)] = now]
      [] pc[s] = "UPSERT all" -> ProxyRecord(job[s].answer, stamp[s])
      [] OTHER -> Row(s)
Due(s) ==
    CASE pc[s] = "EXPIRE" -> IF Row(s) = Blank THEN NoTime ELSE now + maxAge
      [] pc[s] = "SET" -> IF maxAge = NoTime THEN NoTime ELSE now + maxAge
      [] OTHER -> deadline[DigestOf(s)]

\* It is carried out, as far as the database lets it be.
Effective(s) ==
    /\ pc[s] \in {"HINCRBY", "UPSERT"} => Row(s)[Count(s)] # MaxCount
    /\ pc[s] = "SET" => maxAge # 0
    /\ table' = [table EXCEPT ![DigestOf(s)] = Stored(s)]
    /\ deadline' = [deadline EXCEPT ![DigestOf(s)] = Due(s)]
    /\ taken' = IF pc[s] \in Counting THEN [taken EXCEPT ![s] = @ + 1] ELSE taken

\* The command after it for the same digest, and the end of the digest.
Proceeds(s, next) ==
    /\ \/ pc[s] = "HINCRBY" /\ next = "HSETNX"
       \/ pc[s] = "HSETNX" /\ next = "HSET"
       \/ pc[s] \in {"HSET", "HSET all"} /\ next = "EXPIRE" /\ Expiring
       \/ pc[s] = "GET" /\ next = "SET" /\ IsUpdate(s)
    /\ pc' = [pc EXCEPT ![s] = next]
    /\ UNCHANGED <<outcome, at, acked>>
    /\ held' = IF next = "SET" THEN [held EXCEPT ![s] = Row(s)] ELSE held

LastCommand(s) ==
    \/ pc[s] \in {"EXPIRE", "HGETALL", "SELECT", "SET", "UPSERT", "UPSERT all"}
    \/ pc[s] \in {"HSET", "HSET all"} /\ ~Expiring
    \/ pc[s] = "GET" /\ ~IsUpdate(s)

Works(s) ==
    \/ Hincrby(s) \/ Hsetnx(s) \/ Hset(s) \/ Expire(s) \/ HsetAll(s) \/ Hgetall(s)
    \/ Get(s) \/ Set(s) \/ Upsert(s) \/ UpsertAll(s) \/ Select(s)

Carries(s) ==
    /\ outcome[s] = "busy" /\ Stays(s)
    /\ cached' = IF pc[s] = "UPSERT all" /\ taken' # taken
                 THEN [cached EXCEPT ![DigestOf(s)] = now] ELSE cached
    /\ \/ Unaffected /\ Fails(s)
       \/ Effective(s) /\ Fails(s)
       \/ Effective(s) /\ \E next \in Commands : Proceeds(s, next)
       \/ Effective(s) /\ LastCommand(s) /\ \E read \in Record : Onward(s, read)

\* Every command either does nothing and fails, or has its effect and fails, goes on
\* with the digest or is done with it.
LEMMA WorksCarries ==
  ASSUME TypeInv, NEW s \in Sessions, Works(s), ~UpsertAll(s) => UNCHANGED cached
  PROVE  Carries(s)
<1>1. /\ table = [table EXCEPT ![DigestOf(s)] = Row(s)]
      /\ deadline = [deadline EXCEPT ![DigestOf(s)] = deadline[DigestOf(s)]]
      /\ DigestOf(s) \in Digests /\ Row(s) \in Record
  BY DigestType DEF TypeInv, Row
<1>2. /\ outcome[s] = "busy" /\ Stays(s)
      /\ cached' = IF pc[s] = "UPSERT all" /\ taken' # taken
                   THEN [cached EXCEPT ![DigestOf(s)] = now] ELSE cached
  BY DEF Works, Hincrby, Hsetnx, Hset, Expire, HsetAll, Hgetall, Get, Set, Upsert, UpsertAll, Select,
         At, Issue, Refused
<1>3. CASE Hincrby(s)
  <2>1. pc[s] = "HINCRBY"
    BY <1>3 DEF Hincrby, At
  <2>2. CASE Row(s)[Count(s)] = MaxCount
    BY <1>2, <1>3, <2>2 DEF Hincrby, Refused, Carries
  <2>3. CASE Row(s)[Count(s)] # MaxCount
    <3>1. ASSUME PutField(s, Count(s), Row(s)[Count(s)] + 1), Counted(s), UNCHANGED deadline
          PROVE  Effective(s)
      BY <1>1, <2>1, <2>3, <3>1 DEF PutField, Put, Counted, Effective, Stored, Due, Counting
    <3>2. Continue(s, "HSETNX") => \E next \in Commands : Proceeds(s, next)
      BY <2>1 DEF Continue, Proceeds, Commands
    <3> QED BY <1>2, <1>3, <2>3, <3>1, <3>2 DEF Hincrby, Issue, Carries
  <2> QED BY <2>2, <2>3
<1>4. CASE Hsetnx(s)
  <2>1. pc[s] = "HSETNX"
    BY <1>4 DEF Hsetnx, At
  <2>2. ASSUME PutField(s, Entered(s), FirstTime(Row(s)[Entered(s)], stamp[s])),
               UNCHANGED <<deadline, taken>>
        PROVE  Effective(s)
    BY <1>1, <2>1, <2>2 DEF PutField, Put, Effective, Stored, Due, Counting
  <2>3. Continue(s, "HSET") => \E next \in Commands : Proceeds(s, next)
    BY <2>1 DEF Continue, Proceeds, Commands
  <2> QED BY <1>2, <1>4, <2>2, <2>3 DEF Hsetnx, Issue, Carries
<1>5. ASSUME pc[s] \in {"HSET", "HSET all"}, ExpireIfNeeded(s)
      PROVE  \/ \E next \in Commands : Proceeds(s, next)
             \/ LastCommand(s) /\ \E read \in Record : Onward(s, read)
  BY <1>5, BlankType DEF ExpireIfNeeded, Continue, Proceeds, Commands, LastCommand
<1>6. CASE Hset(s)
  <2>1. pc[s] = "HSET"
    BY <1>6 DEF Hset, At
  <2>2. ASSUME PutField(s, Updated(s), stamp[s]), UNCHANGED <<deadline, taken>>
        PROVE  Effective(s)
    BY <1>1, <2>1, <2>2 DEF PutField, Put, Effective, Stored, Due, Counting
  <2> QED BY <1>2, <1>5, <1>6, <2>1, <2>2 DEF Hset, Issue, Carries
<1>7. CASE Expire(s)
  <2>1. pc[s] = "EXPIRE"
    BY <1>7 DEF Expire, At
  <2>2. ASSUME deadline' = [deadline EXCEPT ![DigestOf(s)] =
                              IF Row(s) = Blank THEN NoTime ELSE now + maxAge],
               UNCHANGED <<table, taken>>
        PROVE  Effective(s)
    BY <1>1, <2>1, <2>2 DEF Effective, Stored, Due, Counting
  <2> QED BY <1>2, <1>7, <2>1, <2>2, BlankType DEF Expire, Issue, Carries, LastCommand
<1>8. CASE HsetAll(s)
  <2>1. pc[s] = "HSET all"
    BY <1>8 DEF HsetAll, At
  <2>2. ASSUME Put(s, V1Encoded(ProxyRecord(job[s].answer, stamp[s]))), Counted(s), UNCHANGED deadline
        PROVE  Effective(s)
    BY <1>1, <2>1, <2>2 DEF Put, Counted, Effective, Stored, Due, Counting
  <2> QED BY <1>2, <1>5, <1>8, <2>1, <2>2 DEF HsetAll, Issue, Carries
<1>9. CASE Hgetall(s)
  <2>1. pc[s] = "HGETALL"
    BY <1>9 DEF Hgetall, At
  <2>2. Unaffected => Effective(s)
    BY <1>1, <2>1 DEF Unaffected, dbVars, Effective, Stored, Due, Counting
  <2>3. V1Decoded(Row(s)) \in Record
    BY <1>1, V1DecodedType
  <2> QED BY <1>2, <1>9, <2>1, <2>2, <2>3 DEF Hgetall, Issue, Carries, LastCommand
<1>10. CASE Get(s)
  <2>1. pc[s] = "GET"
    BY <1>10 DEF Get, At
  <2>2. Unaffected => Effective(s)
    BY <1>1, <2>1 DEF Unaffected, dbVars, Effective, Stored, Due, Counting
  <2>3. CASE IsUpdate(s)
    <3>1. ASSUME held' = [held EXCEPT ![s] = Row(s)], pc' = [pc EXCEPT ![s] = "SET"],
                 UNCHANGED <<outcome, at, acked>>
          PROVE  Proceeds(s, "SET")
      BY <2>1, <2>3, <3>1 DEF Proceeds
    <3>2. "SET" \in Commands
      BY DEF Commands, Counting
    <3> QED BY <1>2, <1>10, <2>2, <2>3, <3>1, <3>2 DEF Get, Issue, Carries
  <2>4. CASE ~IsUpdate(s)
    BY <1>1, <1>2, <1>10, <2>1, <2>2, <2>4 DEF Get, Issue, Carries, LastCommand
  <2> QED BY <2>3, <2>4
<1>11. CASE Set(s)
  <2>1. pc[s] = "SET"
    BY <1>11 DEF Set, At
  <2>2. CASE maxAge = 0
    BY <1>2, <1>11, <2>2 DEF Set, Refused, Carries
  <2>3. CASE maxAge # 0
    <3>1. ASSUME Put(s, V0Record(s)), Counted(s),
                 deadline' = [deadline EXCEPT ![DigestOf(s)] =
                                IF maxAge = NoTime THEN NoTime ELSE now + maxAge]
          PROVE  Effective(s)
      BY <1>1, <2>1, <2>3, <3>1 DEF Put, Counted, Effective, Stored, Due, Counting
    <3> QED BY <1>2, <1>11, <2>1, <2>3, <3>1, BlankType DEF Set, Issue, Carries, LastCommand
  <2> QED BY <2>2, <2>3
<1>12. CASE Upsert(s)
  <2>1. pc[s] = "UPSERT"
    BY <1>12 DEF Upsert, At
  <2>2. CASE Row(s)[Count(s)] = MaxCount
    BY <1>2, <1>12, <2>2 DEF Upsert, Refused, Carries
  <2>3. CASE Row(s)[Count(s)] # MaxCount
    <3>1. ASSUME Put(s, IF Row(s) = Blank THEN Inserted(s)
                        ELSE [Row(s) EXCEPT ![Count(s)] = @ + 1, ![Updated(s)] = now]),
                 Counted(s), UNCHANGED deadline
          PROVE  Effective(s)
      BY <1>1, <2>1, <2>3, <3>1 DEF Put, Counted, Effective, Stored, Due, Counting
    <3> QED BY <1>2, <1>12, <2>1, <2>3, <3>1, BlankType DEF Upsert, Issue, Carries, LastCommand
  <2> QED BY <2>2, <2>3
<1>13. CASE UpsertAll(s)
  <2>1. pc[s] = "UPSERT all"
    BY <1>13 DEF UpsertAll, At
  <2>2. ASSUME Put(s, ProxyRecord(job[s].answer, stamp[s])), Counted(s), UNCHANGED deadline
        PROVE  Effective(s)
    BY <1>1, <2>1, <2>2 DEF Put, Counted, Effective, Stored, Due, Counting
  <2> QED BY <1>2, <1>13, <2>1, <2>2, BlankType DEF UpsertAll, Issue, Carries, LastCommand
<1>14. CASE Select(s)
  <2>1. pc[s] = "SELECT"
    BY <1>14 DEF Select, At
  <2>2. Unaffected => Effective(s)
    BY <1>1, <2>1 DEF Unaffected, dbVars, Effective, Stored, Due, Counting
  <2> QED BY <1>1, <1>2, <1>14, <2>1, <2>2 DEF Select, Issue, Carries, LastCommand
<1> QED BY <1>3, <1>4, <1>6, <1>7, <1>8, <1>9, <1>10, <1>11, <1>12, <1>13, <1>14 DEF Works

LEMMA WrittenType ==
  ASSUME TypeInv, NEW s \in Sessions, outcome[s] = "busy",
         pc[s] \in {"HINCRBY", "UPSERT"} => Row(s)[Count(s)] # MaxCount
  PROVE  Stored(s) \in Record /\ Due(s) \in Times
<1> DEFINE d == DigestOf(s)
<1>1. /\ d \in Digests /\ Row(s) \in Record /\ job[s].op \in {"report", "whitelist", "set", "get"}
      /\ job[s].answer \in Record /\ stamp[s] \in Int /\ now \in Int /\ held[s] \in Record
      /\ pc[s] \in Program(s)
  BY DigestType, JobType DEF TypeInv
<1>2. Due(s) \in Times
  <2>1. maxAge \in Times /\ (pc[s] = "EXPIRE" => maxAge \in Int)
    BY EnginesAssumption DEF TypeInv, Expiring, Times
  <2>2. CASE pc[s] = "EXPIRE"
    <3>1. Due(s) = IF Row(s) = Blank THEN NoTime ELSE now + maxAge
      BY <2>2 DEF Due
    <3> QED BY <1>1, <2>1, <2>2, <3>1 DEF Times
  <2>3. CASE pc[s] = "SET"
    <3>1. Due(s) = IF maxAge = NoTime THEN NoTime ELSE now + maxAge
      BY <2>3 DEF Due
    <3> QED BY <1>1, <2>1, <3>1 DEF Times
  <2>4. CASE pc[s] \notin {"EXPIRE", "SET"}
    <3>1. Due(s) = deadline[d]
      BY <2>4 DEF Due
    <3> QED BY <1>1, <3>1 DEF TypeInv
  <2> QED BY <2>2, <2>3, <2>4
<1>3. CASE pc[s] = "HINCRBY"
  <2>1. Stored(s) = [Row(s) EXCEPT ![Count(s)] = Row(s)[Count(s)] + 1]
    BY <1>3 DEF Stored
  <2>2. Row(s)[Count(s)] \in Counts /\ Row(s)[Count(s)] # MaxCount
    BY <1>1, <1>3 DEF Record, Count
  <2>3. Row(s)[Count(s)] + 1 \in Counts
    BY <2>2, RecordsAssumption DEF Counts
  <2>4. [Row(s) EXCEPT ![Count(s)] = Row(s)[Count(s)] + 1] \in Record
    BY Zenon, <1>1, <2>3, CountSet, SidesType
  <2> QED BY Zenon, <1>2, <2>1, <2>4
<1>4. CASE pc[s] = "HSETNX"
  <2>1. Stored(s) = [Row(s) EXCEPT ![Entered(s)] = FirstTime(Row(s)[Entered(s)], stamp[s])]
    BY <1>4 DEF Stored
  <2>2. Row(s)[Entered(s)] \in Times
    BY <1>1 DEF Record, Entered
  <2>3. FirstTime(Row(s)[Entered(s)], stamp[s]) \in Times
    BY <1>1, <2>2 DEF FirstTime, Times
  <2>4. [Row(s) EXCEPT ![Entered(s)] = FirstTime(Row(s)[Entered(s)], stamp[s])] \in Record
    BY Zenon, <1>1, <2>3, TimeSet, SidesType
  <2> QED BY Zenon, <1>2, <2>1, <2>4
<1>5. CASE pc[s] = "HSET"
  <2>1. Stored(s) = [Row(s) EXCEPT ![Updated(s)] = stamp[s]]
    BY <1>5 DEF Stored
  <2>2. stamp[s] \in Times
    BY <1>1 DEF Times
  <2>3. [Row(s) EXCEPT ![Updated(s)] = stamp[s]] \in Record
    BY Zenon, <1>1, <2>2, TimeSet, SidesType
  <2> QED BY Zenon, <1>2, <2>1, <2>3
<1>6. CASE pc[s] = "HSET all"
  <2>1. Stored(s) = V1Encoded(ProxyRecord(job[s].answer, stamp[s]))
    BY <1>6 DEF Stored
  <2> QED BY <1>1, <1>2, <2>1, V1EncodedType, ProxyRecordType
<1>7. CASE pc[s] = "SET"
  <2>1. Stored(s) = V0Record(s)
    BY <1>7 DEF Stored
  <2> QED BY <1>1, <1>2, <2>1, ProxyRecordType, IncrementType DEF V0Record
<1>8. CASE pc[s] = "UPSERT"
  <2>1. Stored(s) = IF Row(s) = Blank THEN Inserted(s)
                     ELSE [Row(s) EXCEPT ![Count(s)] = @ + 1, ![Updated(s)] = now]
    BY <1>8 DEF Stored
  <2>2. Inserted(s) \in Record
    BY <1>1, RecordsAssumption DEF Inserted, Record, Counts, Times
  <2>3. Row(s)[Count(s)] \in Counts /\ Row(s)[Count(s)] # MaxCount
    BY <1>1, <1>8 DEF Record, Count
  <2>4. Row(s)[Count(s)] + 1 \in Counts /\ now \in Times
    BY <1>1, <2>3, RecordsAssumption DEF Counts, Times
  <2>5. [Row(s) EXCEPT ![Count(s)] = @ + 1, ![Updated(s)] = now] \in Record
    BY <1>1, <2>4 DEF Record, Count, Updated
  <2> QED BY <1>2, <2>1, <2>2, <2>5
<1>9. CASE pc[s] = "UPSERT all"
  <2>1. Stored(s) = ProxyRecord(job[s].answer, stamp[s])
    BY <1>9 DEF Stored
  <2> QED BY <1>1, <1>2, <2>1, ProxyRecordType
<1>10. CASE pc[s] \notin {"HINCRBY", "HSETNX", "HSET", "HSET all", "SET", "UPSERT", "UPSERT all"}
  <2>1. Stored(s) = Row(s)
    BY <1>10 DEF Stored
  <2> QED BY <1>1, <1>2, <2>1
<1> QED BY <1>2, <1>3, <1>4, <1>5, <1>6, <1>7, <1>8, <1>9, <1>10

\* Every step is of one of these kinds.
LEMMA StepKinds ==
  ASSUME TypeInv, [Next]_vars
  PROVE  \/ \E s \in Sessions : Begin(s)
         \/ \E s \in Sessions : Carries(s)
         \/ Tick \/ (\E d \in Digests : KeyExpires(d)) \/ Reorganize
         \/ UNCHANGED vars
<1>1. ASSUME NEW s \in Sessions, Session(s) PROVE Begin(s) \/ Carries(s)
  <2>1. Begin(s) \/ (Works(s) /\ (~UpsertAll(s) => UNCHANGED cached))
    BY <1>1 DEF Session, Works
  <2> QED BY <2>1, WorksCarries
<1> QED BY <1>1 DEF Next

LEMMA TypeInit == Init => TypeInv
<1> SUFFICES ASSUME Init PROVE TypeInv
  OBVIOUS
<1>1. /\ engine \in Kinds /\ maxAge \in Ages /\ now = 1
      /\ table = [d \in Digests |-> Blank] /\ deadline = [d \in Digests |-> NoTime]
      /\ job \in [Sessions -> Jobs]
      /\ outcome = [s \in Sessions |-> "none"] /\ taken = [s \in Sessions |-> 0]
      /\ pc = [s \in Sessions |-> "idle"] /\ at = [s \in Sessions |-> 1]
      /\ stamp = [s \in Sessions |-> 0] /\ held = [s \in Sessions |-> Blank]
      /\ acked = [d \in Digests |-> NoTime] /\ cached = [d \in Digests |-> 0]
  BY DEF Init
<1>2. \A s \in Sessions : at[s] <= Len(job[s].digests)
  BY <1>1, JobType
<1>3. NoTime \in Times
  BY DEF Times
<1> QED BY <1>1, <1>2, <1>3, BlankType DEF TypeInv

\* Where a step leaves a session.
LEMMA FirstType ==
  ASSUME TypeInv, NEW s \in Sessions
  PROVE  First(s) \in Program(s) /\ First(s) \in Commands /\ First(s) # "EXPIRE"
<1>1. engine \in {"redis", "redis_v0", "mysql"}
  BY EnginesAssumption DEF TypeInv
<1>2. CASE engine = "redis"
  BY <1>2 DEF First, Program, Commands, Reading, Counting
<1>3. CASE engine = "redis_v0"
  BY <1>3 DEF First, Program, Commands, Reading, Counting, IsUpdate
<1>4. CASE engine = "mysql"
  BY <1>4 DEF First, Program, Commands, Reading, Counting
<1> QED BY <1>1, <1>2, <1>3, <1>4

LEMMA FollowsType ==
  ASSUME TypeInv, NEW s \in Sessions, NEW next \in Commands, outcome[s] = "busy", Proceeds(s, next)
  PROVE  next \in Program(s) /\ (next = "EXPIRE" => Expiring)
<1>1. pc[s] \in Program(s) /\ engine \in {"redis", "redis_v0", "mysql"}
  BY EnginesAssumption DEF TypeInv
<1>2. CASE pc[s] \in {"HINCRBY", "HSETNX", "HSET"}
  BY <1>1, <1>2 DEF Proceeds, Program
<1>3. CASE pc[s] = "HSET all"
  BY <1>1, <1>3 DEF Proceeds, Program
<1>4. CASE pc[s] = "GET"
  BY <1>1, <1>4 DEF Proceeds, Program, IsUpdate
<1> QED BY <1>2, <1>3, <1>4 DEF Proceeds

LEMMA ProgramKept ==
  ASSUME UNCHANGED <<engine, maxAge, job>>, NEW s
  PROVE  Program(s)' = Program(s) /\ Expiring' = Expiring /\ IsUpdate(s)' = IsUpdate(s)
         /\ Refreshes(s)' = Refreshes(s)
BY DEF Program, Expiring, IsUpdate, Refreshes

LEMMA CarriesType == ASSUME TypeInv, NEW s \in Sessions, Carries(s) PROVE TypeInv'
<1>1. UNCHANGED <<engine, maxAge, now, job, stamp>> /\ outcome[s] = "busy"
  BY DEF Carries, Stays
<1>2. DigestOf(s) \in Digests /\ at[s] \in 1..Len(job[s].digests) /\ Len(job[s].digests) \in Nat
  BY DigestType
<1>3. cached' \in [Digests -> Nat]
  BY <1>2 DEF Carries, TypeInv
<1>4. /\ table' \in [Digests -> Record] /\ deadline' \in [Digests -> Times]
      /\ taken' \in [Sessions -> Nat]
  <2>1. CASE Unaffected
    BY <2>1 DEF Unaffected, dbVars, TypeInv
  <2>2. CASE Effective(s)
    <3>1. Stored(s) \in Record /\ Due(s) \in Times
      BY <1>1, <2>2, WrittenType DEF Effective
    <3>2. taken' \in [Sessions -> Nat]
      BY <2>2 DEF Effective, TypeInv
    <3> QED BY <2>2, <3>1, <3>2 DEF Effective, TypeInv
  <2> QED BY <2>1, <2>2 DEF Carries
<1> DEFINE Moved ==
      /\ outcome' \in [Sessions -> {"none", "busy", "ok", "failed"}]
      /\ pc' \in [Sessions -> Commands \cup {"idle"}]
      /\ at' \in [Sessions -> Nat \ {0}] /\ held' \in [Sessions -> Record]
      /\ acked' \in [Digests -> Times]
      /\ at'[s] <= Len(job[s].digests) /\ \A r \in Sessions \ {s} : at'[r] = at[r]
      /\ outcome'[s] = "busy" => pc'[s] \in Program(s) /\ (pc'[s] = "EXPIRE" => Expiring)
      /\ \A r \in Sessions \ {s} : outcome'[r] = outcome[r] /\ pc'[r] = pc[r]
<1>5. ASSUME Fails(s) PROVE Moved
  BY <1>2, <1>5 DEF Fails, TypeInv
<1>6. ASSUME NEW next \in Commands, Proceeds(s, next) PROVE Moved
  <2>1. next \in Program(s) /\ (next = "EXPIRE" => Expiring)
    BY <1>1, <1>6, FollowsType
  <2>2. pc' = [pc EXCEPT ![s] = next] /\ UNCHANGED <<outcome, at, acked>>
        /\ held' = IF next = "SET" THEN [held EXCEPT ![s] = Row(s)] ELSE held
    BY <1>6 DEF Proceeds
  <2>3. held' \in [Sessions -> Record]
    BY <2>2, DigestType DEF TypeInv
  <2> QED BY <1>2, <2>1, <2>2, <2>3 DEF TypeInv
<1>7. ASSUME NEW read \in Record, Onward(s, read) PROVE Moved
  <2>1. held' \in [Sessions -> Record]
    BY <1>7 DEF Onward, TypeInv
  <2>2. CASE at[s] < Len(job[s].digests)
    <3>1. /\ at' = [at EXCEPT ![s] = @ + 1] /\ pc' = [pc EXCEPT ![s] = First(s)]
          /\ UNCHANGED <<outcome, acked>>
      BY <1>7, <2>2 DEF Onward
    <3>2. First(s) \in Program(s) /\ First(s) \in Commands /\ First(s) # "EXPIRE"
      BY FirstType
    <3> QED BY <1>2, <2>1, <2>2, <3>1, <3>2 DEF TypeInv
  <2>3. CASE ~(at[s] < Len(job[s].digests))
    <3>1. /\ outcome' = [outcome EXCEPT ![s] = "ok"] /\ pc' = [pc EXCEPT ![s] = "idle"]
          /\ UNCHANGED at
      BY <1>7, <2>3 DEF Onward
    <3>2. acked' \in [Digests -> Times]
      <4>1. stamp[s] \in Times /\ \A d \in Digests : acked[d] \in Times
        BY DEF TypeInv, Times
      <4>2. acked' = [d \in Digests |->
                 IF /\ IsUpdate(s) /\ Refreshes(s)
                    /\ \E i \in DOMAIN job[s].digests : job[s].digests[i] = d
                    /\ acked[d] = NoTime \/ acked[d] < stamp[s]
                 THEN stamp[s] ELSE acked[d]]
        BY <1>7, <2>3 DEF Onward
      <4> QED BY <4>1, <4>2
    <3> QED BY <1>2, <2>1, <3>1, <3>2 DEF TypeInv
  <2> QED BY <2>2, <2>3
<1>8. Moved
  BY <1>5, <1>6, <1>7 DEF Carries
<1>9. ASSUME NEW r \in Sessions
      PROVE  /\ at'[r] <= Len(job'[r].digests) /\ stamp'[r] <= now'
             /\ outcome'[r] = "busy" =>
                  pc'[r] \in Program(r)' /\ (pc'[r] = "EXPIRE" => Expiring')
  <2>1. Program(r)' = Program(r) /\ Expiring' = Expiring
    BY <1>1, ProgramKept
  <2>2. CASE r = s
    BY <1>1, <1>8, <2>1, <2>2 DEF TypeInv
  <2>3. CASE r # s
    <3>1. at'[r] = at[r] /\ outcome'[r] = outcome[r] /\ pc'[r] = pc[r]
      BY <1>8, <2>3
    <3> QED BY <1>1, <2>1, <3>1 DEF TypeInv
  <2> QED BY <2>2, <2>3
<1>10. engine' \in Kinds /\ maxAge' \in Ages /\ now' \in Nat /\ job' \in [Sessions -> Jobs]
       /\ stamp' \in [Sessions -> Nat]
  BY <1>1 DEF TypeInv
<1> QED BY <1>3, <1>4, <1>8, <1>9, <1>10 DEF TypeInv

LEMMA TypeStep == TypeInv /\ [Next]_vars => TypeInv'
<1> SUFFICES ASSUME TypeInv, [Next]_vars PROVE TypeInv'
  OBVIOUS
<1>1. ASSUME UNCHANGED <<engine, maxAge, job>>, NEW s
      PROVE  Program(s)' = Program(s) /\ Expiring' = Expiring
  BY <1>1, ProgramKept
<1>2. ASSUME NEW s \in Sessions, Begin(s) PROVE TypeInv'
  <2>1. /\ outcome' = [outcome EXCEPT ![s] = "busy"]
        /\ pc' = [pc EXCEPT ![s] = First(s)] /\ stamp' = [stamp EXCEPT ![s] = now]
        /\ UNCHANGED <<engine, maxAge, now, table, deadline, job, taken, at, held, acked, cached>>
    BY <1>2 DEF Begin, dbVars
  <2>2. First(s) \in Program(s) /\ First(s) \in Commands /\ First(s) # "EXPIRE"
    BY FirstType
  <2>3. ASSUME NEW r \in Sessions
        PROVE  /\ at'[r] <= Len(job'[r].digests) /\ stamp'[r] <= now'
               /\ outcome'[r] = "busy" =>
                    pc'[r] \in Program(r)' /\ (pc'[r] = "EXPIRE" => Expiring')
    <3>1. Program(r)' = Program(r) /\ Expiring' = Expiring
      BY <1>1, <2>1
    <3> QED BY <2>1, <2>2, <3>1 DEF TypeInv
  <2> QED BY <2>1, <2>2, <2>3 DEF TypeInv
<1>3. CASE Tick
  <2>1. /\ now' = now + 1
        /\ UNCHANGED <<engine, maxAge, table, deadline, job, outcome, taken, pc, at, stamp, held,
                       acked, cached>>
    BY <1>3 DEF Tick, dbVars
  <2>2. \A r \in Sessions : Program(r)' = Program(r) /\ Expiring' = Expiring
    BY <1>1, <2>1
  <2> QED BY <2>1, <2>2 DEF TypeInv
<1>4. ASSUME NEW d \in Digests, KeyExpires(d) PROVE TypeInv'
  <2>1. /\ table' = [table EXCEPT ![d] = Blank] /\ deadline' = [deadline EXCEPT ![d] = NoTime]
        /\ UNCHANGED <<engine, maxAge, now, job, outcome, taken, pc, at, stamp, held, acked, cached>>
    BY <1>4 DEF KeyExpires
  <2>2. \A r \in Sessions : Program(r)' = Program(r) /\ Expiring' = Expiring
    BY <1>1, <2>1
  <2>3. NoTime \in Times
    BY DEF Times
  <2> QED BY <2>1, <2>2, <2>3, BlankType DEF TypeInv
<1>5. CASE Reorganize
  <2>1. UNCHANGED <<engine, maxAge, now, deadline, job, outcome, taken, pc, at, stamp, held, acked,
                    cached>>
    BY <1>5 DEF Reorganize
  <2>2. \A r \in Sessions : Program(r)' = Program(r) /\ Expiring' = Expiring
    BY <1>1, <2>1
  <2>3. table' \in [Digests -> Record]
    BY <1>5, BlankType DEF Reorganize, TypeInv
  <2> QED BY <2>1, <2>2, <2>3 DEF TypeInv
<1>6. CASE UNCHANGED vars
  <2>1. UNCHANGED <<engine, maxAge, now, table, deadline, job, outcome, taken, pc, at, stamp, held,
                    acked, cached>>
    BY <1>6 DEF vars, dbVars
  <2>2. \A r \in Sessions : Program(r)' = Program(r) /\ Expiring' = Expiring
    BY <1>1, <2>1
  <2> QED BY <2>1, <2>2 DEF TypeInv
<1> QED BY <1>2, <1>3, <1>4, <1>5, <1>6, StepKinds, CarriesType
-----------------------------------------------------------------------------
(* What a report leaves behind.                                                *)

Updates == {"report", "whitelist"}

\* A count of a side has the time of its update.
Told(rec, op) ==
    IF op = "report" THEN rec.r_count > 0 => rec.r_updated # NoTime
    ELSE rec.wl_count > 0 => rec.wl_updated # NoTime

\* A session is between the commands that write the row of d, or failed on it.
Breaks(s, d, ops, commands) ==
    /\ DigestOf(s) = d /\ job[s].op \in ops
    /\ outcome[s] = "failed" \/ (outcome[s] = "busy" /\ pc[s] \in commands)
Excused(d, ops, commands) == \E s \in Sessions : Breaks(s, d, ops, commands)

Writes == {"report", "whitelist", "set"}
Dated == {"HSETNX", "HSET"}
Endless == {"HSETNX", "HSET", "EXPIRE"}

HalfInv ==
    /\ TypeInv
    /\ engine # "redis" => \A d \in Digests : \A op \in Updates : Told(table[d], op)
    /\ \A s \in Sessions : outcome[s] = "busy" /\ pc[s] = "SET" /\ IsUpdate(s)
                             => \A op \in Updates : Told(held[s], op)
    /\ \A d \in Digests : \A op \in Updates : Told(table[d], op) \/ Excused(d, {op}, Dated)
    /\ \A d \in Digests : \/ Expiring /\ table[d] # Blank => deadline[d] # NoTime
                          \/ Excused(d, Writes, Endless)

LEMMA BlankTold == \A op \in Updates : Told(Blank, op)
BY DEF Told, Blank

\* A command keeps the time of a count, except that HINCRBY counts before it.
LEMMA WrittenTold ==
  ASSUME TypeInv, NEW s \in Sessions, outcome[s] = "busy",
         pc[s] \in {"HINCRBY", "UPSERT"} => Row(s)[Count(s)] # MaxCount,
         NEW op \in Updates,
         pc[s] = "SET" /\ IsUpdate(s) => Told(held[s], op),
         Told(Row(s), op) \/ (pc[s] = "HSET" /\ job[s].op = op),
         ~(pc[s] = "HINCRBY" /\ job[s].op = op)
  PROVE  Told(Stored(s), op)
<1>1. /\ Row(s) \in Record /\ job[s].op \in {"report", "whitelist", "set", "get"}
      /\ job[s].answer \in Record /\ stamp[s] \in Int /\ now \in Int /\ held[s] \in Record
      /\ pc[s] \in Program(s) /\ engine \in {"redis", "redis_v0", "mysql"}
  BY DigestType, JobType, EnginesAssumption DEF TypeInv
<1>2. NoTime \notin Int
  BY RecordsAssumption
<1>3. CASE pc[s] \in {"HINCRBY", "HSETNX", "HSET"}
  <2>1. IsUpdate(s)
    BY <1>1, <1>3 DEF Program
  <2>2. CASE pc[s] = "HINCRBY"
    <3>1. Stored(s) = [Row(s) EXCEPT ![Count(s)] = Row(s)[Count(s)] + 1]
      BY <2>2 DEF Stored
    <3>2. job[s].op # op /\ Told(Row(s), op)
      BY <2>2
    <3> QED BY <1>1, <2>1, <3>1, <3>2 DEF Told, Record, IsUpdate, Updates, Count
  <2>3. CASE pc[s] = "HSETNX"
    <3>1. Stored(s) = [Row(s) EXCEPT ![Entered(s)] = FirstTime(Row(s)[Entered(s)], stamp[s])]
      BY <2>3 DEF Stored
    <3>2. Told(Row(s), op)
      BY <2>3
    <3> QED BY <1>1, <2>1, <3>1, <3>2 DEF Told, Record, IsUpdate, Updates, Entered
  <2>4. CASE pc[s] = "HSET"
    <3>1. Stored(s) = [Row(s) EXCEPT ![Updated(s)] = stamp[s]]
      BY <2>4 DEF Stored
    <3> QED BY <1>1, <1>2, <2>1, <3>1 DEF Told, Record, IsUpdate, Updates, Updated
  <2> QED BY <1>3, <2>2, <2>3, <2>4
<1>4. ASSUME NEW rec \in Record, rec = ProxyRecord(job[s].answer, stamp[s])
      PROVE  Told(rec, op)
  BY <1>1, <1>2, <1>4 DEF Told, ProxyRecord, ProxyTime, Record
<1>5. CASE pc[s] = "HSET all"
  <2>1. Stored(s) = V1Encoded(ProxyRecord(job[s].answer, stamp[s]))
    BY <1>5 DEF Stored
  <2> QED BY <1>1, <2>1, V1EncodedType, ProxyRecordType DEF Told
<1>6. CASE pc[s] = "SET"
  <2>1. Stored(s) = V0Record(s)
    BY <1>6 DEF Stored
  <2>2. CASE IsUpdate(s)
    <3>1. Told(held[s], op)
      BY <1>6, <2>2
    <3> QED BY <1>1, <1>2, <2>1, <2>2, <3>1
        DEF V0Record, Told, RIncrement, WlIncrement, Record, IsUpdate, Updates
  <2>3. CASE ~IsUpdate(s)
    <3>1. V0Record(s) = ProxyRecord(job[s].answer, stamp[s])
      BY <2>3 DEF V0Record, IsUpdate
    <3> QED BY <1>1, <1>4, <2>1, <3>1, ProxyRecordType
  <2> QED BY <2>2, <2>3
<1>7. CASE pc[s] = "UPSERT"
  <2>1. Stored(s) = IF Row(s) = Blank THEN Inserted(s)
                     ELSE [Row(s) EXCEPT ![Count(s)] = @ + 1, ![Updated(s)] = now]
    BY <1>7 DEF Stored
  <2>2. Told(Inserted(s), op)
    BY <1>1, <1>2 DEF Told, Inserted
  <2>3. Told(Row(s), op) /\ IsUpdate(s)
    BY <1>1, <1>7 DEF Program
  <2>4. Told([Row(s) EXCEPT ![Count(s)] = @ + 1, ![Updated(s)] = now], op)
    BY <1>1, <1>2, <2>3 DEF Told, Record, IsUpdate, Updates, Count, Updated
  <2> QED BY <2>1, <2>2, <2>4
<1>8. CASE pc[s] = "UPSERT all"
  <2>1. Stored(s) = ProxyRecord(job[s].answer, stamp[s])
    BY <1>8 DEF Stored
  <2> QED BY <1>1, <1>4, <2>1, ProxyRecordType
<1>9. CASE pc[s] \notin {"HINCRBY", "HSETNX", "HSET", "HSET all", "SET", "UPSERT", "UPSERT all"}
  <2>1. Stored(s) = Row(s) /\ Told(Row(s), op)
    BY <1>9 DEF Stored
  <2> QED BY <2>1
<1> QED BY <1>3, <1>5, <1>6, <1>7, <1>8, <1>9

LEMMA BreaksKept ==
  ASSUME NEW r, job' = job, at'[r] = at[r], outcome'[r] = outcome[r], pc'[r] = pc[r],
         NEW d, NEW ops, NEW commands, Breaks(r, d, ops, commands)
  PROVE  Breaks(r, d, ops, commands)'
BY DEF Breaks, DigestOf

\* What a command leaves alone.
LEMMA OthersKept ==
  ASSUME TypeInv, NEW s \in Sessions, Carries(s)
  PROVE  /\ \A r \in Sessions : r # s => /\ at'[r] = at[r] /\ outcome'[r] = outcome[r]
                                         /\ pc'[r] = pc[r] /\ held'[r] = held[r]
         /\ \A d \in Digests : d # DigestOf(s) => table'[d] = table[d] /\ deadline'[d] = deadline[d]
         /\ UNCHANGED <<engine, maxAge, now, job, stamp>>
<1>1. /\ \A d \in Digests : d # DigestOf(s) => table'[d] = table[d] /\ deadline'[d] = deadline[d]
      /\ UNCHANGED <<engine, maxAge, now, job, stamp>> /\ DigestOf(s) \in Digests
  BY DigestType DEF Carries, Stays, Unaffected, dbVars, Effective, TypeInv
<1> DEFINE Others == \A r \in Sessions : r # s => /\ at'[r] = at[r] /\ outcome'[r] = outcome[r]
                                                  /\ pc'[r] = pc[r] /\ held'[r] = held[r]
<1>2. Fails(s) => Others
  BY DEF Fails, TypeInv
<1>3. \A next \in Commands : Proceeds(s, next) => Others
  <2> SUFFICES ASSUME NEW next \in Commands, Proceeds(s, next) PROVE Others
    OBVIOUS
  <2>1. /\ pc' = [pc EXCEPT ![s] = next] /\ UNCHANGED <<outcome, at, acked>>
        /\ held' = IF next = "SET" THEN [held EXCEPT ![s] = Row(s)] ELSE held
    BY DEF Proceeds
  <2> QED BY <2>1 DEF TypeInv
<1>4. \A read \in Record : Onward(s, read) => Others
  <2> SUFFICES ASSUME NEW read \in Record, Onward(s, read) PROVE Others
    OBVIOUS
  <2>1. held' = [held EXCEPT ![s] = read]
    BY DEF Onward
  <2>2. \/ at' = [at EXCEPT ![s] = @ + 1] /\ pc' = [pc EXCEPT ![s] = First(s)] /\ outcome' = outcome
        \/ at' = at /\ pc' = [pc EXCEPT ![s] = "idle"] /\ outcome' = [outcome EXCEPT ![s] = "ok"]
    BY DEF Onward
  <2> QED BY <2>1, <2>2 DEF TypeInv
<1>5. Others
  BY <1>2, <1>3, <1>4 DEF Carries
<1> QED BY <1>1, <1>5

\* A step of s takes no other session from the row it is writing.
LEMMA BrokenKept ==
  ASSUME TypeInv, NEW s \in Sessions, Carries(s), NEW d, NEW ops, NEW commands,
         Excused(d, ops, commands), ~Breaks(s, d, ops, commands)
  PROVE  Excused(d, ops, commands)'
<1>1. PICK r \in Sessions : Breaks(r, d, ops, commands)
  BY DEF Excused
<1>2. r # s
  BY <1>1
<1>3. /\ at'[r] = at[r] /\ outcome'[r] = outcome[r] /\ pc'[r] = pc[r] /\ job' = job
  BY <1>2, OthersKept
<1>4. Breaks(r, d, ops, commands)'
  BY <1>1, <1>3, BreaksKept
<1> QED BY <1>4 DEF Excused

\* Where a step leaves the session that takes it.
LEMMA Outcomes ==
  ASSUME TypeInv, NEW s \in Sessions, Carries(s)
  PROVE  /\ outcome[s] = "busy" /\ pc[s] \in Program(s)
         /\ engine \in {"redis", "redis_v0", "mysql"}
         /\ job[s].op \in {"report", "whitelist", "set", "get"}
         /\ \/ /\ table'[DigestOf(s)] = Row(s) /\ deadline'[DigestOf(s)] = deadline[DigestOf(s)]
               /\ taken'[s] = taken[s]
               /\ outcome'[s] = "failed" /\ at'[s] = at[s]
            \/ /\ pc[s] \in {"HINCRBY", "UPSERT"} => Row(s)[Count(s)] # MaxCount
               /\ pc[s] = "SET" => maxAge # 0
               /\ table'[DigestOf(s)] = Stored(s) /\ deadline'[DigestOf(s)] = Due(s)
               /\ taken'[s] = IF pc[s] \in Counting THEN taken[s] + 1 ELSE taken[s]
               /\ \/ outcome'[s] = "failed" /\ at'[s] = at[s]
                  \/ /\ outcome'[s] = "busy" /\ at'[s] = at[s]
                     /\ Proceeds(s, pc'[s])
                     /\ pc'[s] = "SET" => held'[s] = Row(s)
                  \/ /\ outcome'[s] = "busy" /\ at'[s] = at[s] + 1 /\ at[s] < Len(job[s].digests)
                     /\ LastCommand(s) /\ pc'[s] = First(s)
                  \/ /\ outcome'[s] = "ok" /\ at'[s] = at[s] /\ at[s] = Len(job[s].digests)
                     /\ LastCommand(s) /\ pc'[s] = "idle"
<1>1. /\ DigestOf(s) \in Digests /\ at[s] \in 1..Len(job[s].digests) /\ Len(job[s].digests) \in Nat
      /\ job[s].op \in {"report", "whitelist", "set", "get"}
  BY DigestType
<1>2. outcome[s] = "busy" /\ pc[s] \in Program(s) /\ engine \in {"redis", "redis_v0", "mysql"}
  BY EnginesAssumption DEF Carries, TypeInv
<1> DEFINE
      Fell == outcome'[s] = "failed" /\ at'[s] = at[s]
      Goes == /\ outcome'[s] = "busy" /\ at'[s] = at[s]
              /\ Proceeds(s, pc'[s])
              /\ pc'[s] = "SET" => held'[s] = Row(s)
      Turns == /\ outcome'[s] = "busy" /\ at'[s] = at[s] + 1 /\ at[s] < Len(job[s].digests)
               /\ LastCommand(s) /\ pc'[s] = First(s)
      Ends == /\ outcome'[s] = "ok" /\ at'[s] = at[s] /\ at[s] = Len(job[s].digests)
              /\ LastCommand(s) /\ pc'[s] = "idle"
      Did == /\ pc[s] \in {"HINCRBY", "UPSERT"} => Row(s)[Count(s)] # MaxCount
             /\ pc[s] = "SET" => maxAge # 0
             /\ table'[DigestOf(s)] = Stored(s) /\ deadline'[DigestOf(s)] = Due(s)
             /\ taken'[s] = IF pc[s] \in Counting THEN taken[s] + 1 ELSE taken[s]
<1>3. Fails(s) => Fell
  BY DEF Fails, TypeInv
<1>4. Effective(s) => Did
  <2> SUFFICES ASSUME Effective(s) PROVE Did
    OBVIOUS
  <2>1. /\ table' = [table EXCEPT ![DigestOf(s)] = Stored(s)]
        /\ deadline' = [deadline EXCEPT ![DigestOf(s)] = Due(s)]
        /\ taken' = IF pc[s] \in Counting THEN [taken EXCEPT ![s] = @ + 1] ELSE taken
    BY DEF Effective
  <2>2. taken'[s] = IF pc[s] \in Counting THEN taken[s] + 1 ELSE taken[s]
    BY <2>1 DEF TypeInv
  <2>3. table'[DigestOf(s)] = Stored(s) /\ deadline'[DigestOf(s)] = Due(s)
    BY <1>1, <2>1 DEF TypeInv
  <2> QED BY <2>2, <2>3 DEF Effective
<1>5. ASSUME NEW next \in Commands, Proceeds(s, next) PROVE Goes
  <2>1. /\ pc' = [pc EXCEPT ![s] = next] /\ UNCHANGED <<outcome, at, acked>>
        /\ held' = IF next = "SET" THEN [held EXCEPT ![s] = Row(s)] ELSE held
    BY <1>5 DEF Proceeds
  <2>2. pc'[s] = next /\ outcome'[s] = "busy" /\ at'[s] = at[s]
        /\ (next = "SET" => held'[s] = Row(s))
    BY <1>2, <2>1 DEF TypeInv
  <2>3. Proceeds(s, pc'[s])
    BY Zenon, <1>5, <2>2
  <2> QED BY <2>2, <2>3
<1>6. ASSUME NEW read \in Record, Onward(s, read), LastCommand(s) PROVE Turns \/ Ends
  BY <1>1, <1>2, <1>6 DEF Onward, TypeInv
<1>7. Unaffected => /\ table'[DigestOf(s)] = Row(s) /\ deadline'[DigestOf(s)] = deadline[DigestOf(s)]
                    /\ taken'[s] = taken[s]
  BY DEF Unaffected, dbVars, Row
<1> HIDE DEF Fell, Goes, Turns, Ends, Did
<1>8. \/ /\ table'[DigestOf(s)] = Row(s) /\ deadline'[DigestOf(s)] = deadline[DigestOf(s)]
         /\ taken'[s] = taken[s] /\ Fell
      \/ Did /\ (Fell \/ Goes \/ Turns \/ Ends)
  BY <1>3, <1>4, <1>5, <1>6, <1>7 DEF Carries
<1> QED BY <1>1, <1>2, <1>8 DEF Fell, Goes, Turns, Ends, Did

\* The four ways a command of s can go, for the digest it is at.
LEMMA ToldStep ==
  ASSUME HalfInv, NEW s \in Sessions, Carries(s), NEW op \in Updates, NEW d \in Digests
  PROVE  Told(table[d], op)' \/ Excused(d, {op}, Dated)'
<1>1. TypeInv /\ job' = job
  BY OthersKept DEF HalfInv
<1>2. Told(table[d], op) \/ Excused(d, {op}, Dated)
  BY DEF HalfInv
<1>3. CASE d # DigestOf(s)
  <2>1. table'[d] = table[d] /\ ~Breaks(s, d, {op}, Dated)
    BY <1>1, <1>3, OthersKept DEF Breaks
  <2> QED BY <1>1, <1>2, <2>1, BrokenKept DEF Told
<1>4. CASE d = DigestOf(s)
  <2> DEFINE Stuck == Breaks(s, d, {op}, Dated)
  <2>1. Told(Row(s), op) \/ Stuck \/ Excused(d, {op}, Dated)'
    BY <1>1, <1>2, <1>4, BrokenKept DEF Row
  <2>2. /\ outcome[s] = "busy" /\ pc[s] \in Program(s)
        /\ Stuck <=> job[s].op = op /\ pc[s] \in {"HSETNX", "HSET"}
    BY <1>1, <1>4, Outcomes DEF Breaks, Dated
  <2>3. ASSUME at'[s] = at[s], job[s].op = op,
               outcome'[s] = "failed" \/ (outcome'[s] = "busy" /\ pc'[s] \in {"HSETNX", "HSET"})
        PROVE  Excused(d, {op}, Dated)'
    <3>1. Breaks(s, d, {op}, Dated)'
      BY <1>1, <1>4, <2>3 DEF Breaks, Dated, DigestOf
    <3> QED BY <3>1 DEF Excused
  <2>4. CASE /\ table'[d] = Row(s) /\ outcome'[s] = "failed" /\ at'[s] = at[s]
    BY <2>1, <2>2, <2>3, <2>4 DEF Told
  <2>5. CASE /\ pc[s] \in {"HINCRBY", "UPSERT"} => Row(s)[Count(s)] # MaxCount
             /\ table'[d] = Stored(s)
             /\ \/ outcome'[s] = "failed" /\ at'[s] = at[s]
                \/ outcome'[s] = "busy" /\ at'[s] = at[s] /\ Proceeds(s, pc'[s])
                \/ LastCommand(s)
    <3>1. pc[s] = "SET" /\ IsUpdate(s) => Told(held[s], op)
      BY <2>2 DEF HalfInv
    <3>2. ASSUME Told(Row(s), op) \/ (pc[s] = "HSET" /\ job[s].op = op),
                 ~(pc[s] = "HINCRBY" /\ job[s].op = op)
          PROVE  Told(table[d], op)'
      <4>1. Told(Stored(s), op)
        BY <1>1, <2>2, <2>5, <3>1, <3>2, WrittenTold
      <4> QED BY <2>5, <4>1 DEF Told
    <3>3. CASE outcome'[s] = "failed" /\ at'[s] = at[s]
      BY <2>1, <2>2, <2>3, <3>2, <3>3
    <3>4. CASE outcome'[s] = "busy" /\ at'[s] = at[s] /\ Proceeds(s, pc'[s])
      <4>1. \/ pc[s] = "HINCRBY" /\ pc'[s] = "HSETNX"
            \/ pc[s] = "HSETNX" /\ pc'[s] = "HSET"
            \/ pc[s] \in {"HSET", "HSET all", "GET"}
        BY <3>4 DEF Proceeds
      <4> QED BY <2>1, <2>2, <2>3, <3>2, <3>4, <4>1
    <3>5. CASE LastCommand(s)
      <4>1. pc[s] \in {"EXPIRE", "HGETALL", "SELECT", "SET", "UPSERT", "UPSERT all", "HSET",
                       "HSET all", "GET"}
        BY <3>5 DEF LastCommand
      <4> QED BY <2>1, <2>2, <3>2, <4>1
    <3> QED BY <2>5, <3>3, <3>4, <3>5
  <2> QED BY <1>1, <1>4, <2>4, <2>5, Outcomes
<1> QED BY <1>3, <1>4

LEMMA ExpiryStep ==
  ASSUME HalfInv, NEW s \in Sessions, Carries(s), NEW d \in Digests
  PROVE  \/ Expiring' /\ table'[d] # Blank => deadline'[d] # NoTime
         \/ Excused(d, Writes, Endless)'
<1>1. TypeInv /\ job' = job /\ Expiring' = Expiring /\ now \in Int /\ maxAge \in Times
  BY OthersKept, EnginesAssumption DEF HalfInv, TypeInv, Expiring, Times
<1>2. (Expiring /\ table[d] # Blank => deadline[d] # NoTime) \/ Excused(d, Writes, Endless)
  BY DEF HalfInv
<1>3. CASE d # DigestOf(s)
  <2>1. table'[d] = table[d] /\ deadline'[d] = deadline[d] /\ ~Breaks(s, d, Writes, Endless)
    BY <1>1, <1>3, OthersKept DEF Breaks
  <2> QED BY <1>1, <1>2, <2>1, BrokenKept
<1>4. CASE d = DigestOf(s)
  <2> DEFINE Stuck == Breaks(s, d, Writes, Endless)
             Fine(row, due) == Expiring /\ row # Blank => due # NoTime
  <2>1. Fine(Row(s), deadline[d]) \/ Stuck \/ Excused(d, Writes, Endless)'
    BY <1>1, <1>2, <1>4, BrokenKept DEF Row
  <2>2. /\ outcome[s] = "busy" /\ pc[s] \in Program(s)
        /\ engine \in {"redis", "redis_v0", "mysql"}
        /\ job[s].op \in {"report", "whitelist", "set", "get"}
        /\ Stuck => job[s].op \in Writes /\ pc[s] \in Endless
    BY <1>1, <1>4, Outcomes DEF Breaks
  <2>3. ASSUME at'[s] = at[s], job[s].op \in Writes,
               outcome'[s] = "failed" \/ (outcome'[s] = "busy" /\ pc'[s] \in Endless)
        PROVE  Excused(d, Writes, Endless)'
    <3>1. Breaks(s, d, Writes, Endless)'
      BY <1>1, <1>4, <2>3 DEF Breaks, DigestOf
    <3> QED BY <3>1 DEF Excused
  <2>4. job[s].op \notin Writes => ~Stuck /\ Stored(s) = Row(s) /\ Due(s) = deadline[d]
    <3>1. SUFFICES ASSUME job[s].op \notin Writes
                   PROVE  ~Stuck /\ Stored(s) = Row(s) /\ Due(s) = deadline[d]
      OBVIOUS
    <3>2. pc[s] \in {"HGETALL", "GET", "SELECT"}
      BY <2>2, <3>1 DEF Program, IsUpdate, Writes
    <3> QED BY <1>4, <2>2, <3>2 DEF Stored, Due, Endless
  <2>5. CASE /\ table'[d] = Row(s) /\ deadline'[d] = deadline[d]
             /\ outcome'[s] = "failed" /\ at'[s] = at[s]
    BY <1>1, <2>1, <2>2, <2>3, <2>5
  <2>6. CASE /\ table'[d] = Stored(s) /\ deadline'[d] = Due(s)
             /\ \/ outcome'[s] = "failed" /\ at'[s] = at[s]
                \/ outcome'[s] = "busy" /\ at'[s] = at[s] /\ Proceeds(s, pc'[s])
                \/ LastCommand(s)
    <3>1. CASE job[s].op \notin Writes
      BY <1>1, <2>1, <2>4, <2>6, <3>1
    <3>2. CASE job[s].op \in Writes /\ outcome'[s] = "failed" /\ at'[s] = at[s]
      BY <2>3, <3>2
    <3>3. CASE outcome'[s] = "busy" /\ at'[s] = at[s] /\ Proceeds(s, pc'[s]) /\ job[s].op \in Writes
      <4>1. pc'[s] \in Endless \/ pc[s] = "GET"
        BY <3>3 DEF Proceeds, Endless
      <4>2. pc[s] = "GET" => Stored(s) = Row(s) /\ Due(s) = deadline[d] /\ ~Stuck
        BY <1>4, <2>2 DEF Stored, Due, Endless
      <4> QED BY <1>1, <2>1, <2>3, <2>6, <3>3, <4>1, <4>2
    <3>4. CASE LastCommand(s)
      <4>1. CASE pc[s] = "EXPIRE"
        <5>1. Stored(s) = Row(s) /\ Due(s) = IF Row(s) = Blank THEN NoTime ELSE now + maxAge
          BY <4>1 DEF Stored, Due
        <5> QED BY <1>1, <2>6, <5>1, RecordsAssumption DEF Expiring, Times
      <4>2. CASE pc[s] = "SET"
        <5>1. Due(s) = IF maxAge = NoTime THEN NoTime ELSE now + maxAge
          BY <4>2 DEF Due
        <5> QED BY <1>1, <2>6, <5>1, RecordsAssumption DEF Expiring, Times
      <4>3. CASE pc[s] \in {"HGETALL", "SELECT", "GET"}
        <5>1. Stored(s) = Row(s) /\ Due(s) = deadline[d] /\ ~Stuck
          BY <1>4, <2>2, <4>3 DEF Stored, Due, Endless
        <5> QED BY <1>1, <2>1, <2>6, <5>1
      <4>4. CASE pc[s] \in {"UPSERT", "UPSERT all"}
        <5>1. ~Expiring
          BY <2>2, <4>4 DEF Program, Expiring
        <5> QED BY <1>1, <5>1
      <4>5. CASE pc[s] \in {"HSET", "HSET all"} /\ ~Expiring
        BY <1>1, <4>5
      <4> QED BY <3>4, <4>1, <4>2, <4>3, <4>4, <4>5 DEF LastCommand
    <3> QED BY <2>6, <3>1, <3>2, <3>3, <3>4
  <2> QED BY <1>1, <1>4, <2>5, <2>6, Outcomes
<1> QED BY <1>3, <1>4

LEMMA HalfStep == HalfInv /\ [Next]_vars => HalfInv'
<1> SUFFICES ASSUME HalfInv, [Next]_vars PROVE HalfInv'
  OBVIOUS
<1>1. TypeInv /\ TypeInv' /\ engine \in {"redis", "redis_v0", "mysql"}
  BY TypeStep, EnginesAssumption DEF HalfInv, TypeInv
<1> DEFINE
      Certain == engine # "redis" => \A d \in Digests : \A op \in Updates : Told(table[d], op)
      Holding == \A s \in Sessions : outcome[s] = "busy" /\ pc[s] = "SET" /\ IsUpdate(s)
                                       => \A op \in Updates : Told(held[s], op)
      Telling == \A d \in Digests : \A op \in Updates : Told(table[d], op) \/ Excused(d, {op}, Dated)
      Ending == \A d \in Digests : \/ Expiring /\ table[d] # Blank => deadline[d] # NoTime
                                   \/ Excused(d, Writes, Endless)
<1>2. Certain /\ Holding /\ Telling /\ Ending
  BY DEF HalfInv
\* The steps of no session at work.
<1>3. ASSUME UNCHANGED <<engine, maxAge, job, at, held>>,
             \A s \in Sessions : \/ outcome'[s] = outcome[s] /\ pc'[s] = pc[s]
                                 \/ /\ outcome[s] = "none"
                                    /\ outcome'[s] = "busy"
                                    /\ pc'[s] = First(s),
             \A d \in Digests : \/ table'[d] = table[d] /\ deadline'[d] = deadline[d]
                                \/ table'[d] = Blank
      PROVE  Certain' /\ Holding' /\ Telling' /\ Ending'
  <2>1. ASSUME NEW d, NEW ops, NEW commands, Excused(d, ops, commands)
        PROVE  Excused(d, ops, commands)'
    <3>1. PICK r \in Sessions : Breaks(r, d, ops, commands)
      BY <2>1 DEF Excused
    <3>2. outcome'[r] = outcome[r] /\ pc'[r] = pc[r] /\ at'[r] = at[r] /\ job' = job
      BY <1>3, <3>1 DEF Breaks
    <3>3. Breaks(r, d, ops, commands)'
      BY <3>1, <3>2, BreaksKept
    <3> QED BY <3>3 DEF Excused
  <2>2. \A d \in Digests : \A op \in Updates : Told(table[d], op) => Told(table'[d], op)
    BY <1>3, BlankTold
  <2>3. Certain'
    BY <1>2, <1>3, <2>2 DEF Told
  <2>4. Holding'
    <3> SUFFICES ASSUME NEW s \in Sessions, outcome'[s] = "busy", pc'[s] = "SET", IsUpdate(s)',
                        NEW op \in Updates
                 PROVE  Told(held'[s], op)
      BY DEF Told
    <3>1. IsUpdate(s) /\ held'[s] = held[s]
      BY <1>3, ProgramKept
    <3>2. First(s) # "SET"
      BY <1>1, <3>1 DEF First, IsUpdate
    <3> QED BY <1>2, <1>3, <3>1, <3>2
  <2>5. Telling'
    <3> SUFFICES ASSUME NEW d \in Digests, NEW op \in Updates
                 PROVE  Told(table'[d], op) \/ Excused(d, {op}, Dated)'
      BY DEF Told
    <3> QED BY <1>2, <2>1, <2>2
  <2>6. Ending'
    <3> SUFFICES ASSUME NEW d \in Digests
                 PROVE  \/ Expiring' /\ table'[d] # Blank => deadline'[d] # NoTime
                        \/ Excused(d, Writes, Endless)'
      OBVIOUS
    <3>1. Expiring' = Expiring
      BY <1>3 DEF Expiring
    <3> QED BY <1>2, <1>3, <2>1, <3>1
  <2> QED BY <2>3, <2>4, <2>5, <2>6
<1>4. ASSUME NEW s \in Sessions, Carries(s) PROVE Certain' /\ Holding' /\ Telling' /\ Ending'
  <2>1. /\ \A r \in Sessions : r # s => /\ at'[r] = at[r] /\ outcome'[r] = outcome[r]
                                        /\ pc'[r] = pc[r] /\ held'[r] = held[r]
        /\ \A d \in Digests : d # DigestOf(s) => table'[d] = table[d] /\ deadline'[d] = deadline[d]
        /\ UNCHANGED <<engine, maxAge, now, job, stamp>>
    BY <1>1, <1>4, OthersKept
  <2>2. outcome[s] = "busy" /\ pc[s] \in Program(s) /\ DigestOf(s) \in Digests
    BY <1>1, <1>4, Outcomes, DigestType
  <2>3. Telling'
    BY <1>4, ToldStep
  <2>4. Ending'
    BY <1>4, ExpiryStep
  <2>5. Certain'
    <3> SUFFICES ASSUME engine # "redis", NEW d \in Digests, NEW op \in Updates
                 PROVE  Told(table'[d], op)
      BY <2>1 DEF Told
    <3>1. Told(table[d], op) /\ Told(Row(s), op)
      BY <1>2, <2>2 DEF Row
    <3>2. pc[s] \notin {"HINCRBY", "HSET"} /\ (pc[s] = "SET" /\ IsUpdate(s) => Told(held[s], op))
      BY <1>1, <1>2, <2>2 DEF Program
    <3>3. CASE d = DigestOf(s)
      <4>1. \/ table'[d] = Row(s)
            \/ /\ pc[s] \in {"HINCRBY", "UPSERT"} => Row(s)[Count(s)] # MaxCount
               /\ table'[d] = Stored(s)
        BY <1>1, <1>4, <3>3, Outcomes
      <4> QED BY <1>1, <2>2, <3>1, <3>2, <4>1, WrittenTold
    <3> QED BY <2>1, <3>1, <3>3
  <2>6. Holding'
    <3> SUFFICES ASSUME NEW r \in Sessions, outcome'[r] = "busy", pc'[r] = "SET", IsUpdate(r)',
                        NEW op \in Updates
                 PROVE  Told(held'[r], op)
      BY DEF Told
    <3>1. IsUpdate(r)
      BY <2>1, ProgramKept
    <3>2. CASE r # s
      BY <1>2, <2>1, <3>1, <3>2
    <3>3. CASE r = s
      <4>1. First(s) # "SET"
        BY <1>1, <3>1, <3>3 DEF First, IsUpdate
      <4>2. Proceeds(s, pc'[s]) /\ held'[s] = Row(s)
        BY <1>1, <1>4, <3>3, <4>1, Outcomes
      <4>3. engine # "redis"
        BY <1>1, <2>2, <3>3, <4>2 DEF Proceeds, Program
      <4> QED BY <1>2, <2>2, <3>3, <4>2, <4>3 DEF Row
    <3> QED BY <3>2, <3>3
  <2> QED BY <2>3, <2>4, <2>5, <2>6
<1>5. ASSUME NEW s \in Sessions, Begin(s) PROVE Certain' /\ Holding' /\ Telling' /\ Ending'
  <2>1. /\ outcome[s] = "none" /\ outcome' = [outcome EXCEPT ![s] = "busy"]
        /\ pc' = [pc EXCEPT ![s] = First(s)]
        /\ UNCHANGED <<engine, maxAge, table, deadline, job, at, held>>
    BY <1>5 DEF Begin, dbVars
  <2>2. \A r \in Sessions : \/ outcome'[r] = outcome[r] /\ pc'[r] = pc[r]
                            \/ /\ outcome[r] = "none"
                               /\ outcome'[r] = "busy"
                               /\ pc'[r] = First(r)
    BY <1>1, <2>1 DEF TypeInv
  <2> HIDE DEF Certain, Holding, Telling, Ending
  <2> QED BY <1>3, <2>1, <2>2
<1>6. ASSUME Tick \/ (\E d \in Digests : KeyExpires(d)) \/ Reorganize \/ UNCHANGED vars
      PROVE  Certain' /\ Holding' /\ Telling' /\ Ending'
  <2>1. UNCHANGED <<engine, maxAge, job, at, held, outcome, pc>>
    BY <1>6 DEF Tick, KeyExpires, Reorganize, vars
  <2>2. \A d \in Digests : \/ table'[d] = table[d] /\ deadline'[d] = deadline[d]
                           \/ table'[d] = Blank
    BY <1>1, <1>6 DEF Tick, KeyExpires, Reorganize, vars, dbVars, TypeInv
  <2> HIDE DEF Certain, Holding, Telling, Ending
  <2> QED BY <1>3, <2>1, <2>2
<1>7. Certain' /\ Holding' /\ Telling' /\ Ending'
  <2> HIDE DEF Certain, Holding, Telling, Ending
  <2> QED BY <1>1, <1>4, <1>5, <1>6, StepKinds
<1> QED BY <1>1, <1>7 DEF HalfInv

LEMMA HalfInit == Init => HalfInv
<1> SUFFICES ASSUME Init PROVE HalfInv
  OBVIOUS
<1>1. TypeInv
  BY TypeInit
<1>2. /\ \A d \in Digests : table[d] = Blank
      /\ \A s \in Sessions : outcome[s] = "none"
  BY DEF Init
<1> QED BY <1>1, <1>2, BlankTold DEF HalfInv

LEMMA HalfMeans == HalfInv => HalfWrittenOnlyByFailure
<1> SUFFICES ASSUME HalfInv, NEW d \in Digests, ~Unfinished(d)
             PROVE  /\ table[d].r_count > 0 => table[d].r_updated # NoTime
                    /\ table[d].wl_count > 0 => table[d].wl_updated # NoTime
                    /\ Expiring /\ table[d] # Blank => deadline[d] # NoTime
  BY DEF HalfWrittenOnlyByFailure
<1>1. \A ops, commands : ~Excused(d, ops, commands)
  <2>1. ASSUME NEW ops, NEW commands, NEW s \in Sessions, Breaks(s, d, ops, commands)
        PROVE  Unfinished(d)
    <3>1. /\ outcome[s] \in {"busy", "failed"} /\ job[s].digests[at[s]] = d
          /\ at[s] \in 1..Len(job[s].digests)
      BY <2>1, DigestType DEF Breaks, DigestOf, HalfInv
    <3> QED BY <3>1, DigestType DEF Unfinished, HalfInv
  <2> QED BY <2>1 DEF Excused
<1>2. Told(table[d], "report") /\ Told(table[d], "whitelist")
  BY <1>1 DEF HalfInv, Updates
<1> QED BY <1>1, <1>2 DEF Told, HalfInv

\* A count without the time of its update, or a key that is never to expire although
\* there is a cleanup age, is only left by a session that failed between its commands:
\* report() of the redis engines writes the fields one by one and expires the key last.
THEOREM HalfSafe == Spec => []HalfWrittenOnlyByFailure
<1>1. Init => HalfInv
  BY HalfInit
<1>2. HalfInv /\ [Next]_vars => HalfInv'
  BY HalfStep
<1>3. HalfInv => HalfWrittenOnlyByFailure
  BY HalfMeans
<1> QED BY <1>1, <1>2, <1>3, PTL DEF Spec
-----------------------------------------------------------------------------
(* When a row goes.                                                            *)

\* A negative count, which only a set of an upstream answer leaves, has a time.
Dates(rec) == /\ rec.r_count < 0 => rec.r_updated # NoTime
              /\ rec.wl_count < 0 => rec.wl_updated # NoTime

\* Nothing removes the row of d within the cleanup age of t.
Safe(d, t) ==
    IF engine = "mysql"
    THEN \/ table[d] = Blank \/ cached[d] >= t
         \/ table[d].r_updated # NoTime /\ table[d].r_updated >= t
    ELSE deadline[d] = NoTime \/ deadline[d] >= t + maxAge

FreshInv ==
    /\ TypeInv
    /\ engine = "redis" => \A d \in Digests : Dates(table[d])
    /\ \A d \in Digests : deadline[d] # NoTime => Expiring
    /\ \A d \in Digests : acked[d] # NoTime => acked[d] <= now /\ Safe(d, acked[d])
    /\ \A s \in Sessions : outcome[s] = "none" => at[s] = 1
    /\ \A s \in Sessions :
         outcome[s] = "busy" /\ IsUpdate(s) /\ Refreshes(s)
           => \A i \in 1..(at[s] - 1) : Safe(job[s].digests[i], stamp[s])

\* No command of a session empties a row.
LEMMA WrittenStays ==
  ASSUME TypeInv, NEW s \in Sessions, outcome[s] = "busy",
         engine = "redis" => Dates(Row(s))
  PROVE  /\ Row(s) # Blank => Stored(s) # Blank
         /\ engine = "redis" => Dates(Stored(s))
<1>1. /\ Row(s) \in Record /\ job[s].op \in {"report", "whitelist", "set", "get"}
      /\ job[s].answer \in Record /\ stamp[s] \in Int /\ now \in Int /\ held[s] \in Record
      /\ pc[s] \in Program(s) /\ engine \in {"redis", "redis_v0", "mysql"}
      /\ job[s].op = "set" => HasMatch(job[s].answer)
  BY DigestType, JobType, EnginesAssumption DEF TypeInv
<1>2. NoTime \notin Int
  BY RecordsAssumption
<1>3. CASE pc[s] \in {"HINCRBY", "HSETNX", "HSET"}
  <2>1. IsUpdate(s) /\ engine = "redis"
    BY <1>1, <1>3 DEF Program
  <2>2. CASE pc[s] = "HINCRBY"
    <3>1. Stored(s) = [Row(s) EXCEPT ![Count(s)] = Row(s)[Count(s)] + 1]
      BY <2>2 DEF Stored
    <3> QED BY <1>1, <2>1, <3>1 DEF Dates, Record, Counts, IsUpdate, Count, Blank
  <2>3. CASE pc[s] = "HSETNX"
    <3>1. Stored(s) = [Row(s) EXCEPT ![Entered(s)] = FirstTime(Row(s)[Entered(s)], stamp[s])]
      BY <2>3 DEF Stored
    <3> QED BY <1>1, <1>2, <2>1, <3>1
        DEF Dates, Record, IsUpdate, Entered, Blank, FirstTime
  <2>4. CASE pc[s] = "HSET"
    <3>1. Stored(s) = [Row(s) EXCEPT ![Updated(s)] = stamp[s]]
      BY <2>4 DEF Stored
    <3> QED BY <1>1, <1>2, <2>1, <3>1 DEF Dates, Record, IsUpdate, Updated, Blank
  <2> QED BY <1>3, <2>2, <2>3, <2>4
<1>4. ASSUME NEW rec \in Record, rec = ProxyRecord(job[s].answer, stamp[s]), job[s].op = "set"
      PROVE  rec # Blank
  BY <1>1, <1>2, <1>4 DEF HasMatch, ProxyRecord, ProxyTime, Record, Counts, Blank
<1>5. CASE pc[s] = "HSET all"
  <2>1. Stored(s) = V1Encoded(ProxyRecord(job[s].answer, stamp[s]))
    BY <1>5 DEF Stored
  <2>2. Stored(s).r_updated # NoTime /\ Stored(s).wl_updated # NoTime
    BY <1>1, <2>1, V1EncodedType, ProxyRecordType
  <2>3. Blank.r_updated = NoTime
    BY DEF Blank
  <2> QED BY <2>2, <2>3 DEF Dates
<1>6. CASE pc[s] = "SET"
  <2>1. Stored(s) = V0Record(s) /\ engine # "redis"
    BY <1>1, <1>6 DEF Stored, Program
  <2>2. CASE IsUpdate(s)
    <3>1. held[s] \in Record => V0Record(s).r_updated # NoTime \/ V0Record(s).wl_updated # NoTime
      BY <1>1, <1>2, <2>2 DEF V0Record, RIncrement, WlIncrement, Record, IsUpdate
    <3>2. Blank.r_updated = NoTime /\ Blank.wl_updated = NoTime
      BY DEF Blank
    <3> QED BY <1>1, <2>1, <3>1, <3>2
  <2>3. CASE ~IsUpdate(s)
    <3>1. V0Record(s) = ProxyRecord(job[s].answer, stamp[s]) /\ job[s].op = "set"
      BY <1>1, <1>6, <2>1, <2>3 DEF V0Record, IsUpdate, Program
    <3> QED BY <1>1, <1>4, <2>1, <3>1, ProxyRecordType
  <2> QED BY <2>2, <2>3
<1>7. CASE pc[s] = "UPSERT"
  <2>1. IsUpdate(s) /\ engine # "redis"
    BY <1>1, <1>7 DEF Program
  <2>2. CASE Row(s) # Blank
    <3>1. Stored(s) = [Row(s) EXCEPT ![Count(s)] = @ + 1, ![Updated(s)] = now]
      BY <1>7, <2>2 DEF Stored
    <3> QED BY <1>1, <1>2, <2>1, <3>1 DEF Record, IsUpdate, Count, Updated, Blank
  <2> QED BY <2>1, <2>2
<1>8. CASE pc[s] = "UPSERT all"
  <2>1. Stored(s) = ProxyRecord(job[s].answer, stamp[s]) /\ engine # "redis" /\ job[s].op = "set"
    BY <1>1, <1>8 DEF Stored, Program, IsUpdate
  <2> QED BY <1>1, <1>4, <2>1, ProxyRecordType
<1>9. CASE pc[s] \notin {"HINCRBY", "HSETNX", "HSET", "HSET all", "SET", "UPSERT", "UPSERT all"}
  <2>1. Stored(s) = Row(s)
    BY <1>9 DEF Stored
  <2> QED BY <2>1
<1> QED BY <1>3, <1>5, <1>6, <1>7, <1>8, <1>9

LEMMA Domains ==
  ASSUME TypeInv
  PROVE  /\ engine \in {"redis", "redis_v0", "mysql"} /\ now \in Nat
         /\ maxAge # NoTime => maxAge \in Nat
         /\ \A d \in Digests : /\ table[d].r_updated # NoTime => table[d].r_updated \in Int
                               /\ deadline[d] # NoTime => deadline[d] \in Int
                               /\ cached[d] \in Nat
                               /\ acked[d] # NoTime => acked[d] \in Int
         /\ \A s \in Sessions : stamp[s] \in Nat /\ stamp[s] <= now
<1>1. \A d \in Digests : table[d] \in Record
  BY DEF TypeInv
<1> QED BY <1>1, EnginesAssumption DEF TypeInv, Record, Times

LEMMA SameSafe ==
  ASSUME NEW d, NEW t, UNCHANGED <<engine, maxAge>>,
         table'[d] = table[d], deadline'[d] = deadline[d], cached'[d] = cached[d]
  PROVE  Safe(d, t)' <=> Safe(d, t)
BY DEF Safe

\* A command that is carried out is another sign of life, or leaves the old one.
LEMMA EffectSafe ==
  ASSUME TypeInv, NEW s \in Sessions, Carries(s), Effective(s), NEW t \in Int, t <= now,
         NEW d, d = DigestOf(s),
         \/ Safe(d, t)
         \/ LastCommand(s) /\ IsUpdate(s) /\ Refreshes(s) /\ (~Expiring => deadline[d] = NoTime)
  PROVE  Safe(d, t)'
<1>1. /\ d \in Digests /\ Row(s) = table[d] /\ Row(s) \in Record
      /\ job[s].op \in {"report", "whitelist", "set", "get"}
      /\ outcome[s] = "busy" /\ pc[s] \in Program(s) /\ (pc[s] = "EXPIRE" => Expiring)
  BY DigestType DEF Row, Carries, TypeInv
<1>2. UNCHANGED <<engine, maxAge, now>>
  BY DEF Carries, Stays
<1>3. /\ table'[d] = Stored(s) /\ deadline'[d] = Due(s)
      /\ pc[s] \in Counting => taken' # taken
  BY <1>1 DEF Effective, TypeInv
<1>4. CASE engine = "mysql"
  <2>1. cached'[d] = IF pc[s] = "UPSERT all" THEN now ELSE cached[d]
    BY <1>1, <1>3 DEF Carries, Counting, TypeInv
  <2>2. CASE pc[s] = "UPSERT all"
    BY <1>2, <1>4, <2>1, <2>2, Domains DEF Safe
  <2>3. CASE pc[s] = "UPSERT" /\ Row(s) = Blank
    <3>1. Stored(s) = Inserted(s)
      BY <2>3 DEF Stored
    <3>2. Inserted(s).r_updated = now
      BY DEF Inserted
    <3> QED BY <1>2, <1>3, <1>4, <3>1, <3>2, Domains, RecordsAssumption DEF Safe
  <2>4. CASE pc[s] = "UPSERT" /\ Row(s) # Blank
    <3>1. Stored(s) = [Row(s) EXCEPT ![Count(s)] = @ + 1, ![Updated(s)] = now]
      BY <2>4 DEF Stored
    <3>2. IsUpdate(s)
      BY <1>1, <1>4, <2>4 DEF Program
    <3>3. CASE job[s].op = "report"
      <4>1. Stored(s).r_updated = now
        BY <1>1, <3>1, <3>3 DEF Record, Count, Updated
      <4> QED BY <1>2, <1>3, <1>4, <4>1, Domains, RecordsAssumption DEF Safe
    <3>4. CASE job[s].op = "whitelist"
      <4>1. Stored(s).r_updated = Row(s).r_updated
        BY <1>1, <3>1, <3>4 DEF Record, Count, Updated
      <4>2. Safe(d, t)
        BY <1>4, <3>4 DEF Refreshes
      <4> QED BY <1>1, <1>2, <1>3, <1>4, <2>1, <2>4, <4>1, <4>2 DEF Safe
    <3> QED BY <3>2, <3>3, <3>4 DEF IsUpdate
  <2>5. CASE pc[s] = "SELECT"
    <3>1. Stored(s) = Row(s) /\ ~IsUpdate(s)
      BY <1>1, <1>4, <2>5 DEF Stored, Program
    <3> QED BY <1>1, <1>2, <1>3, <1>4, <2>1, <2>5, <3>1 DEF Safe
  <2> QED BY <1>1, <1>4, <2>2, <2>3, <2>4, <2>5 DEF Program
<1>5. CASE engine # "mysql"
  <2>1. CASE pc[s] = "EXPIRE"
    <3>1. Due(s) = IF Row(s) = Blank THEN NoTime ELSE now + maxAge
      BY <2>1 DEF Due
    <3> QED BY <1>1, <1>2, <1>3, <1>5, <2>1, <3>1, Domains DEF Safe, Expiring
  <2>2. CASE pc[s] = "SET"
    <3>1. Due(s) = IF maxAge = NoTime THEN NoTime ELSE now + maxAge
      BY <2>2 DEF Due
    <3> QED BY <1>2, <1>3, <1>5, <3>1, Domains DEF Safe
  <2>3. CASE pc[s] \notin {"EXPIRE", "SET"}
    <3>1. Due(s) = deadline[d]
      BY <2>3 DEF Due
    <3>2. Safe(d, t) \/ deadline[d] = NoTime
      <4>1. LastCommand(s) /\ IsUpdate(s) => ~Expiring
        BY <1>1, <1>5, <2>3, Domains DEF LastCommand, Program
      <4> QED BY <4>1
    <3> QED BY <1>2, <1>3, <1>5, <3>1, <3>2 DEF Safe
  <2> QED BY <2>1, <2>2, <2>3
<1> QED BY <1>4, <1>5

LEMMA CarriesSafe ==
  ASSUME TypeInv, NEW s \in Sessions, Carries(s), NEW d \in Digests, NEW t \in Int, t <= now,
         Safe(d, t)
  PROVE  Safe(d, t)'
<1>1. DigestOf(s) \in Digests /\ UNCHANGED <<engine, maxAge>>
  BY DigestType DEF Carries, Stays
<1>2. CASE d # DigestOf(s)
  <2>1. table'[d] = table[d] /\ deadline'[d] = deadline[d]
    BY <1>2, OthersKept
  <2>2. cached'[d] = cached[d]
    BY <1>1, <1>2 DEF Carries, TypeInv
  <2> QED BY <1>1, <2>1, <2>2, SameSafe
<1>3. CASE Unaffected
  <2>1. UNCHANGED <<table, deadline, cached>>
    BY <1>3 DEF Unaffected, dbVars, Carries
  <2> QED BY <1>1, <2>1, SameSafe
<1>4. CASE d = DigestOf(s) /\ Effective(s)
  BY <1>4, EffectSafe
<1> QED BY <1>2, <1>3, <1>4 DEF Carries

LEMMA SafeKept ==
  ASSUME TypeInv, [Next]_vars, NEW d \in Digests, NEW t \in Int, t <= now, Safe(d, t)
  PROVE  Safe(d, t)'
<1>1. ASSUME NEW s \in Sessions, Begin(s) PROVE Safe(d, t)'
  BY <1>1, SameSafe DEF Begin, dbVars
<1>2. CASE Tick \/ UNCHANGED vars
  BY <1>2, SameSafe DEF Tick, vars, dbVars
<1>3. ASSUME NEW e \in Digests, KeyExpires(e) PROVE Safe(d, t)'
  <2>1. /\ table' = [table EXCEPT ![e] = Blank] /\ deadline' = [deadline EXCEPT ![e] = NoTime]
        /\ UNCHANGED <<engine, maxAge, cached>>
    BY <1>3 DEF KeyExpires
  <2>2. CASE d = e
    <3>1. table'[d] = Blank /\ deadline'[d] = NoTime
      BY <2>1, <2>2 DEF TypeInv
    <3> QED BY <3>1 DEF Safe
  <2>3. CASE d # e
    <3>1. table'[d] = table[d] /\ deadline'[d] = deadline[d]
      BY <2>1, <2>3 DEF TypeInv
    <3> QED BY <2>1, <3>1, SameSafe
  <2> QED BY <2>2, <2>3
<1>4. CASE Reorganize
  <2>1. engine = "mysql" /\ UNCHANGED <<engine, maxAge, deadline, cached>>
    BY <1>4 DEF Reorganize
  <2>2. table'[d] = table[d] \/ table'[d] = Blank
    BY <1>4 DEF Reorganize
  <2> QED BY <2>1, <2>2, SameSafe DEF Safe
<1> QED BY <1>1, <1>2, <1>3, <1>4, StepKinds, CarriesSafe

\* The last command of a job answers for all its digests.
LEMMA Acknowledges ==
  ASSUME TypeInv, NEW s \in Sessions, Carries(s)
  PROVE  \/ acked' = acked
         \/ /\ Effective(s) /\ LastCommand(s) /\ at[s] = Len(job[s].digests)
            /\ \A d \in Digests :
                 \/ acked'[d] = acked[d]
                 \/ /\ acked'[d] = stamp[s]
                    /\ IsUpdate(s) /\ Refreshes(s)
                    /\ \E i \in 1..at[s] : job[s].digests[i] = d
<1>1. at[s] \in 1..Len(job[s].digests) /\ job[s].digests \in Seq(Digests)
  BY DigestType
<1>2. Fails(s) => acked' = acked
  BY DEF Fails
<1>3. \A next \in Commands : Proceeds(s, next) => acked' = acked
  BY DEF Proceeds
<1>4. ASSUME NEW read \in Record, Onward(s, read), ~(at[s] < Len(job[s].digests))
      PROVE  /\ at[s] = Len(job[s].digests)
             /\ \A d \in Digests :
                 \/ acked'[d] = acked[d]
                 \/ /\ acked'[d] = stamp[s]
                    /\ IsUpdate(s) /\ Refreshes(s)
                    /\ \E i \in 1..at[s] : job[s].digests[i] = d
  <2>1. at[s] = Len(job[s].digests) /\ DOMAIN job[s].digests = 1..at[s]
    BY <1>1, <1>4
  <2>2. acked' = [d \in Digests |->
                 IF /\ IsUpdate(s) /\ Refreshes(s)
                    /\ \E i \in DOMAIN job[s].digests : job[s].digests[i] = d
                    /\ acked[d] = NoTime \/ acked[d] < stamp[s]
                 THEN stamp[s] ELSE acked[d]]
    BY <1>4 DEF Onward
  <2> QED BY <2>1, <2>2
<1>5. \A read \in Record : Onward(s, read) /\ at[s] < Len(job[s].digests) => acked' = acked
  BY DEF Onward
<1> QED BY <1>2, <1>3, <1>4, <1>5 DEF Carries, Unaffected

LEMMA DoneSafe ==
  ASSUME FreshInv, NEW s \in Sessions, Carries(s), Effective(s), LastCommand(s), IsUpdate(s), Refreshes(s),
         NEW i \in 1..at[s]
  PROVE  Safe(job[s].digests[i], stamp[s])'
<1>1. /\ TypeInv /\ stamp[s] \in Int /\ stamp[s] <= now /\ outcome[s] = "busy"
      /\ UNCHANGED <<job, stamp>>
  <2>1. TypeInv
    BY DEF FreshInv
  <2>2. outcome[s] = "busy" /\ UNCHANGED <<job, stamp>>
    BY DEF Carries, Stays
  <2> QED BY <2>1, <2>2, Domains
<1>2. /\ at[s] \in 1..Len(job[s].digests) /\ job[s].digests \in Seq(Digests)
      /\ DigestOf(s) \in Digests
  BY <1>1, DigestType
<1>3. job[s].digests[i] \in Digests
  BY <1>2, ElementType
<1> DEFINE d == job[s].digests[i]
           t == stamp[s]
<1>4. ASSUME NEW e \in Digests, e = d PROVE Safe(e, t)'
  <2>1. stamp'[s] = t /\ t \in Int /\ t <= now
    BY <1>1
  <2>2. CASE i # at[s]
    <3>1. i \in 1..(at[s] - 1)
      BY <1>2, <2>2
    <3>2. Safe(e, t)
      BY <1>1, <1>4, <3>1 DEF FreshInv
    <3>3. ASSUME NEW u \in Int, u = t PROVE Safe(e, u)'
      BY <1>1, <2>1, <3>2, <3>3, CarriesSafe
    <3> QED BY <1>1, <2>1, <3>3
  <2>3. CASE i = at[s]
    <3>1. e = DigestOf(s) /\ (~Expiring => deadline[e] = NoTime)
      BY <1>4, <2>3 DEF DigestOf, FreshInv
    <3>2. ASSUME NEW u \in Int, u = t PROVE Safe(e, u)'
      BY <1>1, <2>1, <3>1, <3>2, EffectSafe
    <3> QED BY <1>1, <2>1, <3>2
  <2> QED BY <2>2, <2>3
<1> QED BY <1>1, <1>3, <1>4

LEMMA FreshStep == FreshInv /\ [Next]_vars => FreshInv'
<1> SUFFICES ASSUME FreshInv, [Next]_vars PROVE FreshInv'
  OBVIOUS
<1>1. /\ TypeInv /\ TypeInv' /\ engine \in {"redis", "redis_v0", "mysql"} /\ now \in Nat
      /\ \A s \in Sessions : stamp[s] \in Int /\ stamp[s] <= now
  <2>1. TypeInv
    BY DEF FreshInv
  <2> QED BY <2>1, TypeStep, Domains
<1> DEFINE
      Dating == engine = "redis" => \A d \in Digests : Dates(table[d])
      Ending == \A d \in Digests : deadline[d] # NoTime => Expiring
      Fresh == \A d \in Digests : acked[d] # NoTime => acked[d] <= now /\ Safe(d, acked[d])
      Waiting == \A s \in Sessions : outcome[s] = "none" => at[s] = 1
      Working == \A s \in Sessions :
                   outcome[s] = "busy" /\ IsUpdate(s) /\ Refreshes(s)
                     => \A i \in 1..(at[s] - 1) : Safe(job[s].digests[i], stamp[s])
      All == Dating' /\ Ending' /\ Fresh' /\ Waiting' /\ Working'
<1>2. Dating /\ Ending /\ Fresh /\ Waiting /\ Working
  BY DEF FreshInv
<1>3. ASSUME NEW d \in Digests, NEW t \in Int, t <= now, Safe(d, t) PROVE Safe(d, t)'
  BY <1>1, <1>3, SafeKept
<1>4. ASSUME NEW r \in Sessions, NEW i \in 1..(at[r] - 1), job' = job, stamp'[r] = stamp[r],
             Safe(job[r].digests[i], stamp[r])
      PROVE  Safe(job[r].digests[i], stamp[r])'
  <2>1. job[r].digests[i] \in Digests
    <3>1. at[r] \in 1..Len(job[r].digests) /\ job[r].digests \in Seq(Digests)
          /\ Len(job[r].digests) \in Nat
      BY <1>1, DigestType
    <3>2. i \in 1..Len(job[r].digests)
      BY <3>1
    <3> QED BY <3>1, <3>2, ElementType
  <2>2. \A d \in Digests, t \in Int : t <= now /\ Safe(d, t) => Safe(d, t)'
    BY <1>3
  <2>3. ASSUME NEW d \in Digests, NEW t \in Int, d = job[r].digests[i], t = stamp[r]
        PROVE  Safe(d, t)'
    BY <1>1, <1>4, <2>2, <2>3
  <2> QED BY <1>1, <1>4, <2>1, <2>3
<1>5. ASSUME NEW d \in Digests, acked'[d] = acked[d], acked[d] # NoTime
      PROVE  acked[d] <= now /\ Safe(d, acked[d])'
  <2>1. acked[d] \in Int /\ acked[d] <= now /\ Safe(d, acked[d])
    BY <1>1, <1>2, <1>5, Domains
  <2>2. ASSUME NEW t \in Int, t = acked[d] PROVE Safe(d, t)'
    BY <1>3, <2>1, <2>2
  <2> QED BY <1>5, <2>1, <2>2
<1>6. ASSUME NEW s \in Sessions, Carries(s) PROVE All
  <2>1. /\ \A r \in Sessions : r # s => at'[r] = at[r] /\ outcome'[r] = outcome[r]
        /\ \A d \in Digests : d # DigestOf(s) => table'[d] = table[d] /\ deadline'[d] = deadline[d]
        /\ UNCHANGED <<engine, maxAge, now, job, stamp>>
    BY <1>1, <1>6, OthersKept
  <2>2. /\ outcome[s] = "busy" /\ pc[s] \in Program(s) /\ (pc[s] = "EXPIRE" => Expiring)
        /\ DigestOf(s) \in Digests /\ at[s] \in Nat
    BY <1>1, <1>6, Outcomes, DigestType DEF TypeInv
  <2>3. Expiring' = Expiring
    BY <2>1 DEF Expiring
  <2>4. Dating'
    <3> SUFFICES ASSUME engine = "redis", NEW d \in Digests PROVE Dates(table'[d])
      BY <2>1 DEF Dates
    <3>1. CASE d # DigestOf(s)
      BY <1>2, <2>1, <3>1
    <3>2. CASE d = DigestOf(s)
      <4>1. Dates(Row(s))
        BY <1>2, <2>2 DEF Row
      <4>2. Dates(Stored(s))
        BY <1>1, <2>2, <4>1, WrittenStays
      <4>3. table'[d] = Row(s) \/ table'[d] = Stored(s)
        BY <1>1, <1>6, <3>2, Outcomes
      <4> QED BY <4>1, <4>2, <4>3
    <3> QED BY <3>1, <3>2
  <2>5. Ending'
    <3> SUFFICES ASSUME NEW d \in Digests, deadline'[d] # NoTime PROVE Expiring
      BY <2>3
    <3>1. \/ deadline'[d] = deadline[d]
          \/ d = DigestOf(s) /\ deadline'[d] = Due(s) /\ (pc[s] = "SET" => maxAge # 0)
      BY <1>1, <1>6, <2>1, Outcomes
    <3>2. Due(s) # NoTime /\ d = DigestOf(s) /\ (pc[s] = "SET" => maxAge # 0) => Expiring
      <4>1. CASE pc[s] = "EXPIRE"
        BY <2>2, <4>1
      <4>2. CASE pc[s] = "SET"
        <5>1. Due(s) = IF maxAge = NoTime THEN NoTime ELSE now + maxAge
          BY <4>2 DEF Due
        <5>2. engine # "mysql"
          BY <2>2, <4>2 DEF Program
        <5> QED BY <4>2, <5>1, <5>2 DEF Expiring
      <4>3. CASE pc[s] \notin {"EXPIRE", "SET"}
        <5>1. Due(s) = deadline[DigestOf(s)]
          BY <4>3 DEF Due
        <5> QED BY <1>2, <5>1
      <4> QED BY <4>1, <4>2, <4>3
    <3> QED BY <1>2, <3>1, <3>2
  <2>6. Fresh'
    <3> SUFFICES ASSUME NEW d \in Digests, acked'[d] # NoTime
                 PROVE  acked'[d] <= now' /\ Safe(d, acked[d])'
      OBVIOUS
    <3>1. CASE acked'[d] = acked[d]
      <4>1. acked[d] <= now /\ Safe(d, acked[d])'
        BY <1>5, <3>1
      <4> QED BY <2>1, <3>1, <4>1
    <3>2. CASE acked'[d] # acked[d]
      <4>1. /\ Effective(s) /\ LastCommand(s) /\ IsUpdate(s) /\ Refreshes(s) /\ acked'[d] = stamp[s]
            /\ \E i \in 1..at[s] : job[s].digests[i] = d
        BY <1>1, <1>6, <3>2, Acknowledges
      <4>2. PICK i \in 1..at[s] : job[s].digests[i] = d
        BY <4>1
      <4>3. Safe(job[s].digests[i], stamp[s])'
        BY <1>6, <4>1, DoneSafe
      <4>4. acked'[d] = stamp'[s] /\ job'[s].digests[i] = d
        BY <2>1, <4>1, <4>2
      <4>5. Safe(d, acked[d])'
        BY <4>3, <4>4
      <4> QED BY <1>1, <2>1, <4>1, <4>5
    <3> QED BY <3>1, <3>2
  <2>7. Waiting'
    <3>1. outcome'[s] # "none"
      BY <1>1, <1>6, Outcomes
    <3> QED BY <1>2, <2>1, <3>1
  <2>8. Working'
    <3> SUFFICES ASSUME NEW r \in Sessions, outcome'[r] = "busy", IsUpdate(r)', Refreshes(r)',
                        NEW i \in 1..(at'[r] - 1)
                 PROVE  Safe(job[r].digests[i], stamp[r])'
      OBVIOUS
    <3>1. IsUpdate(r) /\ Refreshes(r)
      BY <2>1, ProgramKept
    <3>2. ASSUME at'[r] = at[r], outcome[r] = "busy" PROVE Safe(job[r].digests[i], stamp[r])'
      <4>1. Safe(job[r].digests[i], stamp[r])
        BY <1>2, <3>1, <3>2
      <4>2. i \in 1..(at[r] - 1) /\ job' = job /\ stamp'[r] = stamp[r]
        BY <2>1, <3>2
      <4> QED BY <1>4, <4>1, <4>2
    <3>3. CASE r = s /\ at'[s] # at[s]
      <4>1. Effective(s) /\ LastCommand(s)
        <5>1. Fails(s) => at' = at
          BY DEF Fails
        <5>2. \A next \in Commands : Proceeds(s, next) => at' = at
          BY DEF Proceeds
        <5> QED BY <1>6, <3>3, <5>1, <5>2 DEF Carries
      <4>2. at'[s] = at[s] + 1
        BY <1>1, <1>6, <3>3, Outcomes
      <4>3. i \in 1..at[s]
        BY <2>2, <3>3, <4>2
      <4> QED BY <1>6, <3>1, <3>3, <4>1, <4>3, DoneSafe
    <3> QED BY <2>1, <2>2, <3>2, <3>3
  <2> QED BY <2>4, <2>5, <2>6, <2>7, <2>8
<1>7. ASSUME UNCHANGED <<engine, maxAge, job, acked, at>>, now <= now',
             \A d \in Digests : \/ table'[d] = table[d] /\ deadline'[d] = deadline[d]
                                \/ table'[d] = Blank /\ (deadline'[d] = deadline[d] \/ deadline'[d] = NoTime),
             \A s \in Sessions : \/ outcome'[s] = outcome[s] /\ stamp'[s] = stamp[s]
                                 \/ outcome[s] = "none" /\ outcome'[s] = "busy"
      PROVE  All
  <2>1. Expiring' = Expiring /\ now' \in Nat
    BY <1>1, <1>7 DEF Expiring, TypeInv
  <2>2. Dates(Blank)
    BY DEF Dates, Blank
  <2>3. Dating'
    <3> SUFFICES ASSUME engine = "redis", NEW d \in Digests PROVE Dates(table'[d])
      BY <1>7 DEF Dates
    <3> QED BY <1>2, <1>7, <2>2
  <2>4. Ending'
    BY <1>2, <1>7, <2>1
  <2>5. Fresh'
    <3> SUFFICES ASSUME NEW d \in Digests, acked'[d] # NoTime
                 PROVE  acked'[d] <= now' /\ Safe(d, acked[d])'
      OBVIOUS
    <3>1. acked'[d] = acked[d] /\ acked[d] \in Int
      BY <1>1, <1>7, Domains
    <3>2. acked[d] <= now /\ Safe(d, acked[d])'
      BY <1>5, <3>1
    <3> QED BY <1>1, <1>7, <2>1, <3>1, <3>2
  <2>6. Waiting'
    BY <1>2, <1>7
  <2>7. Working'
    <3> SUFFICES ASSUME NEW r \in Sessions, outcome'[r] = "busy", IsUpdate(r)', Refreshes(r)',
                        NEW i \in 1..(at'[r] - 1)
                 PROVE  Safe(job[r].digests[i], stamp[r])'
      OBVIOUS
    <3>1. IsUpdate(r) /\ Refreshes(r) /\ at'[r] = at[r]
      BY <1>7, ProgramKept
    <3>2. at[r] # 1
      BY <3>1
    <3>3. outcome[r] = "busy" /\ stamp'[r] = stamp[r]
      BY <1>2, <1>7, <3>2
    <3>4. Safe(job[r].digests[i], stamp[r]) /\ i \in 1..(at[r] - 1)
      BY <1>2, <3>1, <3>3
    <3> QED BY <1>4, <1>7, <3>3, <3>4
  <2> QED BY <2>3, <2>4, <2>5, <2>6, <2>7
<1> HIDE DEF All
<1>8. ASSUME NEW s \in Sessions, Begin(s) PROVE All
  <2>1. /\ outcome[s] = "none" /\ outcome' = [outcome EXCEPT ![s] = "busy"]
        /\ stamp' = [stamp EXCEPT ![s] = now]
        /\ UNCHANGED <<engine, maxAge, now, table, deadline, job, at, acked>>
    BY <1>8 DEF Begin, dbVars
  <2>2. \A r \in Sessions : \/ outcome'[r] = outcome[r] /\ stamp'[r] = stamp[r]
                            \/ outcome[r] = "none" /\ outcome'[r] = "busy"
    BY <1>1, <2>1 DEF TypeInv
  <2> QED BY <1>1, <1>7, <2>1, <2>2
<1>9. ASSUME Tick \/ (\E d \in Digests : KeyExpires(d)) \/ Reorganize \/ UNCHANGED vars PROVE All
  <2>1. UNCHANGED <<engine, maxAge, job, at, outcome, stamp, acked>> /\ now <= now'
    BY <1>1, <1>9 DEF Tick, KeyExpires, Reorganize, vars
  <2>2. \A d \in Digests :
          \/ table'[d] = table[d] /\ deadline'[d] = deadline[d]
          \/ table'[d] = Blank /\ (deadline'[d] = deadline[d] \/ deadline'[d] = NoTime)
    BY <1>1, <1>9 DEF Tick, KeyExpires, Reorganize, vars, dbVars, TypeInv
  <2> QED BY <1>7, <2>1, <2>2
<1>10. All
  BY <1>1, <1>6, <1>8, <1>9, StepKinds
<1> QED BY <1>1, <1>10 DEF FreshInv, All

LEMMA FreshInit == Init => FreshInv
<1> SUFFICES ASSUME Init PROVE FreshInv
  OBVIOUS
<1>1. TypeInv
  BY TypeInit
<1>2. /\ \A d \in Digests : table[d] = Blank /\ deadline[d] = NoTime /\ acked[d] = NoTime
      /\ \A s \in Sessions : outcome[s] = "none" /\ at[s] = 1
  BY DEF Init
<1>3. Dates(Blank)
  BY DEF Dates, Blank
<1> QED BY <1>1, <1>2, <1>3 DEF FreshInv

LEMMA FreshMeans ==
  ASSUME FreshInv, [Next]_vars, NEW d \in Digests, table[d] # Blank, table'[d] = Blank,
         acked[d] # NoTime, engine = "mysql" => acked[d] > cached[d]
  PROVE  now >= acked[d] + maxAge
<1>1. /\ TypeInv /\ acked[d] \in Int /\ Safe(d, acked[d]) /\ now \in Nat
      /\ deadline[d] # NoTime => Expiring /\ deadline[d] \in Int
      /\ maxAge # NoTime => maxAge \in Nat
      /\ table[d].r_updated # NoTime => table[d].r_updated \in Int
      /\ cached[d] \in Nat /\ engine \in {"redis", "redis_v0", "mysql"}
  <2>1. TypeInv
    BY DEF FreshInv
  <2> QED BY <2>1, Domains DEF FreshInv
<1>2. ASSUME NEW s \in Sessions, Carries(s) PROVE FALSE
  <2>1. CASE d # DigestOf(s)
    BY <1>1, <1>2, <2>1, OthersKept
  <2>2. CASE d = DigestOf(s)
    <3>1. Row(s) # Blank /\ (engine = "redis" => Dates(Row(s)))
      BY <2>2 DEF Row, FreshInv
    <3>2. outcome[s] = "busy" /\ (table'[d] = Row(s) \/ table'[d] = Stored(s))
      BY <1>1, <1>2, <2>2, Outcomes
    <3>3. Stored(s) # Blank
      BY <1>1, <3>1, <3>2, WrittenStays
    <3> QED BY <3>1, <3>2, <3>3
  <2> QED BY <2>1, <2>2
<1>3. ASSUME NEW e \in Digests, KeyExpires(e) PROVE now >= acked[d] + maxAge
  <2>1. e = d /\ deadline[d] # NoTime /\ now >= deadline[d]
    BY <1>1, <1>3 DEF KeyExpires, TypeInv
  <2> QED BY <1>1, <2>1 DEF Safe, Expiring
<1>4. ASSUME Reorganize PROVE now >= acked[d] + maxAge
  <2>1. /\ engine = "mysql" /\ maxAge \in Nat
        /\ table[d].r_updated # NoTime /\ table[d].r_updated < now - maxAge
    BY <1>1, <1>4 DEF Reorganize, Cutoff
  <2> QED BY <1>1, <2>1 DEF Safe
<1>5. ~Tick /\ ~UNCHANGED vars /\ \A s \in Sessions : ~Begin(s)
  BY DEF Tick, vars, dbVars, Begin
<1> QED BY <1>1, <1>2, <1>3, <1>4, <1>5, StepKinds

\* Neither expiry nor cleanup removes a record within the cleanup age of an update
\* that was answered ok (EXPIRE and SETEX of the redis engines, the DELETE with which a
\* mysql server starts): mysql looks at reports only, and a set gives its row new times.
THEOREM FreshSafe == Spec => NoFreshRowLost
<1>1. Init => FreshInv
  BY FreshInit
<1>2. FreshInv /\ [Next]_vars => FreshInv'
  BY FreshStep
<1>3. FreshInv /\ [Next]_vars =>
        [\A d \in Digests :
           table[d] # Blank /\ table'[d] = Blank
           /\ acked[d] # NoTime /\ (engine = "mysql" => acked[d] > cached[d])
              => now >= acked[d] + maxAge]_vars
  BY FreshMeans
<1> QED BY <1>1, <1>2, <1>3, PTL DEF Spec, NoFreshRowLost
-----------------------------------------------------------------------------
(* The counters.                                                               *)

Later == {"HSETNX", "HSET", "EXPIRE"}

TallyInv ==
    /\ TypeInv
    /\ engine \notin Shared => \A r, s \in Sessions : outcome[r] = "busy" /\ outcome[s] = "busy" => r = s
    /\ \A s \in Sessions : outcome[s] = "none" => at[s] = 1 /\ taken[s] = 0
    /\ \A s \in Sessions : outcome[s] = "busy" /\ job[s].op # "get"
                             => taken[s] = IF pc[s] \in Later THEN at[s] ELSE at[s] - 1
    /\ \A s \in Sessions : outcome[s] = "busy" /\ pc[s] = "SET" /\ IsUpdate(s)
                             => Row(s) \in {held[s], Blank}

LEMMA TallyInit == Init => TallyInv
<1> SUFFICES ASSUME Init PROVE TallyInv
  OBVIOUS
<1>1. TypeInv
  BY TypeInit
<1>2. \A s \in Sessions : outcome[s] = "none" /\ at[s] = 1 /\ taken[s] = 0
  BY DEF Init
<1> QED BY <1>1, <1>2 DEF TallyInv

LEMMA TallyKept ==
  ASSUME "redis_v0" \notin Shared
  PROVE  TallyInv /\ [Next]_vars => TallyInv'
<1> SUFFICES ASSUME TallyInv, [Next]_vars PROVE TallyInv'
  OBVIOUS
<1>1. TypeInv /\ TypeInv' /\ engine \in {"redis", "redis_v0", "mysql"}
  <2>1. TypeInv
    BY DEF TallyInv
  <2> QED BY <2>1, TypeStep, Domains
<1> DEFINE
      Alone == engine \notin Shared =>
                 \A r, s \in Sessions : outcome[r] = "busy" /\ outcome[s] = "busy" => r = s
      Waiting == \A s \in Sessions : outcome[s] = "none" => at[s] = 1 /\ taken[s] = 0
      Dealt == \A s \in Sessions : outcome[s] = "busy" /\ job[s].op # "get"
                                     => taken[s] = IF pc[s] \in Later THEN at[s] ELSE at[s] - 1
      Holding == \A s \in Sessions : outcome[s] = "busy" /\ pc[s] = "SET" /\ IsUpdate(s)
                                       => Row(s) \in {held[s], Blank}
      All == Alone' /\ Waiting' /\ Dealt' /\ Holding'
<1>2. Alone /\ Waiting /\ Dealt /\ Holding
  BY DEF TallyInv
<1>3. \A s \in Sessions : outcome[s] = "busy" /\ pc[s] = "SET" => engine = "redis_v0"
  BY <1>1 DEF TypeInv, Program
<1>4. ASSUME NEW s \in Sessions PROVE First(s) \notin Later /\ (IsUpdate(s) => First(s) # "SET")
  BY <1>1 DEF First, IsUpdate, Later
<1>5. ASSUME NEW s \in Sessions, Carries(s) PROVE All
  <2>1. /\ \A r \in Sessions : r # s => /\ at'[r] = at[r] /\ outcome'[r] = outcome[r]
                                        /\ pc'[r] = pc[r] /\ held'[r] = held[r]
        /\ UNCHANGED <<engine, maxAge, now, job, stamp>>
    BY <1>1, <1>5, OthersKept
  <2>2. \A r \in Sessions : r # s => taken'[r] = taken[r]
    BY <1>1, <1>5 DEF Carries, Unaffected, Effective, TypeInv
  <2>3. /\ outcome[s] = "busy" /\ pc[s] \in Program(s) /\ at[s] \in Nat
        /\ job[s].op \in {"report", "whitelist", "set", "get"}
    BY <1>1, <1>5, Outcomes DEF TypeInv
  <2>4. Alone'
    BY <1>2, <2>1, <2>3
  <2>5. Waiting'
    <3>1. outcome'[s] # "none"
      BY <1>1, <1>5, Outcomes
    <3> QED BY <1>2, <2>1, <2>2, <3>1
  <2>6. Dealt'
    <3>1. ASSUME job[s].op # "get", outcome'[s] = "busy"
          PROVE  taken'[s] = IF pc'[s] \in Later THEN at'[s] ELSE at'[s] - 1
      <4>1. /\ taken[s] = IF pc[s] \in Later THEN at[s] ELSE at[s] - 1
            /\ taken'[s] = IF pc[s] \in Counting THEN taken[s] + 1 ELSE taken[s]
        BY <1>1, <1>2, <1>5, <2>3, <3>1, Outcomes
      <4>2. CASE Proceeds(s, pc'[s]) /\ at'[s] = at[s]
        <5>1. \/ pc[s] = "HINCRBY" /\ pc'[s] = "HSETNX"
              \/ pc[s] = "HSETNX" /\ pc'[s] = "HSET"
              \/ pc[s] \in {"HSET", "HSET all"} /\ pc'[s] = "EXPIRE"
              \/ pc[s] = "GET" /\ pc'[s] = "SET"
          BY <4>2 DEF Proceeds
        <5>2. CASE pc[s] \in {"HINCRBY", "HSET all"} /\ pc'[s] \in Later
          <6>1. taken[s] = at[s] - 1 /\ taken'[s] = taken[s] + 1
            BY <4>1, <5>2 DEF Later, Counting
          <6>2. (at[s] - 1) + 1 = at[s]
            BY <2>3
          <6>3. taken'[s] = at'[s]
            BY Zenon, <4>2, <6>1, <6>2
          <6> QED BY <5>2, <6>3
        <5>3. CASE pc[s] \in {"HSETNX", "HSET"} /\ pc'[s] \in Later
          <6>1. taken[s] = at[s] /\ taken'[s] = taken[s]
            BY <4>1, <5>3 DEF Later, Counting
          <6> QED BY <2>3, <4>2, <5>3, <6>1
        <5>4. CASE pc[s] = "GET" /\ pc'[s] = "SET"
          <6>1. taken[s] = at[s] - 1 /\ taken'[s] = taken[s] /\ pc'[s] \notin Later
            BY <4>1, <5>4 DEF Later, Counting
          <6> QED BY <2>3, <4>2, <5>4, <6>1
        <5> QED BY <5>1, <5>2, <5>3, <5>4 DEF Later
      <4>3. CASE at'[s] = at[s] + 1 /\ LastCommand(s) /\ pc'[s] = First(s)
        <5>1. pc[s] \in Counting \/ pc[s] \in Later
          BY <2>3, <3>1, <4>3 DEF LastCommand, Counting, Later, Program, IsUpdate
        <5>2. pc[s] \in Counting => pc[s] \notin Later
          BY DEF Counting, Later
        <5> QED BY <1>4, <2>3, <4>1, <4>3, <5>1, <5>2
      <4> QED BY <1>1, <1>5, <3>1, <4>2, <4>3, Outcomes
    <3> QED BY <1>2, <2>1, <2>2, <3>1
  <2>7. Holding'
    <3> SUFFICES ASSUME NEW r \in Sessions, outcome'[r] = "busy", pc'[r] = "SET", IsUpdate(r)'
                 PROVE  Row(r)' \in {held'[r], Blank}
      OBVIOUS
    <3>1. IsUpdate(r)
      BY <2>1, ProgramKept
    <3>2. r = s
      BY <1>2, <1>3, <2>1, <2>3
    <3>3. Proceeds(s, pc'[s]) /\ at'[s] = at[s] /\ held'[s] = Row(s) /\ table'[DigestOf(s)] = Stored(s)
      BY <1>1, <1>4, <1>5, <3>1, <3>2, Outcomes
    <3>4. pc[s] = "GET"
      BY <3>2, <3>3 DEF Proceeds
    <3>5. Stored(s) = Row(s)
      BY <3>4 DEF Stored
    <3>6. Row(s)' = table'[DigestOf(s)]
      BY <2>1, <3>3 DEF Row, DigestOf
    <3> QED BY <3>2, <3>3, <3>5, <3>6
  <2> QED BY <2>4, <2>5, <2>6, <2>7
<1>6. ASSUME NEW s \in Sessions, Begin(s) PROVE All
  <2>1. /\ outcome[s] = "none" /\ outcome' = [outcome EXCEPT ![s] = "busy"]
        /\ engine \in Shared \/ \A r \in Sessions : outcome[r] # "busy"
        /\ pc' = [pc EXCEPT ![s] = First(s)]
        /\ UNCHANGED <<engine, maxAge, now, table, job, at, taken, held>>
    BY <1>6 DEF Begin, dbVars, MutexAdmits
  <2>2. \A r \in Sessions : \/ r # s /\ outcome'[r] = outcome[r] /\ pc'[r] = pc[r]
                            \/ r = s /\ outcome'[r] = "busy" /\ pc'[r] = First(s)
    BY <1>1, <2>1 DEF TypeInv
  <2>3. Alone' /\ Waiting'
    BY <1>2, <2>1, <2>2
  <2>4. Dealt'
    BY <1>1, <1>2, <1>4, <2>1, <2>2 DEF TypeInv
  <2>5. Holding'
    BY <1>2, <1>4, <2>1, <2>2 DEF IsUpdate, Row, DigestOf
  <2> QED BY <2>3, <2>4, <2>5
<1>7. ASSUME Tick \/ (\E d \in Digests : KeyExpires(d)) \/ Reorganize \/ UNCHANGED vars PROVE All
  <2>1. UNCHANGED <<engine, maxAge, job, at, outcome, pc, held, taken>>
    BY <1>7 DEF Tick, KeyExpires, Reorganize, vars
  <2>2. \A d \in Digests : table'[d] = table[d] \/ table'[d] = Blank
    BY <1>1, <1>7 DEF Tick, KeyExpires, Reorganize, vars, dbVars, TypeInv
  <2>3. Alone' /\ Waiting' /\ Dealt'
    BY <1>2, <2>1
  <2>4. \A s \in Sessions : DigestOf(s) \in Digests
    BY <1>1, DigestType
  <2>5. Holding'
    BY <1>2, <2>1, <2>2, <2>4 DEF IsUpdate, Row, DigestOf
  <2> QED BY <2>3, <2>5
<1> HIDE DEF All
<1>8. All
  BY <1>1, <1>5, <1>6, <1>7, StepKinds
<1> QED BY <1>1, <1>8 DEF TallyInv, All

\* The counters of the mapping.

Occupies(s, d) == At(s, "SET") /\ IsUpdate(s) /\ DigestOf(s) = d
Mapped == [d \in Digests |-> [r_count |-> Kept(d).r_count, wl_count |-> Kept(d).wl_count]]

LEMMA KeptRow ==
  ASSUME NEW d, \A s \in Sessions : ~Occupies(s, d)
  PROVE  Kept(d) = table[d]
BY DEF Kept, Occupies

LEMMA KeptHeld ==
  ASSUME NEW d, NEW s \in Sessions, Occupies(s, d), \A r \in Sessions : Occupies(r, d) => r = s
  PROVE  Kept(d) = held[s]
BY DEF Kept, Occupies

LEMMA KeptRowNext ==
  ASSUME NEW d, \A s \in Sessions : ~Occupies(s, d)'
  PROVE  Kept(d)' = table'[d]
BY DEF Kept, Occupies

LEMMA KeptHeldNext ==
  ASSUME NEW d, NEW s \in Sessions, Occupies(s, d)', \A r \in Sessions : Occupies(r, d)' => r = s
  PROVE  Kept(d)' = held'[s]
BY DEF Kept, Occupies

\* Only a redis_v0 session, which no other runs beside, holds a record.
LEMMA HolderAlone ==
  ASSUME TallyInv, "redis_v0" \notin Shared, NEW s \in Sessions, NEW d \in Digests, Occupies(s, d)
  PROVE  engine = "redis_v0" /\ \A r \in Sessions : outcome[r] = "busy" => r = s
<1>1. outcome[s] = "busy" /\ pc[s] = "SET" /\ engine \in {"redis", "redis_v0", "mysql"}
      /\ pc[s] \in Program(s)
  BY Domains DEF Occupies, At, TallyInv, TypeInv
<1>2. engine = "redis_v0"
  BY <1>1 DEF Program
<1> QED BY <1>1, <1>2 DEF TallyInv

LEMMA KeptType ==
  ASSUME TallyInv, "redis_v0" \notin Shared, NEW d \in Digests
  PROVE  Kept(d) \in Record
<1>1. CASE \A s \in Sessions : ~Occupies(s, d)
  <2>1. Kept(d) = table[d]
    BY <1>1, KeptRow
  <2> QED BY <2>1 DEF TallyInv, TypeInv
<1>2. ASSUME NEW s \in Sessions, Occupies(s, d) PROVE Kept(d) \in Record
  <2>1. \A r \in Sessions : Occupies(r, d) => r = s
    BY <1>2, HolderAlone DEF Occupies, At
  <2>2. Kept(d) = held[s]
    BY <1>2, <2>1, KeptHeld
  <2> QED BY <2>2 DEF TallyInv, TypeInv
<1> QED BY <1>1, <1>2

\* A step that leaves who holds what alone changes what it does to the table only.
LEMMA SameHolders ==
  ASSUME TallyInv, "redis_v0" \notin Shared, NEW d \in Digests,
         \A s \in Sessions : Occupies(s, d)' <=> Occupies(s, d),
         \A s \in Sessions : Occupies(s, d) => held'[s] = held[s]
  PROVE  \/ Kept(d)' = Kept(d)
         \/ Kept(d) = table[d] /\ Kept(d)' = table'[d]
<1>1. CASE \A s \in Sessions : ~Occupies(s, d)
  BY <1>1, KeptRow, KeptRowNext
<1>2. ASSUME NEW s \in Sessions, Occupies(s, d) PROVE Kept(d)' = Kept(d)
  <2>1. \A r \in Sessions : Occupies(r, d) => r = s
    BY <1>2, HolderAlone DEF Occupies, At
  <2>2. Kept(d) = held[s] /\ Kept(d)' = held'[s]
    BY <1>2, <2>1, KeptHeld, KeptHeldNext
  <2> QED BY <1>2, <2>2
<1> QED BY <1>1, <1>2

LEMMA MappedSame ==
  ASSUME \A d \in Digests : Kept(d)'.r_count = Kept(d).r_count /\ Kept(d)'.wl_count = Kept(d).wl_count
  PROVE  Mapped' = Mapped
BY DEF Mapped

LEMMA MappedForgotten ==
  ASSUME \A d \in Digests :
           \/ Kept(d)'.r_count = Kept(d).r_count /\ Kept(d)'.wl_count = Kept(d).wl_count
           \/ Kept(d)'.r_count = 0 /\ Kept(d)'.wl_count = 0
  PROVE  T!Forgotten
<1> DEFINE D == {d \in Digests : Kept(d)'.r_count = 0 /\ Kept(d)'.wl_count = 0}
<1>1. D \in SUBSET Digests
  OBVIOUS
<1>2. Mapped' = [d \in Digests |-> IF d \in D THEN T!NoTally ELSE Mapped[d]]
  BY DEF Mapped, T!NoTally
<1> HIDE DEF D
<1> QED BY <1>1, <1>2 DEF Mapped, T!Forgotten

LEMMA MappedSet ==
  ASSUME NEW e \in Digests, NEW c \in Record,
         \A d \in Digests \ {e} : /\ Kept(d)'.r_count = Kept(d).r_count
                                  /\ Kept(d)'.wl_count = Kept(d).wl_count,
         Kept(e)'.r_count = c.r_count, Kept(e)'.wl_count = c.wl_count
  PROVE  Mapped' = [Mapped EXCEPT ![e] = T!CountsOf(c)]
BY DEF Mapped, T!CountsOf

LEMMA MappedCount ==
  ASSUME NEW e \in Digests, NEW op \in Updates,
         \A d \in Digests \ {e} : /\ Kept(d)'.r_count = Kept(d).r_count
                                  /\ Kept(d)'.wl_count = Kept(d).wl_count,
         Kept(e)'.r_count = IF op = "report" THEN T!Saturated(Kept(e).r_count) ELSE Kept(e).r_count,
         Kept(e)'.wl_count = IF op = "report" THEN Kept(e).wl_count ELSE T!Saturated(Kept(e).wl_count)
  PROVE  Mapped' = [Mapped EXCEPT ![e][T!Side(op)] = T!Saturated(@)]
<1>1. CASE op = "report"
  BY <1>1 DEF Mapped, T!Side
<1>2. CASE op = "whitelist"
  BY <1>2 DEF Mapped, T!Side
<1> QED BY <1>1, <1>2 DEF Updates

\* What a command counts from: the record it holds or the row.
Basis(s) == IF pc[s] = "SET" /\ IsUpdate(s) THEN held[s] ELSE Row(s)

LEMMA WrittenCounts ==
  ASSUME TypeInv, NEW s \in Sessions, outcome[s] = "busy",
         pc[s] \in {"HINCRBY", "UPSERT"} => Row(s)[Count(s)] # MaxCount
  PROVE  /\ pc[s] \notin Counting =>
              Stored(s).r_count = Row(s).r_count /\ Stored(s).wl_count = Row(s).wl_count
         /\ pc[s] \in Counting =>
              /\ job[s].op # "get"
              /\ job[s].op = "set" => /\ Stored(s).r_count = job[s].answer.r_count
                                      /\ Stored(s).wl_count = job[s].answer.wl_count
              /\ job[s].op = "report" => /\ Stored(s).r_count = T!Saturated(Basis(s).r_count)
                                         /\ Stored(s).wl_count = Basis(s).wl_count
              /\ job[s].op = "whitelist" => /\ Stored(s).r_count = Basis(s).r_count
                                            /\ Stored(s).wl_count = T!Saturated(Basis(s).wl_count)
<1>1. /\ Row(s) \in Record /\ job[s].op \in {"report", "whitelist", "set", "get"}
      /\ job[s].answer \in Record /\ stamp[s] \in Int /\ held[s] \in Record
      /\ pc[s] \in Program(s) /\ engine \in {"redis", "redis_v0", "mysql"}
  BY DigestType, JobType, EnginesAssumption DEF TypeInv
<1>2. ASSUME pc[s] \in {"HSET all", "SET", "UPSERT all"}, ~IsUpdate(s) PROVE job[s].op = "set"
  BY <1>1, <1>2 DEF Program
<1>3. CASE pc[s] = "HINCRBY"
  <2>1. Stored(s) = [Row(s) EXCEPT ![Count(s)] = Row(s)[Count(s)] + 1]
    BY <1>3 DEF Stored
  <2>2. IsUpdate(s) /\ Basis(s) = Row(s)
    BY <1>1, <1>3 DEF Program, Basis
  <2>3. CASE job[s].op = "report"
    BY <1>1, <1>3, <2>1, <2>2, <2>3, RecordsAssumption
    DEF Counting, Count, Record, Counts, T!Saturated
  <2>4. CASE job[s].op = "whitelist"
    BY <1>1, <1>3, <2>1, <2>2, <2>4, RecordsAssumption
    DEF Counting, Count, Record, Counts, T!Saturated
  <2> QED BY <2>2, <2>3, <2>4 DEF IsUpdate
<1>4. CASE pc[s] = "HSETNX"
  <2>1. Stored(s) = [Row(s) EXCEPT ![Entered(s)] = FirstTime(Row(s)[Entered(s)], stamp[s])]
    BY <1>4 DEF Stored
  <2> QED BY <1>1, <1>4, <2>1 DEF Counting, Record, Entered
<1>5. CASE pc[s] = "HSET"
  <2>1. Stored(s) = [Row(s) EXCEPT ![Updated(s)] = stamp[s]]
    BY <1>5 DEF Stored
  <2> QED BY <1>1, <1>5, <2>1 DEF Counting, Record, Updated
<1>6. CASE pc[s] \in {"HSET all", "UPSERT all"}
  <2>1. /\ Stored(s).r_count = ProxyRecord(job[s].answer, stamp[s]).r_count
        /\ Stored(s).wl_count = ProxyRecord(job[s].answer, stamp[s]).wl_count
    BY <1>1, <1>6, V1EncodedType, ProxyRecordType DEF Stored
  <2>2. job[s].op = "set"
    BY <1>1, <1>2, <1>6 DEF Program
  <2> QED BY <1>6, <2>1, <2>2 DEF Counting, ProxyRecord
<1>7. CASE pc[s] = "SET"
  <2>1. Stored(s) = V0Record(s)
    BY <1>7 DEF Stored
  <2>2. CASE IsUpdate(s)
    <3>1. Basis(s) = held[s] /\ job[s].op \in {"report", "whitelist"}
      BY <1>7, <2>2 DEF Basis, IsUpdate
    <3> QED BY <1>1, <1>7, <2>1, <3>1
        DEF Counting, V0Record, RIncrement, WlIncrement, Bump, Record, T!Saturated
  <2>3. CASE ~IsUpdate(s)
    <3>1. job[s].op = "set"
      BY <1>2, <1>7, <2>3
    <3> QED BY <1>7, <2>1, <3>1 DEF Counting, V0Record, ProxyRecord
  <2> QED BY <2>2, <2>3
<1>8. CASE pc[s] = "UPSERT"
  <2>1. IsUpdate(s) /\ Basis(s) = Row(s)
    BY <1>1, <1>8 DEF Program, Basis
  <2>2. CASE Row(s) = Blank
    <3>1. Stored(s) = Inserted(s)
      BY <1>8, <2>2 DEF Stored
    <3> QED BY <1>8, <2>1, <2>2, <3>1, RecordsAssumption
        DEF Counting, IsUpdate, Inserted, Blank, T!Saturated
  <2>3. CASE Row(s) # Blank
    <3>1. Stored(s) = [Row(s) EXCEPT ![Count(s)] = @ + 1, ![Updated(s)] = now]
      BY <1>8, <2>3 DEF Stored
    <3>2. CASE job[s].op = "report"
      BY <1>1, <1>8, <2>1, <3>1, <3>2, RecordsAssumption
      DEF Counting, Count, Updated, Record, Counts, T!Saturated
    <3>3. CASE job[s].op = "whitelist"
      BY <1>1, <1>8, <2>1, <3>1, <3>3, RecordsAssumption
      DEF Counting, Count, Updated, Record, Counts, T!Saturated
    <3> QED BY <2>1, <3>2, <3>3 DEF IsUpdate
  <2> QED BY <2>2, <2>3
<1>9. CASE pc[s] \notin {"HINCRBY", "HSETNX", "HSET", "HSET all", "SET", "UPSERT", "UPSERT all"}
  <2>1. Stored(s) = Row(s) /\ pc[s] \notin Counting
    BY <1>9 DEF Stored, Counting
  <2> QED BY <2>1
<1> QED BY <1>3, <1>4, <1>5, <1>6, <1>7, <1>8, <1>9

\* Beside a redis_v0 session at work nobody holds a record.
LEMMA KeptStep ==
  ASSUME TallyInv, "redis_v0" \notin Shared, NEW s \in Sessions, Carries(s), NEW d \in Digests
  PROVE  /\ Kept(d) = IF Occupies(s, d) THEN held[s] ELSE table[d]
         /\ Kept(d)' = IF Occupies(s, d)' THEN held'[s] ELSE table'[d]
<1>1. /\ outcome[s] = "busy" /\ job' = job
      /\ \A r \in Sessions : r # s => /\ at'[r] = at[r] /\ outcome'[r] = outcome[r]
                                      /\ pc'[r] = pc[r] /\ held'[r] = held[r]
  BY OthersKept DEF Carries, TallyInv
<1>2. \A r \in Sessions : Occupies(r, d) => r = s
  BY <1>1, HolderAlone
<1>3. \A r \in Sessions : Occupies(r, d)' => r = s
  <2> SUFFICES ASSUME NEW r \in Sessions, Occupies(r, d)', r # s PROVE FALSE
    OBVIOUS
  <2>1. Occupies(r, d)
    BY <1>1 DEF Occupies, At, IsUpdate, DigestOf
  <2> QED BY <1>2, <2>1
<1>4. Kept(d) = IF Occupies(s, d) THEN held[s] ELSE table[d]
  BY <1>2, KeptRow, KeptHeld
<1>5. Kept(d)' = IF Occupies(s, d)' THEN held'[s] ELSE table'[d]
  BY <1>3, KeptRowNext, KeptHeldNext
<1> QED BY <1>4, <1>5

\* What a command of s does to the counters of the digest it is at, and of the others.
LEMMA CarriesKept ==
  ASSUME TallyInv, "redis_v0" \notin Shared, NEW s \in Sessions, Carries(s), NEW d \in Digests
  PROVE  /\ d # DigestOf(s) => Kept(d)' = Kept(d)
         /\ d = DigestOf(s) =>
              /\ Kept(d) = Basis(s)
              /\ \/ Kept(d)' = Kept(d)
                 \/ Kept(d)' = Blank
                 \/ Kept(d)' = Stored(s)
              /\ Unaffected => Kept(d)' \in {Kept(d), Blank}
              /\ Effective(s) => Kept(d)' = Stored(s)
<1>1. /\ TypeInv /\ outcome[s] = "busy" /\ job' = job /\ DigestOf(s) \in Digests
      /\ pc[s] \in Program(s) /\ engine \in {"redis", "redis_v0", "mysql"}
      /\ \A e \in Digests : e # DigestOf(s) => table'[e] = table[e]
  <2>1. TypeInv
    BY DEF TallyInv
  <2> QED BY <2>1, OthersKept, DigestType, Outcomes
<1>2. /\ Kept(d) = IF Occupies(s, d) THEN held[s] ELSE table[d]
      /\ Kept(d)' = IF Occupies(s, d)' THEN held'[s] ELSE table'[d]
  BY KeptStep
<1>3. Occupies(s, d) <=> pc[s] = "SET" /\ IsUpdate(s) /\ DigestOf(s) = d
  BY <1>1 DEF Occupies, At
<1>4. Occupies(s, d)' =>
        /\ d = DigestOf(s) /\ pc[s] = "GET" /\ held'[s] = Row(s) /\ IsUpdate(s)
        /\ table'[d] = Stored(s)
  <2> SUFFICES ASSUME Occupies(s, d)'
               PROVE  /\ d = DigestOf(s) /\ pc[s] = "GET" /\ held'[s] = Row(s) /\ IsUpdate(s)
                      /\ table'[d] = Stored(s)
    OBVIOUS
  <2>1. outcome'[s] = "busy" /\ pc'[s] = "SET" /\ IsUpdate(s) /\ d = job[s].digests[at'[s]]
    BY <1>1 DEF Occupies, At, IsUpdate, DigestOf
  <2>2. First(s) # "SET"
    BY <1>1, <2>1 DEF First, IsUpdate
  <2>3. Proceeds(s, pc'[s]) /\ at'[s] = at[s] /\ held'[s] = Row(s) /\ table'[DigestOf(s)] = Stored(s)
    BY <1>1, <2>1, <2>2, Outcomes
  <2>4. pc[s] = "GET" /\ d = DigestOf(s)
    BY <2>1, <2>3 DEF Proceeds, DigestOf
  <2> QED BY <2>1, <2>3, <2>4
<1>5. CASE d # DigestOf(s)
  BY <1>1, <1>2, <1>3, <1>4, <1>5
<1>6. CASE d = DigestOf(s)
  <2>1. Kept(d) = Basis(s)
    BY <1>2, <1>3, <1>6 DEF Basis, Row
  <2>2. pc[s] = "GET" => Stored(s) = Row(s) /\ Basis(s) = Row(s)
    BY DEF Stored, Basis
  <2>3. Unaffected => Kept(d)' \in {Kept(d), Blank}
    <3> SUFFICES ASSUME Unaffected PROVE Kept(d)' \in {Kept(d), Blank}
      OBVIOUS
    <3>1. table'[d] = Row(s)
      BY <1>6 DEF Unaffected, dbVars, Row
    <3>2. Row(s) \in {Basis(s), Blank}
      BY <1>1 DEF TallyInv, Basis
    <3> QED BY <1>2, <1>4, <2>1, <2>2, <3>1, <3>2
  <2>4. Effective(s) => Kept(d)' = Stored(s)
    <3> SUFFICES ASSUME Effective(s) PROVE Kept(d)' = Stored(s)
      OBVIOUS
    <3>1. table'[d] = Stored(s)
      BY <1>1, <1>6 DEF Effective, TypeInv
    <3> QED BY <1>2, <1>4, <2>2, <3>1
  <2>5. Unaffected \/ Effective(s)
    BY DEF Carries
  <2> QED BY <1>6, <2>1, <2>3, <2>4, <2>5
<1> QED BY <1>5, <1>6

TallyVars == <<job, taken, outcome, Mapped>>

LEMMA CarriesTally ==
  ASSUME TallyInv, "redis_v0" \notin Shared, NEW s \in Sessions, Carries(s)
  PROVE  T!Deal(s) \/ T!Finish(s) \/ UNCHANGED TallyVars
<1>1. TypeInv
  BY DEF TallyInv
<1> PICK d \in Digests : d = DigestOf(s)
  BY <1>1, DigestType
<1>2. /\ outcome[s] = "busy" /\ job' = job /\ d \in Digests /\ at[s] \in Nat
      /\ at[s] \in 1..Len(job[s].digests) /\ Len(job[s].digests) \in Nat
      /\ job[s].op \in {"report", "whitelist", "set", "get"} /\ job[s].answer \in Record
      /\ pc[s] \in Program(s)
  BY <1>1, OthersKept, DigestType, JobType, Outcomes DEF TypeInv
<1>3. job[s].op # "get" => taken[s] = IF pc[s] \in Later THEN at[s] ELSE at[s] - 1
  BY <1>2 DEF TallyInv
<1>4. \A e \in Digests : e # d => Kept(e)' = Kept(e)
  BY CarriesKept
<1>5. ASSUME Unaffected, Fails(s) PROVE T!Finish(s)
  <2>1. \A e \in Digests : \/ Kept(e)'.r_count = Kept(e).r_count /\ Kept(e)'.wl_count = Kept(e).wl_count
                           \/ Kept(e)'.r_count = 0 /\ Kept(e)'.wl_count = 0
    <3> SUFFICES ASSUME NEW e \in Digests
                 PROVE  Kept(e)' \in {Kept(e), Blank}
      BY DEF Blank
    <3> QED BY <1>4, <1>5, CarriesKept
  <2>2. T!Forgotten
    BY <2>1, MappedForgotten
  <2>3. outcome' = [outcome EXCEPT ![s] = "failed"] /\ UNCHANGED <<job, taken>>
    BY <1>2, <1>5 DEF Fails, Unaffected
  <2> QED BY <1>2, <2>2, <2>3 DEF T!Finish
\* Where the command leaves the session, for the steps of Tally.
<1> DEFINE Ended == /\ outcome' = [outcome EXCEPT ![s] = "ok"]
                    /\ at[s] = Len(job[s].digests) /\ LastCommand(s)
           Went == UNCHANGED outcome
           Fell == outcome' = [outcome EXCEPT ![s] = "failed"]
<1>6. ASSUME Effective(s) PROVE Fell \/ Went \/ Ended
  <2>1. Fails(s) => Fell
    BY DEF Fails
  <2>2. \A next \in Commands : Proceeds(s, next) => Went
    BY DEF Proceeds
  <2>3. \A read \in Record : Onward(s, read) /\ LastCommand(s) => Went \/ Ended
    BY <1>2 DEF Onward
  <2>4. Unaffected /\ Fails(s) => Fell
    BY DEF Fails
  <2> HIDE DEF Fell, Went, Ended
  <2> QED BY <2>1, <2>2, <2>3, <2>4 DEF Carries
<1>7. ASSUME Effective(s), pc[s] \in Counting PROVE T!Deal(s)
  <2>1. /\ pc[s] \in {"HINCRBY", "UPSERT"} => Row(s)[Count(s)] # MaxCount
        /\ taken' = [taken EXCEPT ![s] = @ + 1]
    BY <1>7 DEF Effective
  <2>2. job[s].op # "get" /\ pc[s] \notin Later
    BY <1>1, <1>2, <1>7, <2>1, WrittenCounts DEF Counting, Later
  <2>3. taken[s] = at[s] - 1 /\ taken[s] < Len(job[s].digests) /\ taken[s] + 1 = at[s]
    BY <1>2, <1>3, <2>2
  <2>4. job[s].digests[taken[s] + 1] = d /\ taken'[s] = at[s]
    BY <1>1, <2>1, <2>3 DEF DigestOf, TypeInv
  <2>5. Kept(d) = Basis(s) /\ Kept(d)' = Stored(s)
    BY <1>7, CarriesKept
  <2>6. Mapped' = IF job[s].op = "set" THEN [Mapped EXCEPT ![d] = T!CountsOf(job[s].answer)]
                  ELSE [Mapped EXCEPT ![d][T!Side(job[s].op)] = T!Saturated(@)]
    <3>1. CASE job[s].op = "set"
      <4>1. Kept(d)'.r_count = job[s].answer.r_count /\ Kept(d)'.wl_count = job[s].answer.wl_count
        BY <1>1, <1>2, <1>7, <2>1, <2>5, <3>1, WrittenCounts
      <4>2. Mapped' = [Mapped EXCEPT ![d] = T!CountsOf(job[s].answer)]
        BY <1>2, <1>4, <4>1, MappedSet
      <4> QED BY <3>1, <4>2
    <3>2. CASE job[s].op \in Updates
      <4>1. /\ Kept(d)'.r_count = IF job[s].op = "report" THEN T!Saturated(Kept(d).r_count)
                                  ELSE Kept(d).r_count
            /\ Kept(d)'.wl_count = IF job[s].op = "report" THEN Kept(d).wl_count
                                   ELSE T!Saturated(Kept(d).wl_count)
        BY <1>1, <1>2, <1>7, <2>1, <2>5, <3>2, WrittenCounts DEF Updates
      <4>2. Mapped' = [Mapped EXCEPT ![d][T!Side(job[s].op)] = T!Saturated(@)]
        BY <1>4, <3>2, <4>1, MappedCount
      <4>3. job[s].op # "set"
        BY <3>2 DEF Updates
      <4> QED BY <4>2, <4>3
    <3> QED BY <1>2, <2>2, <3>1, <3>2 DEF Updates
  <2>7. \/ Went \/ Fell
        \/ /\ taken'[s] = Len(job[s].digests)
           /\ outcome' = [outcome EXCEPT ![s] = "ok"]
    BY <1>6, <1>7, <2>4
  <2>8. LET e == job[s].digests[taken[s] + 1] IN
        Mapped' = IF job[s].op = "set" THEN [Mapped EXCEPT ![e] = T!CountsOf(job[s].answer)]
                  ELSE [Mapped EXCEPT ![e][T!Side(job[s].op)] = T!Saturated(@)]
    BY <2>4, <2>6
  <2> QED BY <1>2, <2>1, <2>2, <2>3, <2>7, <2>8 DEF T!Deal, Mapped
<1>8. ASSUME Effective(s), pc[s] \notin Counting PROVE T!Finish(s) \/ UNCHANGED TallyVars
  <2>1. /\ pc[s] \in {"HINCRBY", "UPSERT"} => Row(s)[Count(s)] # MaxCount
        /\ taken' = taken
    BY <1>8 DEF Effective
  <2>2. Kept(d) = Row(s) /\ Kept(d)' = Stored(s)
    BY <1>8, CarriesKept DEF Basis, Counting
  <2>3. Kept(d)'.r_count = Kept(d).r_count /\ Kept(d)'.wl_count = Kept(d).wl_count
    BY <1>1, <1>2, <1>8, <2>1, <2>2, WrittenCounts
  <2>4. \A e \in Digests : Kept(e)'.r_count = Kept(e).r_count /\ Kept(e)'.wl_count = Kept(e).wl_count
    BY <1>4, <2>3
  <2>5. Mapped' = Mapped /\ T!Forgotten
    BY <2>4, MappedSame, MappedForgotten
  <2>6. CASE Fell
    BY <1>2, <2>1, <2>5, <2>6 DEF T!Finish
  <2>7. CASE Went
    BY <1>2, <2>1, <2>5, <2>7 DEF TallyVars
  <2>8. CASE Ended
    <3>1. job[s].op = "get" \/ taken[s] = Len(job[s].digests)
      <4>1. job[s].op # "get" => pc[s] \in Later
        BY <1>2, <1>8, <2>8 DEF LastCommand, Program, Counting, Later, IsUpdate
      <4> QED BY <1>3, <2>8, <4>1
    <3>2. UNCHANGED Mapped
      BY <2>5
    <3> QED BY <1>2, <2>1, <2>8, <3>1, <3>2 DEF T!Finish, Mapped
  <2> QED BY <1>6, <1>8, <2>6, <2>7, <2>8
<1> QED BY <1>5, <1>7, <1>8 DEF Carries

LEMMA TallyStep ==
  ASSUME "redis_v0" \notin Shared, TallyInv, [Next]_vars
  PROVE  T!TNext \/ UNCHANGED TallyVars
<1>1. TypeInv /\ engine \in {"redis", "redis_v0", "mysql"}
  <2>1. TypeInv
    BY DEF TallyInv
  <2> QED BY <2>1, Domains
<1>2. ASSUME NEW s \in Sessions, Carries(s) PROVE T!TNext \/ UNCHANGED TallyVars
  BY <1>2, CarriesTally DEF T!TNext
<1>3. ASSUME NEW s \in Sessions, Begin(s) PROVE T!TNext
  <2>1. /\ outcome[s] = "none" /\ outcome' = [outcome EXCEPT ![s] = "busy"]
        /\ pc' = [pc EXCEPT ![s] = First(s)]
        /\ UNCHANGED <<engine, table, job, taken, at, held>>
    BY <1>3 DEF Begin, dbVars
  <2>2. IsUpdate(s) => First(s) # "SET"
    BY <1>1 DEF First, IsUpdate
  <2>3. \A d \in Digests : Kept(d)' = Kept(d)
    <3> SUFFICES ASSUME NEW d \in Digests PROVE Kept(d)' = Kept(d)
      OBVIOUS
    <3>1. \A r \in Sessions : Occupies(r, d)' <=> Occupies(r, d)
      BY <1>1, <2>1, <2>2 DEF Occupies, At, IsUpdate, DigestOf, TypeInv
    <3> QED BY <2>1, <3>1, SameHolders
  <2>4. Mapped' = Mapped
    BY <2>3, MappedSame
  <2>5. T!Accept(s)
    BY <2>1, <2>4 DEF T!Accept, Mapped
  <2> QED BY <2>5 DEF T!TNext
<1>4. ASSUME Tick \/ (\E d \in Digests : KeyExpires(d)) \/ Reorganize \/ UNCHANGED vars
      PROVE  T!TNext
  <2>1. UNCHANGED <<engine, job, taken, outcome, pc, at, held>>
    BY <1>4 DEF Tick, KeyExpires, Reorganize, vars
  <2>2. \A d \in Digests : table'[d] = table[d] \/ table'[d] = Blank
    BY <1>1, <1>4 DEF Tick, KeyExpires, Reorganize, vars, dbVars, TypeInv
  <2>3. \A d \in Digests :
          \/ Kept(d)'.r_count = Kept(d).r_count /\ Kept(d)'.wl_count = Kept(d).wl_count
          \/ Kept(d)'.r_count = 0 /\ Kept(d)'.wl_count = 0
    <3> SUFFICES ASSUME NEW d \in Digests PROVE Kept(d)' \in {Kept(d), Blank}
      BY DEF Blank
    <3>1. \A r \in Sessions : (Occupies(r, d)' <=> Occupies(r, d)) /\ held'[r] = held[r]
      BY <2>1 DEF Occupies, At, IsUpdate, DigestOf
    <3> QED BY <2>2, <3>1, SameHolders
  <2>4. T!Forget
    BY <2>1, <2>3, MappedForgotten DEF T!Forget
  <2> QED BY <2>4 DEF T!TNext
<1> QED BY <1>2, <1>3, <1>4, StepKinds, <1>1

\* However many sessions share the database and whichever of their commands fail, the
\* counters are those of a table of atomic increments, as long as one mutex covers the
\* GET and SET of the redis_v0 engine (report and whitelist of DigestDatabase).
THEOREM TallySafe ==
  ASSUME "redis_v0" \notin Shared
  PROVE  Spec => RefinesTally
<1>1. Init => TallyInv
  BY TallyInit
<1>2. TallyInv /\ [Next]_vars => TallyInv'
  BY TallyKept
<1>3. Init => T!TInit
  <2> SUFFICES ASSUME Init PROVE T!TInit
    OBVIOUS
  <2>1. \A d \in Digests : Kept(d) = Blank
    BY KeptRow DEF Init, Occupies, At
  <2>2. Mapped = [d \in Digests |-> T!NoTally]
    BY <2>1 DEF Mapped, Blank, T!NoTally
  <2> QED BY <2>2 DEF Init, T!TInit, Mapped
<1>4. TallyInv /\ [Next]_vars => [T!TNext]_(T!tvars)
  BY TallyStep DEF TallyVars, T!tvars, Mapped
<1> QED BY <1>1, <1>2, <1>3, <1>4, PTL DEF Spec, RefinesTally, T!TSpec

-----------------------------------------------------------------------------
(* Then those that keep them in a file of their own: what the cleanup leaves,   *)
(* and that what was acknowledged stays in the file, for any digests, updates,  *)
(* ages and first contents.                                                     *)

Disk == [FileDigests -> Rows]
Memory == [FileDigests -> Record \cup {NoRow}]
-----------------------------------------------------------------------------
(* One digest of an update.                                                    *)

LEMMA IncrementOfRow ==
  ASSUME clock \in Int, NEW row \in Rows, NEW op \in FileOps
  PROVE  LET new == Increment(op, Base(row)) IN
         /\ new \in Record /\ new \notin Unread
         /\ CountOf(new, op) = Bump(CountOf(Base(row), op))
         /\ \A o \in FileOps \ {op} : CountOf(new, o) = CountOf(Base(row), o)
<1>1. Base(row) \in Record
  <2>1. Blank \in Record
    BY RecordsAssumption DEF Blank, Record, Counts, Times
  <2> QED BY <2>1 DEF Base, Rows
<1>2. ASSUME NEW rec \in Record, NEW new, new = Increment(op, rec)
      PROVE  /\ new \in Record
             /\ CountOf(new, op) = Bump(CountOf(rec, op))
             /\ \A o \in FileOps \ {op} : CountOf(new, o) = CountOf(rec, o)
  <2>1. /\ rec.r_count \in Counts /\ Bump(rec.r_count) \in Counts
        /\ rec.wl_count \in Counts /\ Bump(rec.wl_count) \in Counts
    BY RecordsAssumption DEF Record, Counts, Bump
  <2>2. /\ clock \in Times /\ FirstTime(rec.r_entered, clock) \in Times
        /\ FirstTime(rec.wl_entered, clock) \in Times
    BY DEF Record, Times, FirstTime
  <2>3. CASE op = "report"
    BY <1>2, <2>1, <2>2, <2>3 DEF Increment, RIncrement, CountOf, FileOps, Record
  <2>4. CASE op = "whitelist"
    BY <1>2, <2>1, <2>2, <2>4 DEF Increment, WlIncrement, CountOf, FileOps, Record
  <2> QED BY <2>3, <2>4 DEF FileOps
<1> QED BY <1>1, <1>2, FileEnginesAssumption

BumpedAt(rows, op, d) == [rows EXCEPT ![d] = Increment(op, Base(@))]
BumpedStep(f, rows, op, ds, n) == IF n = 0 THEN rows ELSE BumpedAt(f[n - 1], op, ds[n])

LEMMA BumpedAtType ==
  ASSUME clock \in Int, NEW op \in FileOps, NEW d \in FileDigests
  PROVE  /\ \A rows \in Disk : BumpedAt(rows, op, d) \in Disk
         /\ \A rows \in Memory : BumpedAt(rows, op, d) \in Memory
<1>1. \A row \in Rows : Increment(op, Base(row)) \in Record
  BY IncrementOfRow
<1> QED BY <1>1 DEF BumpedAt, Disk, Memory, Rows, Unread

\* The recursive function of an update exists.
LEMMA BumpedDefined ==
  ASSUME clock \in Int, NEW rows \in Disk, NEW op \in FileOps, NEW ds \in Seq(FileDigests)
  PROVE  /\ Bumped(rows, op, ds) \in [0..Len(ds) -> Disk]
         /\ Bumped(rows, op, ds)[0] = rows
         /\ \A n \in 0..(Len(ds) - 1) :
              Bumped(rows, op, ds)[n + 1] = BumpedAt(Bumped(rows, op, ds)[n], op, ds[n + 1])
<1> DEFINE step == [n \in Nat |-> [v \in Disk |->
                     IF n + 1 <= Len(ds) THEN BumpedAt(v, op, ds[n + 1]) ELSE v]]
<1>1. step \in [Nat -> [Disk -> Disk]]
  <2>1. \A n \in Nat : n + 1 <= Len(ds) => ds[n + 1] \in FileDigests
    OBVIOUS
  <2> QED BY <2>1, BumpedAtType
<1>2. PICK g : Recurs(g, Disk, rows, step)
  <2> HIDE DEF step
  <2> QED BY <1>1, Recursion
<1>3. g \in [Nat -> Disk] /\ g[0] = rows /\ \A n \in Nat : g[n + 1] = step[n][g[n]]
  BY <1>2 DEF Recurs
<1>4. \A n \in Nat : n + 1 <= Len(ds) => g[n + 1] = BumpedAt(g[n], op, ds[n + 1])
  BY <1>3
<1> DEFINE h == [i \in 0..Len(ds) |-> g[i]]
<1>5. h = [i \in 0..Len(ds) |-> BumpedStep(h, rows, op, ds, i)]
  <2> SUFFICES ASSUME NEW i \in 0..Len(ds) PROVE g[i] = BumpedStep(h, rows, op, ds, i)
    OBVIOUS
  <2>1. CASE i = 0
    BY <1>3, <2>1 DEF BumpedStep
  <2>2. CASE i # 0
    <3>1. i - 1 \in Nat /\ i - 1 \in 0..Len(ds) /\ i = (i - 1) + 1
      BY <2>2
    <3>2. g[i] = BumpedAt(g[i - 1], op, ds[i])
      BY <1>4, <3>1
    <3>3. h[i - 1] = g[i - 1]
      BY <3>1
    <3> QED BY <2>2, <3>2, <3>3 DEF BumpedStep
  <2> QED BY <2>1, <2>2
<1> DEFINE c == CHOOSE f : f = [i \in 0..Len(ds) |-> BumpedStep(f, rows, op, ds, i)]
<1> HIDE DEF h
<1>6. c = [i \in 0..Len(ds) |-> BumpedStep(c, rows, op, ds, i)]
  BY <1>5, Zenon
<1>7. Bumped(rows, op, ds) = c
  BY Zenon DEF Bumped, BumpedStep, BumpedAt
<1> HIDE DEF c
<1>8. /\ c[0] = rows
      /\ \A n \in 0..(Len(ds) - 1) : c[n + 1] = BumpedAt(c[n], op, ds[n + 1])
  <2>1. \A i \in 0..Len(ds) : c[i] = BumpedStep(c, rows, op, ds, i)
    BY <1>6
  <2>2. \A n \in 0..(Len(ds) - 1) : n + 1 \in 0..Len(ds) /\ n + 1 # 0 /\ (n + 1) - 1 = n
    OBVIOUS
  <2>3. \A n \in 0..(Len(ds) - 1) : c[n + 1] = BumpedAt(c[n], op, ds[n + 1])
    BY <2>1, <2>2 DEF BumpedStep
  <2>4. 0 \in 0..Len(ds)
    OBVIOUS
  <2> QED BY <2>1, <2>3, <2>4 DEF BumpedStep
<1>9. c \in [0..Len(ds) -> Disk]
  <2> DEFINE Reached == {i \in Nat : i <= Len(ds) => c[i] \in Disk}
  <2>1. 0 \in Reached
    BY <1>8
  <2>2. ASSUME NEW n \in Nat, n \in Reached PROVE n + 1 \in Reached
    <3> SUFFICES ASSUME n + 1 <= Len(ds) PROVE c[n + 1] \in Disk
      OBVIOUS
    <3>1. c[n] \in Disk /\ n \in 0..(Len(ds) - 1) /\ ds[n + 1] \in FileDigests
      BY <2>2
    <3> QED BY <1>8, <3>1, BumpedAtType
  <2>3. \A n \in Nat : n \in Reached
    <3> HIDE DEF Reached
    <3> QED BY <2>1, <2>2, Induction
  <2>4. \A i \in 0..Len(ds) : c[i] \in Disk
    BY <2>3
  <2> QED BY <1>6, <2>4
<1> QED BY <1>7, <1>8, <1>9
-----------------------------------------------------------------------------
(* All digests of an update.                                                   *)

\* How often the first n digests name d.
NamedBy(ds, d, n) == Cardinality({i \in 1..n : ds[i] = d})

LEMMA NamedNext ==
  ASSUME NEW ds, NEW d, NEW n \in Nat
  PROVE  /\ NamedBy(ds, d, 0) = 0 /\ NamedBy(ds, d, n) \in Nat
         /\ ds[n + 1] = d => NamedBy(ds, d, n + 1) = NamedBy(ds, d, n) + 1
         /\ ds[n + 1] # d => NamedBy(ds, d, n + 1) = NamedBy(ds, d, n)
<1> DEFINE S == {i \in 1..n : ds[i] = d}
           R == {i \in 1..(n + 1) : ds[i] = d}
<1>1. IsFiniteSet(S) /\ Cardinality(S) \in Nat
  <2>1. IsFiniteSet(1..n) /\ S \subseteq 1..n
    BY FS_Interval
  <2> HIDE DEF S
  <2> QED BY <2>1, FS_Subset, FS_CardinalityType
<1>2. NamedBy(ds, d, 0) = 0
  <2>1. {i \in 1..0 : ds[i] = d} = {}
    OBVIOUS
  <2> QED BY <2>1, FS_EmptySet DEF NamedBy
<1>3. n + 1 \notin S
  OBVIOUS
<1>4. ds[n + 1] = d => R = S \cup {n + 1}
  OBVIOUS
<1>5. ds[n + 1] # d => R = S
  <2>1. \A i : i \in 1..(n + 1) <=> i \in 1..n \/ i = n + 1
    OBVIOUS
  <2> QED BY <2>1
<1>6. NamedBy(ds, d, n) = Cardinality(S) /\ NamedBy(ds, d, n + 1) = Cardinality(R)
  BY DEF NamedBy
<1> HIDE DEF S, R
<1>7. ds[n + 1] = d => Cardinality(R) = Cardinality(S) + 1
  BY <1>1, <1>3, <1>4, FS_AddElement
<1> QED BY <1>1, <1>2, <1>5, <1>6, <1>7

\* A row that has counted c updates of an operation.
Covers(row, op, c) ==
    c > 0 => row \notin Unread /\ (CountOf(row, op) >= c \/ CountOf(row, op) = MaxCount)

Unsigned(rows) == \A d \in FileDigests : \A op \in FileOps :
    rows[d] \notin Unread => CountOf(rows[d], op) >= 0

\* What the update of one digest does to what the rows have counted.
LEMMA BumpedCovers ==
  ASSUME clock \in Int, NEW rows \in Disk, Unsigned(rows), NEW op \in FileOps,
         NEW e \in FileDigests
  PROVE  LET new == BumpedAt(rows, op, e) IN
         /\ Unsigned(new)
         /\ \A d \in FileDigests : \A o \in FileOps : \A c \in Nat :
              Covers(rows[d], o, c)
                => Covers(new[d], o, IF d = e /\ o = op THEN c + 1 ELSE c)
<1> DEFINE row == rows[e]  new == Increment(op, Base(row))
<1>0. row \in Rows
  BY DEF Disk
<1>1. /\ new \in Record /\ new \notin Unread
      /\ CountOf(new, op) = Bump(CountOf(Base(row), op))
      /\ \A o \in FileOps \ {op} : CountOf(new, o) = CountOf(Base(row), o)
  BY <1>0, IncrementOfRow
<1>2. \A o \in FileOps : /\ CountOf(Base(row), o) \in Nat
                         /\ CountOf(Base(row), o) <= MaxCount
                         /\ row \notin Unread => CountOf(Base(row), o) = CountOf(row, o)
  <2>1. CASE row \in Unread
    BY <2>1, RecordsAssumption DEF Base, Blank, CountOf
  <2>2. CASE row \notin Unread
    <3>1. row \in Record
      BY <1>0, <2>2 DEF Rows
    <3>2. \A o \in FileOps : CountOf(row, o) \in Int /\ CountOf(row, o) <= MaxCount
      BY <3>1 DEF Record, Counts, CountOf
    <3> QED BY <2>2, <3>2 DEF Base, Unsigned
  <2> QED BY <2>1, <2>2
<1>3. /\ BumpedAt(rows, op, e)[e] = new
      /\ \A d \in FileDigests \ {e} : BumpedAt(rows, op, e)[d] = rows[d]
  BY DEF BumpedAt, Disk
<1> HIDE DEF row, new
<1>4. \A o \in FileOps : CountOf(new, o) >= 0
  BY <1>1, <1>2 DEF Bump
<1>5. ASSUME NEW o \in FileOps, NEW c \in Nat, Covers(row, o, c)
      PROVE  Covers(new, o, IF o = op THEN c + 1 ELSE c)
  <2>1. CASE o # op
    BY <1>1, <1>2, <1>5, <2>1 DEF Covers
  <2>2. CASE o = op
    <3>1. CountOf(Base(row), op) >= c \/ CountOf(Base(row), op) = MaxCount
      BY <1>2, <1>5, <2>2 DEF Covers
    <3>2. CountOf(new, op) >= c + 1 \/ CountOf(new, op) = MaxCount
      BY <1>1, <1>2, <3>1, RecordsAssumption DEF Bump
    <3> QED BY <1>1, <2>2, <3>2 DEF Covers
  <2> QED BY <2>1, <2>2
<1>6. Unsigned(BumpedAt(rows, op, e))
  BY <1>3, <1>4 DEF Unsigned
<1>7. ASSUME NEW d \in FileDigests, NEW o \in FileOps, NEW c \in Nat, Covers(rows[d], o, c)
      PROVE  Covers(BumpedAt(rows, op, e)[d], o, IF d = e /\ o = op THEN c + 1 ELSE c)
  <2>1. CASE d = e
    <3>1. Covers(row, o, c)
      BY <1>7, <2>1 DEF row
    <3>2. Covers(new, o, IF o = op THEN c + 1 ELSE c)
      BY <1>5, <3>1
    <3> QED BY <1>3, <2>1, <3>2
  <2>2. CASE d # e
    BY <1>3, <1>7, <2>2
  <2> QED BY <2>1, <2>2
<1> QED BY <1>6, <1>7

\* After n digests each row has counted what they name.
LEMMA AfterCovers ==
  ASSUME clock \in Int, NEW rows \in Disk, Unsigned(rows), NEW op \in FileOps,
         NEW ds \in Seq(FileDigests), NEW m \in 0..Len(ds)
  PROVE  LET new == Bumped(rows, op, ds)[m] IN
         /\ Unsigned(new)
         /\ rows \in Memory => new \in Memory
         /\ \A d \in FileDigests : \A o \in FileOps : \A c \in Nat :
              Covers(rows[d], o, c)
                => Covers(new[d], o, IF o = op THEN c + NamedBy(ds, d, m) ELSE c)
<1> DEFINE after == Bumped(rows, op, ds)
           Good(n) == /\ Unsigned(after[n])
                      /\ rows \in Memory => after[n] \in Memory
                      /\ \A d \in FileDigests : \A o \in FileOps : \A c \in Nat :
                           Covers(rows[d], o, c)
                             => Covers(after[n][d], o, IF o = op THEN c + NamedBy(ds, d, n) ELSE c)
           Reached == {n \in Nat : n <= Len(ds) => Good(n)}
<1>1. /\ after \in [0..Len(ds) -> Disk] /\ after[0] = rows
      /\ \A n \in 0..(Len(ds) - 1) : after[n + 1] = BumpedAt(after[n], op, ds[n + 1])
  BY BumpedDefined
<1> HIDE DEF after
<1>2. 0 \in Reached
  <2>1. \A d : NamedBy(ds, d, 0) = 0
    BY NamedNext
  <2> QED BY <1>1, <2>1
<1>3. ASSUME NEW n \in Nat, n \in Reached PROVE n + 1 \in Reached
  <2> SUFFICES ASSUME n + 1 <= Len(ds) PROVE Good(n + 1)
    OBVIOUS
  <2>1. /\ n \in 0..(Len(ds) - 1) /\ n \in 0..Len(ds) /\ ds[n + 1] \in FileDigests
        /\ after[n] \in Disk /\ after[n + 1] = BumpedAt(after[n], op, ds[n + 1]) /\ Good(n)
    BY <1>1, <1>3
  <2>2. /\ Unsigned(after[n + 1])
        /\ \A d \in FileDigests : \A o \in FileOps : \A c \in Nat :
             Covers(after[n][d], o, c)
               => Covers(after[n + 1][d], o, IF d = ds[n + 1] /\ o = op THEN c + 1 ELSE c)
    BY <2>1, BumpedCovers
  <2>3. rows \in Memory => after[n + 1] \in Memory
    BY <2>1, BumpedAtType
  <2>4. ASSUME NEW d \in FileDigests, NEW o \in FileOps, NEW c \in Nat, Covers(rows[d], o, c)
        PROVE  Covers(after[n + 1][d], o, IF o = op THEN c + NamedBy(ds, d, n + 1) ELSE c)
    <3> DEFINE k == IF o = op THEN c + NamedBy(ds, d, n) ELSE c
               l == IF d = ds[n + 1] /\ o = op THEN k + 1 ELSE k
    <3>1. NamedBy(ds, d, n) \in Nat
      BY NamedNext
    <3>2. k \in Nat /\ Covers(after[n][d], o, k)
      BY <2>1, <2>4, <3>1
    <3>3. l = IF o = op THEN c + NamedBy(ds, d, n + 1) ELSE c
      <4>1. CASE ds[n + 1] = d
        <5>1. NamedBy(ds, d, n + 1) = NamedBy(ds, d, n) + 1
          BY <4>1, NamedNext, Zenon
        <5> QED BY <3>1, <4>1, <5>1
      <4>2. CASE ds[n + 1] # d
        <5>1. NamedBy(ds, d, n + 1) = NamedBy(ds, d, n)
          BY <4>2, NamedNext, Zenon
        <5> QED BY <3>1, <4>2, <5>1
      <4> QED BY <4>1, <4>2
    <3>4. Covers(after[n + 1][d], o, l)
      <4> HIDE DEF k
      <4> QED BY <2>2, <3>2
    <3> HIDE DEF k, l
    <3> QED BY <3>3, <3>4
  <2> QED BY <2>2, <2>3, <2>4
<1>4. m \in Nat /\ m <= Len(ds)
  OBVIOUS
<1>5. m \in Reached
  <2> HIDE DEF Reached
  <2> QED BY <1>2, <1>3, <1>4, Induction
<1> QED BY <1>4, <1>5 DEF after
-----------------------------------------------------------------------------
(* The rows a run finds, keeps and writes.                                     *)

LEMMA LoadedRows ==
  ASSUME NEW rows \in Disk
  PROVE  /\ Loaded(rows) \in Memory
         /\ \A d \in FileDigests : Loaded(rows)[d] = rows[d] \/ Loaded(rows)[d] = NoRow
         /\ rows \in Memory => Loaded(rows) = rows
<1>1. \A d \in FileDigests : Loaded(rows)[d] = rows[d] \/ Loaded(rows)[d] = NoRow
  BY DEF Loaded
<1>2. Loaded(rows) \in Memory
  BY DEF Loaded, Disk, Memory, Rows, Unread
<1>3. ASSUME rows \in Memory PROVE Loaded(rows) = rows
  <2>1. \A d \in FileDigests : rows[d] # Foreign /\ rows[d] # Junk
    BY <1>3, FileEnginesAssumption DEF Memory, Unread
  <2>2. Loaded(rows) = [d \in FileDigests |-> rows[d]]
    BY <2>1 DEF Loaded
  <2> QED BY <1>3, <2>2 DEF Memory
<1> QED BY <1>1, <1>2, <1>3

LEMMA RetainedRows ==
  ASSUME NEW rows \in Disk
  PROVE  /\ Retained(rows) \in Disk
         /\ rows \in Memory => Retained(rows) \in Memory
         /\ \A d \in FileDigests : Retained(rows)[d] = rows[d] \/ Retained(rows)[d] = NoRow
         /\ ~Ageing => Retained(rows) = rows
<1>1. \A d \in FileDigests : Retained(rows)[d] = rows[d] \/ Retained(rows)[d] = NoRow
  BY DEF Retained
<1>2. Retained(rows) \in Disk /\ (rows \in Memory => Retained(rows) \in Memory)
  BY DEF Retained, Disk, Memory, Rows, Unread
<1>3. ASSUME ~Ageing PROVE Retained(rows) = rows
  <2>1. Retained(rows) = [d \in FileDigests |-> rows[d]]
    BY <1>3 DEF Retained
  <2> QED BY <2>1 DEF Disk
<1> QED BY <1>1, <1>2, <1>3

LEMMA BrokenRows ==
  ASSUME NEW rows \in Disk, Broken(rows)
  PROVE  \/ UNCHANGED <<disk, torn>>
         \/ /\ torn' = TRUE /\ disk' \in Disk
            /\ rows \in Memory => disk' \in Memory
            /\ \A d \in FileDigests : disk'[d] = rows[d] \/ disk'[d] = NoRow
<1> SUFFICES ASSUME ~UNCHANGED <<disk, torn>>
             PROVE  /\ torn' = TRUE /\ disk' \in Disk
                    /\ rows \in Memory => disk' \in Memory
                    /\ \A d \in FileDigests : disk'[d] = rows[d] \/ disk'[d] = NoRow
  OBVIOUS
<1>1. PICK D \in SUBSET Present(rows) :
        disk' = [d \in FileDigests |-> IF d \in D THEN rows[d] ELSE NoRow]
  BY DEF Broken
<1>2. torn' = TRUE
  BY DEF Broken
<1> QED BY <1>1, <1>2 DEF Disk, Memory, Rows, Unread
-----------------------------------------------------------------------------
(* The cleanup.                                                                *)

FTypeOK ==
    /\ kind \in {"gdbm", "file"} /\ age \in Nat \cup {NoTime}
    /\ clock \in Nat /\ opened \in Nat
    /\ disk \in Disk /\ memory \in Disk /\ before \in Disk
    /\ phase \in {"closed", "cleaning", "open"} /\ keys \subseteq FileDigests
    /\ counted \in [FileDigests -> [FileOps -> Nat]]

\* What the cleanup of gdbm leaves of an entry it has looked at.
Swept(row) == IF row \notin Unread /\ Stale(row, opened) THEN NoRow ELSE row

SweepInv ==
    phase = "cleaning" =>
        /\ kind = "gdbm" /\ Ageing
        /\ \A d \in FileDigests : disk[d] = IF d \in keys THEN before[d] ELSE Swept(before[d])

FileInv == FTypeOK /\ SweepInv

LEMMA FileInit == FInit => FileInv
BY FileEnginesAssumption
   DEF FInit, FileInv, FTypeOK, SweepInv, Disk, Rows, Unread, Uncounted

LEMMA UpdateParts ==
  ASSUME NEW u \in FileUpdates
  PROVE  u.op \in FileOps /\ u.digests \in Seq(FileDigests)
BY FileEnginesAssumption

LEMMA UpdateRows ==
  ASSUME FTypeOK, NEW rows \in Disk, NEW u \in FileUpdates, NEW n \in 0..Len(u.digests)
  PROVE  Bumped(rows, u.op, u.digests)[n] \in Disk
<1>1. clock \in Int /\ u.op \in FileOps /\ u.digests \in Seq(FileDigests)
  BY UpdateParts DEF FTypeOK
<1>2. Bumped(rows, u.op, u.digests) \in [0..Len(u.digests) -> Disk]
  BY <1>1, BumpedDefined
<1> QED BY <1>2

LEMMA CreditType ==
  ASSUME FTypeOK, NEW u \in FileUpdates, Credit(u.op, u.digests)
  PROVE  /\ counted' \in [FileDigests -> [FileOps -> Nat]]
         /\ \A d \in FileDigests, o \in FileOps :
              counted'[d][o] = IF o = u.op
                               THEN counted[d][o] + NamedBy(u.digests, d, Len(u.digests))
                               ELSE counted[d][o]
<1>1. u.op \in FileOps /\ Len(u.digests) \in Nat
  BY UpdateParts
<1>2. \A d : Named(u.digests, d) = NamedBy(u.digests, d, Len(u.digests))
  BY DEF Named, NamedBy
<1>3. \A d : Named(u.digests, d) \in Nat
  BY <1>1, <1>2, NamedNext
<1>4. counted' = [d \in FileDigests |-> [counted[d] EXCEPT ![u.op] = @ + Named(u.digests, d)]]
  BY DEF Credit
<1>5. counted' \in [FileDigests -> [FileOps -> Nat]]
  BY <1>1, <1>3, <1>4 DEF FTypeOK
<1>6. \A d \in FileDigests, o \in FileOps :
        counted'[d][o] = IF o = u.op THEN counted[d][o] + Named(u.digests, d) ELSE counted[d][o]
  BY <1>1, <1>4 DEF FTypeOK
<1> QED BY <1>2, <1>5, <1>6

LEMMA OpenInv ==
  ASSUME FileInv, OpenFile \/ OpenGdbm
  PROVE  FileInv'
<1> USE DEF FileInv, FTypeOK
<1>1. CASE OpenFile
  <2> DEFINE rows == Retained(Loaded(disk))
  <2>1. Loaded(disk) \in Disk /\ rows \in Disk
    <3>1. Loaded(disk) \in Disk
      BY LoadedRows DEF Memory, Disk, Rows, Unread
    <3> QED BY <3>1, RetainedRows
  <2>2. /\ kind = "file" /\ phase = "closed" /\ before' = disk /\ opened' = clock
        /\ UNCHANGED <<kind, age, clock, keys>>
    BY <1>1 DEF OpenFile
  <2>3. \/ /\ disk' = rows \/ disk' = disk
           /\ memory' = rows /\ phase' = "open"
           /\ counted' = [d \in FileDigests |-> IF rows[d] = NoRow THEN Uncounted ELSE counted[d]]
        \/ Broken(rows) /\ UNCHANGED <<memory, phase, counted>>
    BY <1>1 DEF OpenFile, Written
  <2> HIDE DEF rows
  <2>4. disk' \in Disk
    BY <2>1, <2>3, BrokenRows
  <2>5. counted' \in [FileDigests -> [FileOps -> Nat]] /\ memory' \in Disk
    BY <2>1, <2>3 DEF Uncounted
  <2>6. phase' \in {"closed", "open"}
    BY <2>2, <2>3
  <2> QED BY <2>2, <2>4, <2>5, <2>6 DEF SweepInv
<1>2. CASE OpenGdbm
  <2>1. \A d \in FileDigests : d \notin keys' /\ phase' = "cleaning" => disk[d] = NoRow
    BY <1>2 DEF OpenGdbm, Present
  <2>2. SweepInv'
    BY <1>2, <2>1 DEF OpenGdbm, SweepInv, Swept, Unread, Ageing
  <2> QED BY <1>2, <2>2 DEF OpenGdbm, Present
<1> QED BY <1>1, <1>2

LEMMA CleanInv ==
  ASSUME FileInv, NEW e \in FileDigests, CleanKey(e)
  PROVE  FileInv'
<1> USE DEF FileInv, FTypeOK
<1>1. /\ e \in keys /\ phase = "cleaning" /\ keys' = keys \ {e}
      /\ disk[e] = before[e]
      /\ UNCHANGED <<kind, age, clock, opened, memory, before>>
  BY DEF CleanKey, SweepInv
<1>2. \/ disk' = disk /\ counted' = counted /\ Swept(disk[e]) = disk[e]
      \/ /\ disk' = [disk EXCEPT ![e] = NoRow] /\ counted' = [counted EXCEPT ![e] = Uncounted]
         /\ Swept(disk[e]) = NoRow
  BY DEF CleanKey, Swept
<1>3. /\ disk'[e] = Swept(before[e])
      /\ \A d \in FileDigests \ {e} : disk'[d] = disk[d]
  BY <1>1, <1>2 DEF Disk
<1>4. disk' \in Disk /\ counted' \in [FileDigests -> [FileOps -> Nat]]
  <2>1. NoRow \in Rows /\ Uncounted \in [FileOps -> Nat]
    BY DEF Rows, Unread, Uncounted
  <2> QED BY <1>2, <2>1 DEF Disk
<1>5. phase' \in {"closed", "cleaning"}
  BY <1>1 DEF CleanKey
<1>6. SweepInv'
  BY <1>1, <1>3 DEF SweepInv, Swept, Stale, Ageing
<1> QED BY <1>1, <1>4, <1>5, <1>6

LEMMA UpdateInv ==
  ASSUME FileInv, NEW u \in FileUpdates, UpdateFile(u) \/ UpdateGdbm(u)
  PROVE  FileInv'
<1> USE DEF FileInv
<1>1. Len(u.digests) \in Nat
  BY UpdateParts
<1>2. CASE UpdateFile(u)
  <2> DEFINE rows == Bumped(memory, u.op, u.digests)[Len(u.digests)]
  <2>1. rows \in Disk
    BY <1>1, UpdateRows DEF FTypeOK
  <2>2. /\ memory' = rows /\ UNCHANGED <<kind, age, clock, opened, phase, keys, before>>
        /\ phase = "open"
        /\ \/ disk' = rows /\ Credit(u.op, u.digests)
           \/ Broken(rows) /\ UNCHANGED counted
    BY <1>2 DEF UpdateFile, Serve, Written, Broken
  <2> HIDE DEF rows
  <2>3. disk' \in Disk
    BY <2>1, <2>2, BrokenRows DEF FTypeOK
  <2>4. counted' \in [FileDigests -> [FileOps -> Nat]]
    BY <2>2, CreditType DEF FTypeOK
  <2> QED BY <2>1, <2>2, <2>3, <2>4 DEF FTypeOK, SweepInv
<1>3. CASE UpdateGdbm(u)
  <2>1. PICK n \in 0..Len(u.digests) :
          /\ disk' = Bumped(disk, u.op, u.digests)[n]
          /\ IF n = Len(u.digests) THEN Credit(u.op, u.digests) ELSE UNCHANGED counted
    BY <1>3 DEF UpdateGdbm
  <2>2. /\ phase = "open" /\ UNCHANGED <<kind, age, clock, opened, memory, phase, keys, before>>
    BY <1>3 DEF UpdateGdbm, Serve
  <2>3. disk' \in Disk
    BY <2>1, UpdateRows DEF FTypeOK
  <2>4. counted' \in [FileDigests -> [FileOps -> Nat]]
    BY <2>1, CreditType DEF FTypeOK
  <2> QED BY <2>2, <2>3, <2>4 DEF FTypeOK, SweepInv
<1> QED BY <1>2, <1>3

LEMMA FileStep == FileInv /\ [FNext]_fvars => FileInv'
<1> SUFFICES ASSUME FileInv, [FNext]_fvars PROVE FileInv'
  OBVIOUS
<1>1. CASE Cleaned \/ FTick \/ UNCHANGED fvars
  BY <1>1 DEF Cleaned, FTick, fvars, FileInv, FTypeOK, SweepInv, Swept, Stale, Ageing
<1>2. CASE Leave
  BY <1>2 DEF Leave, FileInv, FTypeOK, SweepInv, Disk, Rows, Unread
<1> QED BY <1>1, <1>2, OpenInv, CleanInv, UpdateInv DEF FNext

\* A database that has been opened shows the records of the file whose last
\* report is not too old: the cleanup of gdbm, key by key, removes no other and
\* leaves none of those.
THEOREM CleanupSafe == FSpec => CleanupExact
<1>1. FileInv /\ [FNext]_fvars =>
        [phase # "open" /\ phase' = "open" =>
           \/ kind = "file" /\ \E d \in FileDigests : before'[d] = Foreign
           \/ \A d \in FileDigests :
                Visible(d)' = IF before'[d] \in Unread THEN Blank
                              ELSE IF Ageing /\ before'[d].r_updated # NoTime
                                             /\ opened' - before'[d].r_updated > age
                                   THEN Blank ELSE before'[d]]_fvars
  <2> SUFFICES ASSUME FileInv, FNext, phase # "open", phase' = "open",
                      ~(kind = "file" /\ \E d \in FileDigests : before'[d] = Foreign),
                      NEW d \in FileDigests
               PROVE  Visible(d)' = IF before'[d] \in Unread THEN Blank
                                    ELSE IF Ageing /\ before'[d].r_updated # NoTime
                                                   /\ opened' - before'[d].r_updated > age
                                         THEN Blank ELSE before'[d]
    BY DEF fvars
  <2> USE DEF FileInv, FTypeOK
  <2>1. OpenFile \/ OpenGdbm \/ Cleaned
    BY DEF FNext, Leave, FTick, CleanKey, UpdateFile, UpdateGdbm, Serve
  <2>2. before'[d] \in Record \cup Unread /\ before' \in Disk
    BY FileStep DEF Disk, Rows
  <2>3. ASSUME before'[d] \notin Unread, Ageing
        PROVE  Stale(before'[d], opened') <=> before'[d].r_updated # NoTime
                                               /\ opened' - before'[d].r_updated > age
    <3>1. before'[d].r_updated \in Int \cup {NoTime} /\ age \in Nat /\ opened' \in Nat
      BY <2>2, <2>3, FileStep DEF Record, Times, Ageing
    <3> QED BY <3>1 DEF Stale
  <2>4. CASE OpenFile
    <3>1. /\ kind' = "file" /\ before' = disk /\ opened' = clock
          /\ memory' = Retained(Loaded(disk))
      BY <2>4 DEF OpenFile
    <3>2. Loaded(disk) = [e \in FileDigests |-> IF disk[e] = Junk THEN NoRow ELSE disk[e]]
      BY <2>4, <3>1 DEF OpenFile, Loaded
    <3>3. disk[d] # Foreign
      BY <2>4, <3>1 DEF OpenFile
    <3>4. memory'[d] = IF disk[d] \in Unread THEN NoRow
                       ELSE IF Ageing /\ Stale(disk[d], clock) THEN NoRow ELSE disk[d]
      BY <3>1, <3>2, <3>3 DEF Retained, Unread
    <3> QED BY <2>3, <3>1, <3>4 DEF Visible, Unread
  <2>5. CASE OpenGdbm
    <3>1. kind' = "gdbm" /\ before' = disk /\ disk' = disk /\ ~Ageing
      BY <2>5 DEF OpenGdbm
    <3> QED BY <3>1 DEF Visible
  <2>6. CASE Cleaned
    <3>1. /\ kind' = "gdbm" /\ before' = before /\ disk' = disk /\ opened' = opened
          /\ disk[d] = Swept(before[d]) /\ Ageing
      BY <2>6 DEF Cleaned, SweepInv
    <3> QED BY <2>3, <3>1 DEF Visible, Swept, Unread
  <2> QED BY <2>1, <2>4, <2>5, <2>6
<1> QED BY <1>1, FileInit, FileStep, PTL DEF FSpec, CleanupExact
-----------------------------------------------------------------------------
(* What was acknowledged.                                                      *)

Shown == IF kind = "file" THEN Loaded(disk) ELSE disk

\* The rows have counted every update that was answered ok.
CountsAll(rows, count) == \A d \in FileDigests : \A o \in FileOps : Covers(rows[d], o, count[d][o])

AckInv ==
    /\ Unsigned(disk) /\ Unsigned(memory) /\ memory \in Memory
    /\ ~torn => CountsAll(Shown, counted)
    /\ ~torn /\ kind = "file" /\ phase = "open" => CountsAll(memory, counted)

\* No counter in the file is negative at first.  (The server may cache a negative
\* one from upstream: a report then brings it to 0, which does not count it.)
FirstUnsigned == \A rows \in FirstDisks : Unsigned(rows)

LEMMA FewerRows ==
  ASSUME NEW rows, NEW fewer, Unsigned(rows),
         \A d \in FileDigests : fewer[d] = rows[d] \/ fewer[d] = NoRow
  PROVE  Unsigned(fewer)
BY DEF Unsigned, Unread

LEMMA AckInit == FirstUnsigned /\ FInit => AckInv
<1> SUFFICES ASSUME FirstUnsigned, FInit PROVE AckInv
  OBVIOUS
<1>1. Unsigned(disk)
  BY DEF FirstUnsigned, FInit
<1>2. memory \in Memory /\ Unsigned(memory)
  BY DEF FInit, Memory, Unsigned, Unread
<1>3. \A d \in FileDigests, o \in FileOps : counted[d][o] = 0
  BY DEF FInit, Uncounted
<1>4. \A rows : CountsAll(rows, counted)
  BY <1>3 DEF CountsAll, Covers
<1> QED BY <1>1, <1>2, <1>4, Zenon DEF AckInv

\* An update in the middle, or one whose write broke off, has lost no count.
LEMMA UpdateCounts ==
  ASSUME FTypeOK, NEW u \in FileUpdates, NEW rows \in Disk, Unsigned(rows),
         NEW n \in 0..Len(u.digests)
  PROVE  LET new == Bumped(rows, u.op, u.digests)[n] IN
         /\ Unsigned(new) /\ (rows \in Memory => new \in Memory)
         /\ CountsAll(rows, counted) => CountsAll(new, counted)
         /\ CountsAll(rows, counted) /\ n = Len(u.digests) /\ Credit(u.op, u.digests)
              => CountsAll(new, counted')
<1> DEFINE new == Bumped(rows, u.op, u.digests)[n]
<1>0. /\ clock \in Int /\ u.op \in FileOps /\ u.digests \in Seq(FileDigests) /\ n \in Nat
      /\ \A d \in FileDigests, o \in FileOps : counted[d][o] \in Nat
  BY UpdateParts DEF FTypeOK
<1>1. /\ Unsigned(new) /\ (rows \in Memory => new \in Memory)
      /\ \A d \in FileDigests : \A o \in FileOps : \A c \in Nat :
           Covers(rows[d], o, c)
             => Covers(new[d], o, IF o = u.op THEN c + NamedBy(u.digests, d, n) ELSE c)
  BY <1>0, AfterCovers
<1> HIDE DEF new
<1>2. ASSUME CountsAll(rows, counted), NEW d \in FileDigests, NEW o \in FileOps
      PROVE  Covers(new[d], o, IF o = u.op THEN counted[d][o] + NamedBy(u.digests, d, n)
                               ELSE counted[d][o])
  BY <1>0, <1>1, <1>2 DEF CountsAll
<1>3. ASSUME CountsAll(rows, counted) PROVE CountsAll(new, counted)
  <2> SUFFICES ASSUME NEW d \in FileDigests, NEW o \in FileOps
               PROVE  Covers(new[d], o, counted[d][o])
    BY DEF CountsAll
  <2>1. NamedBy(u.digests, d, n) \in Nat
    BY <1>0, NamedNext
  <2>2. Covers(new[d], o, IF o = u.op THEN counted[d][o] + NamedBy(u.digests, d, n)
                          ELSE counted[d][o])
    BY <1>2, <1>3
  <2>3. CountOf(new[d], o) \in Int \/ new[d] \in Unread
    <3>1. new \in Disk
      BY UpdateRows DEF new
    <3> QED BY <3>1 DEF Disk, Rows, Record, Counts, CountOf
  <2> QED BY <1>0, <2>1, <2>2, <2>3 DEF Covers
<1>4. ASSUME CountsAll(rows, counted), n = Len(u.digests), Credit(u.op, u.digests)
      PROVE  CountsAll(new, counted')
  <2>1. \A d \in FileDigests, o \in FileOps :
          counted'[d][o] = IF o = u.op THEN counted[d][o] + NamedBy(u.digests, d, n)
                           ELSE counted[d][o]
    BY <1>4, CreditType
  <2> QED BY <1>2, <1>4, <2>1 DEF CountsAll
<1> QED BY <1>1, <1>3, <1>4 DEF new

LEMMA AckOpen ==
  ASSUME FileInv, AckInv, OpenFile
  PROVE  AckInv'
<1> USE DEF FileInv, FTypeOK
<1> DEFINE loaded == Loaded(disk)  rows == Retained(loaded)
<1>1. /\ loaded \in Memory /\ loaded \in Disk
      /\ \A d \in FileDigests : loaded[d] = disk[d] \/ loaded[d] = NoRow
  <2>1. Memory \subseteq Disk
    BY DEF Memory, Disk, Rows, Unread
  <2> QED BY <2>1, LoadedRows
<1>2. /\ rows \in Memory /\ rows \in Disk
      /\ \A d \in FileDigests : rows[d] = loaded[d] \/ rows[d] = NoRow
      /\ ~Ageing => rows = loaded
  BY <1>1, RetainedRows
<1>3. /\ kind = "file" /\ kind' = "file" /\ phase = "closed"
      /\ \/ /\ IF Ageing THEN disk' = rows /\ UNCHANGED torn ELSE UNCHANGED <<disk, torn>>
            /\ memory' = rows
            /\ counted' = [d \in FileDigests |-> IF rows[d] = NoRow THEN Uncounted ELSE counted[d]]
         \/ Broken(rows) /\ UNCHANGED <<memory, phase, counted>>
  BY DEF OpenFile, Written
<1>4. Loaded(rows) = rows
  BY <1>2, LoadedRows
<1>5. Unsigned(loaded) /\ Unsigned(rows)
  <2>1. Unsigned(loaded)
    BY <1>1, FewerRows DEF AckInv
  <2> QED BY <1>2, <2>1, FewerRows
<1>6. ~torn => CountsAll(loaded, counted)
  BY <1>3 DEF AckInv, Shown
<1>7. Shown' = Loaded(disk') /\ Shown = loaded
  BY <1>3 DEF Shown, Loaded
<1> HIDE DEF loaded
<1>8. Loaded(disk) = loaded
  BY DEF loaded
<1> HIDE DEF rows
<1>9. CASE /\ IF Ageing THEN disk' = rows /\ UNCHANGED torn ELSE UNCHANGED <<disk, torn>>
           /\ memory' = rows
           /\ counted' = [d \in FileDigests |-> IF rows[d] = NoRow THEN Uncounted ELSE counted[d]]
  <2>1. disk' \in {rows, disk} /\ Shown' = rows /\ torn' = torn
    <3>1. CASE Ageing
      BY <1>4, <1>7, <1>9, <3>1
    <3>2. CASE ~Ageing
      BY <1>2, <1>7, <1>8, <1>9, <3>2
    <3> QED BY <3>1, <3>2
  <2>2. ~torn => CountsAll(rows, counted')
    <3> SUFFICES ASSUME ~torn, NEW d \in FileDigests, NEW o \in FileOps
                 PROVE  Covers(rows[d], o, counted'[d][o])
      BY DEF CountsAll
    <3>1. CASE rows[d] = NoRow
      BY <1>9, <3>1 DEF Uncounted, Covers
    <3>2. CASE rows[d] # NoRow
      <4>1. rows[d] = loaded[d] /\ counted'[d] = counted[d]
        BY <1>2, <1>9, <3>2
      <4> QED BY <1>6, <4>1 DEF CountsAll
    <3> QED BY <3>1, <3>2
  <2>3. Unsigned(disk') /\ Unsigned(memory') /\ memory' \in Memory
    BY <1>2, <1>5, <1>9, <2>1 DEF AckInv
  <2> QED BY <1>9, <2>1, <2>2, <2>3 DEF AckInv, Unsigned
<1>10. CASE Broken(rows) /\ UNCHANGED <<memory, phase, counted>>
  <2>1. CASE UNCHANGED <<disk, torn>>
    BY <1>3, <1>7, <1>8, <1>10, <2>1 DEF AckInv, Unsigned
  <2>2. CASE torn' = TRUE /\ \A d \in FileDigests : disk'[d] = rows[d] \/ disk'[d] = NoRow
    <3>1. Unsigned(disk')
      BY <1>5, <2>2, FewerRows
    <3> QED BY <1>10, <2>2, <3>1 DEF AckInv, Unsigned
  <2> QED BY <1>2, <1>10, <2>1, <2>2, BrokenRows
<1> QED BY <1>3, <1>9, <1>10

LEMMA AckClean ==
  ASSUME FileInv, AckInv, NEW e \in FileDigests, CleanKey(e)
  PROVE  AckInv'
<1> USE DEF FileInv, FTypeOK
<1>1. kind = "gdbm" /\ kind' = "gdbm" /\ UNCHANGED <<memory, torn>>
  BY DEF CleanKey, SweepInv
<1>2. \/ disk' = disk /\ counted' = counted
      \/ disk' = [disk EXCEPT ![e] = NoRow] /\ counted' = [counted EXCEPT ![e] = Uncounted]
  BY DEF CleanKey
<1>3. \A d \in FileDigests : disk'[d] = disk[d] \/ disk'[d] = NoRow
  BY <1>2 DEF Disk
<1>4. Unsigned(disk')
  BY <1>3, FewerRows DEF AckInv
<1>5. ~torn => CountsAll(disk', counted')
  <2> SUFFICES ASSUME ~torn, NEW d \in FileDigests, NEW o \in FileOps
               PROVE  Covers(disk'[d], o, counted'[d][o])
    BY DEF CountsAll
  <2>1. Covers(disk[d], o, counted[d][o])
    BY <1>1 DEF AckInv, Shown, CountsAll
  <2>2. \/ disk'[d] = disk[d] /\ counted'[d] = counted[d]
        \/ counted'[d] = Uncounted
    BY <1>2 DEF Disk
  <2> QED BY <2>1, <2>2 DEF Covers, Uncounted
<1> QED BY <1>1, <1>4, <1>5 DEF AckInv, Shown, Unsigned

LEMMA AckUpdate ==
  ASSUME FileInv, AckInv, NEW u \in FileUpdates, UpdateFile(u) \/ UpdateGdbm(u)
  PROVE  AckInv'
<1> USE DEF FileInv
<1>0. /\ Len(u.digests) \in Nat /\ disk \in Disk /\ memory \in Disk
      /\ Unsigned(disk) /\ Unsigned(memory) /\ memory \in Memory
  BY UpdateParts DEF FTypeOK, AckInv
<1>1. CASE UpdateFile(u)
  <2> DEFINE rows == Bumped(memory, u.op, u.digests)[Len(u.digests)]
  <2>1. /\ kind = "file" /\ kind' = "file" /\ phase = "open" /\ phase' = "open"
        /\ memory' = rows
        /\ \/ disk' = rows /\ UNCHANGED torn /\ Credit(u.op, u.digests)
           \/ Broken(rows) /\ UNCHANGED counted
    BY <1>1 DEF UpdateFile, Serve, Written, Broken
  <2>2. /\ Unsigned(rows) /\ rows \in Memory
        /\ CountsAll(memory, counted) => CountsAll(rows, counted)
        /\ CountsAll(memory, counted) /\ Credit(u.op, u.digests) => CountsAll(rows, counted')
    BY <1>0, UpdateCounts
  <2>3. rows \in Disk
    BY <1>0, UpdateRows
  <2> HIDE DEF rows
  <2>4. Loaded(rows) = rows
    BY <2>2, <2>3, LoadedRows
  <2>5. ~torn => CountsAll(memory, counted) /\ CountsAll(Loaded(disk), counted)
    BY <2>1 DEF AckInv, Shown
  <2>6. Shown' = Loaded(disk')
    BY <2>1 DEF Shown, Loaded
  <2>7. CASE disk' = rows /\ UNCHANGED torn /\ Credit(u.op, u.digests)
    <3>1. Shown' = rows
      BY <2>4, <2>6, <2>7
    <3> QED BY <2>1, <2>2, <2>5, <2>7, <3>1 DEF AckInv, Unsigned
  <2>8. CASE Broken(rows) /\ UNCHANGED counted
    <3>1. CASE UNCHANGED <<disk, torn>>
      BY <1>0, <2>1, <2>2, <2>5, <2>6, <2>8, <3>1 DEF AckInv, Unsigned
    <3>2. CASE torn' = TRUE /\ \A d \in FileDigests : disk'[d] = rows[d] \/ disk'[d] = NoRow
      <4>1. Unsigned(disk')
        BY <2>2, <3>2, FewerRows
      <4> QED BY <2>1, <2>2, <3>2, <4>1 DEF AckInv, Unsigned
    <3> QED BY <2>3, <2>8, <3>1, <3>2, BrokenRows
  <2> QED BY <2>1, <2>7, <2>8
<1>2. CASE UpdateGdbm(u)
  <2>1. PICK n \in 0..Len(u.digests) :
          /\ disk' = Bumped(disk, u.op, u.digests)[n]
          /\ IF n = Len(u.digests) THEN Credit(u.op, u.digests) ELSE UNCHANGED counted
    BY <1>2 DEF UpdateGdbm
  <2> DEFINE rows == Bumped(disk, u.op, u.digests)[n]
  <2>2. kind = "gdbm" /\ kind' = "gdbm" /\ UNCHANGED <<memory, torn>>
    BY <1>2 DEF UpdateGdbm
  <2>3. /\ Unsigned(rows)
        /\ CountsAll(disk, counted) => CountsAll(rows, counted)
        /\ CountsAll(disk, counted) /\ n = Len(u.digests) /\ Credit(u.op, u.digests)
             => CountsAll(rows, counted')
    BY <1>0, UpdateCounts
  <2>4. disk' = rows
    BY <2>1
  <2> HIDE DEF rows
  <2>5. ~torn => CountsAll(disk', counted')
    BY <2>1, <2>2, <2>3, <2>4 DEF AckInv, Shown
  <2> QED BY <1>0, <2>2, <2>3, <2>4, <2>5 DEF AckInv, Shown, Unsigned
<1> QED BY <1>1, <1>2

LEMMA AckStep == FileInv /\ AckInv /\ [FNext]_fvars => AckInv'
<1> SUFFICES ASSUME FileInv, AckInv, [FNext]_fvars PROVE AckInv'
  OBVIOUS
<1>1. CASE OpenGdbm \/ Cleaned \/ FTick \/ UNCHANGED fvars
  <2>1. /\ UNCHANGED <<kind, disk, memory, torn, counted>>
        /\ kind = "file" => phase' = phase
    BY <1>1 DEF OpenGdbm, Cleaned, FTick, fvars, FileInv, SweepInv
  <2>2. Shown' = Shown
    BY <2>1 DEF Shown, Loaded
  <2> QED BY <2>1, <2>2 DEF AckInv, Unsigned
<1>2. CASE Leave
  <2>1. /\ UNCHANGED <<kind, disk, torn, counted>> /\ phase' = "closed"
        /\ memory' = [d \in FileDigests |-> NoRow]
    BY <1>2 DEF Leave
  <2>2. Shown' = Shown
    BY <2>1 DEF Shown, Loaded
  <2>3. memory' \in Memory /\ Unsigned(memory')
    BY <2>1 DEF Memory, Unsigned, Unread
  <2> QED BY <2>1, <2>2, <2>3 DEF AckInv, Unsigned
<1> QED BY <1>1, <1>2, AckOpen, AckClean, AckUpdate DEF FNext

\* What was answered ok is in the file: both engines write before they answer,
\* a gdbm entry at a time or the whole file, and a run that starts later reads it.
THEOREM SurvivalSafe == FirstUnsigned => (FSpec => []AcknowledgedSurvives)
<1> SUFFICES ASSUME FirstUnsigned PROVE FSpec => []AcknowledgedSurvives
  OBVIOUS
<1>1. AckInv => AcknowledgedSurvives
  BY DEF AckInv, Shown, CountsAll, Covers, AcknowledgedSurvives
<1> QED BY <1>1, FileInit, FileStep, AckInit, AckStep, PTL DEF FSpec
=============================================================================
