------------------------------- MODULE Replies -------------------------------
(* Records as they come back from their engines: through the replies of the    *)
(* Redis protocol (src/src/redis_engine.rs) or the statements of MySQL          *)
(* (mysql_cli.rs, mysql_native.rs).                                            *)
EXTENDS Codecs

CONSTANTS
    NoInteger,  \* a text that is no integer
    Orders      \* the orders in which the fields of a hash may come back

(***************************************************************************)
(* The Redis protocol: lines, and the bytes that a length announces         *)
(***************************************************************************)
Line(prefix, n) == [token |-> "line", prefix |-> prefix, n |-> n]
Bytes(payload) == [token |-> "bytes", payload |-> payload, crlf |-> TRUE]
Bulks(payloads) ==
    FlattenSeq([i \in DOMAIN payloads |-> <<Line("$", 1), Bytes(payloads[i])>>])

\* write_command; a reply to HGETALL looks the same.
WriteCommand(args) == <<Line("*", Len(args))>> \o Bulks(args)

Broken == [kind |-> "broken"]   \* an io::Error
Resp(kind, payload, next) == [kind |-> kind, payload |-> payload, next |-> next]

\* The values that begin at each place of the stream: n of them from a place on,
\* and the one at a place; next is the place after it.
ReadArray(reads, n, from) ==
    LET array[k \in 0..n] ==
            IF k = 0 THEN Resp("array", << >>, from)
            ELSE LET before == array[k - 1]
                     value == IF before = Broken THEN Broken ELSE reads[before.next]
                 IN IF value = Broken THEN Broken
                    ELSE Resp("array", Append(before.payload, value), value.next)
    IN array[n]
ReadAt(stream, reads, i) ==
    IF i > Len(stream) \/ stream[i].token # "line" THEN Broken
    ELSE LET line == stream[i]
         IN IF line.prefix = "+" THEN Resp("simple", << >>, i + 1)
            ELSE IF line.prefix = "-" THEN Resp("error", << >>, i + 1)
            ELSE IF line.n = NoInteger \/ line.prefix \notin {":", "*", "$"} THEN Broken
            ELSE IF line.prefix = ":" THEN Resp("integer", << >>, i + 1)
            ELSE IF line.n = -1 THEN Resp("nil", line.prefix, i + 1)
            ELSE IF line.n < 0 THEN Broken
            ELSE IF line.prefix = "*" THEN ReadArray(reads, line.n, i + 1)
            ELSE IF i = Len(stream) \/ stream[i + 1].token # "bytes" \/ ~stream[i + 1].crlf THEN Broken
            ELSE Resp("bulk", stream[i + 1].payload, i + 2)
ReadResp(stream) ==
    LET reads[i \in 1..(Len(stream) + 1)] == ReadAt(stream, reads, i) IN reads[1]

\* decode_hgetall: pairs of bulk strings, of which the last of a field counts.
DecodeHgetall(reply) ==
    IF reply.kind = "nil" /\ reply.payload = "*" THEN {<< >>}
    ELSE IF \/ reply.kind # "array"
            \/ Len(reply.payload) % 2 # 0
            \/ \E i \in DOMAIN reply.payload : reply.payload[i].kind # "bulk" THEN {}
    ELSE LET v == [i \in DOMAIN reply.payload |-> reply.payload[i].payload]
             names == {i \in DOMAIN v : i % 2 = 1}
         IN {[name \in {v[i] : i \in names} |-> v[Max({i \in names : v[i] = name}) + 1]]}

(***************************************************************************)
(* There and back                                                          *)
(***************************************************************************)
InSomeOrder(fields, names) ==
    /\ fields \in Seq(names)
    /\ \A name \in names : \E i \in DOMAIN fields : \A j \in DOMAIN fields : fields[j] = name <=> j = i
ASSUME RepliesAssumption ==
    /\ NoInteger \notin Int
    /\ Orders # {} /\ \A fields \in Orders : InSomeOrder(fields, {Columns[i] : i \in DOMAIN Columns})

\* The hash as its fields come in this order.
HashReply(hash, fields) ==
    WriteCommand(FlattenSeq([i \in DOMAIN fields |-> <<fields[i], hash[fields[i]]>>]))

\* The records that reading what was stored for rec may give.
Copies(codec, rec) ==
    CASE codec = "gdbm" -> DecodeRecord(EncodeRecord(rec))
      [] codec = "redis_v0" -> RedisV0Decode(RedisV0Encode(rec))
      [] codec = "redis" ->
           UNION {UNION {RedisV1Decode(hash) :
                           hash \in DecodeHgetall(ReadResp(HashReply(RedisV1Encode(rec), fields)))} :
                    fields \in Orders}
      [] codec = "mysql" ->
           LET bound == BindStatement(SetRecord, SetValues(Word("digest"), rec))
           IN UNION {ParseRow(Upserted(bound, clause)) : clause \in {"insert", "update"}}
=============================================================================
