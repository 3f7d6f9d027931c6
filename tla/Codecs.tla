------------------------------- MODULE Codecs --------------------------------
(* How a record is written and read again by each engine: the line of gdbm and *)
(* FileDatabase, the hash and the string of Redis (src/src/engines.rs,         *)
(* redis_engine.rs), the row of MySQL (mysql_cli.rs, mysql_native.rs), and the *)
(* times of a record as civil times of the local zone (local_time.rs).         *)
(* A text is a value tagged by its form.  mktime may read a civil time that    *)
(* occurs twice either way, so decoding yields a set of records.               *)
EXTENDS Records, CivilTimes, Texts, SequencesExt

\* A word is "None", "NULL", "", or what is none of these.
DateTime(t) == [form |-> "datetime", at |-> FormatTimestamp(t)]

\* decode_time; a fraction of a second is dropped.
DecodeTime(text) ==
    CASE text.form = "number" -> {IF text.n = 0 THEN NoTime ELSE text.n}
      [] text.form = "datetime" -> ParseDatetime(text.at)
      [] OTHER -> {NoTime}
IsCount(text) == text.form = "number" /\ text.n <= MaxCount

\* All records with these counters and one of the decoded values for each time.
RecordsOf(r, re, ru, wl, we, wu) ==
    [r_count : {r}, wl_count : {wl}, r_entered : re, r_updated : ru, wl_entered : we, wl_updated : wu]

EncodeTime(t, none) == IF t = NoTime THEN Word(none) ELSE DateTime(t)

\* encode_record: <<"1", ...>>; redis_v0_encode_record has no version.
EncodeFields(rec, none) ==
    <<Number(rec.r_count), EncodeTime(rec.r_entered, none), EncodeTime(rec.r_updated, none),
      Number(rec.wl_count), EncodeTime(rec.wl_entered, none), EncodeTime(rec.wl_updated, none)>>
EncodeRecord(rec) == <<Number(1)>> \o EncodeFields(rec, "None")
RedisV0Encode(rec) == EncodeFields(rec, "")

DecodeSix(f) ==
    IF ~IsCount(f[1]) \/ ~IsCount(f[4]) THEN {}
    ELSE RecordsOf(f[1].n, DecodeTime(f[2]), DecodeTime(f[3]),
                   f[4].n, DecodeTime(f[5]), DecodeTime(f[6]))

\* The empty set is a value that does not decode.
DecodeRecord(f) ==
    CASE Len(f) = 3 -> IF ~IsCount(f[1]) THEN {}
                       ELSE RecordsOf(f[1].n, DecodeTime(f[2]), DecodeTime(f[3]), 0, {NoTime}, {NoTime})
      [] Len(f) = 7 /\ f[1] = Number(1) -> DecodeSix(Tail(f))
      [] OTHER -> {}
RedisV0Decode(f) == IF Len(f) = 6 THEN DecodeSix(f) ELSE {}

\* redis_v1_encode_record: six fields, in any order once they are in a hash.
RedisV1Encode(rec) ==
    LET time(t) == IF t = NoTime THEN Number(0) ELSE Number(t)
    IN [r_count |-> Number(rec.r_count), wl_count |-> Number(rec.wl_count),
        r_entered |-> time(rec.r_entered), r_updated |-> time(rec.r_updated),
        wl_entered |-> time(rec.wl_entered), wl_updated |-> time(rec.wl_updated)]

RedisV1Decode(hash) ==
    LET has(name) == name \in DOMAIN hash
        count(name) == IF has(name) /\ IsCount(hash[name]) THEN hash[name].n ELSE 0
        time(name) == IF has(name) THEN DecodeTime(hash[name]) ELSE {NoTime}
    IN RecordsOf(count("r_count"), time("r_entered"), time("r_updated"),
                 count("wl_count"), time("wl_entered"), time("wl_updated"))

Columns == <<"r_count", "wl_count", "r_entered", "r_updated", "wl_entered", "wl_updated">>
MySqlText(column, rec) ==
    IF column \in {"r_count", "wl_count"} THEN Number(rec[column])
    ELSE EncodeTime(rec[column], "NULL")
Row(rec) == [i \in DOMAIN Columns |-> MySqlText(Columns[i], rec)]
\* The thirteen values of execute_set_record: to insert, and to update with.
SetValues(digest, rec) ==
    <<digest>> \o Row(rec) \o Row(rec)
SetRecord == <<"insert digest", "?">>
    \o FlattenSeq([i \in DOMAIN Columns |-> <<"insert", Columns[i], "?">>])
    \o FlattenSeq([i \in DOMAIN Columns |-> <<"update", Columns[i], "?">>])

Null(text) == text.form = "word" /\ text.word \in {"NULL", ""}
NullableTime(text) == IF Null(text) THEN {NoTime} ELSE ParseDatetime(text.at)
ParseRow(row) ==
    IF \/ Len(row) # 6
       \/ \E i \in {1, 2} : ~Null(row[i]) /\ ~IsCount(row[i])
       \/ \E i \in 3..6 : ~Null(row[i]) /\ row[i].form # "datetime"
    THEN {}
    ELSE LET count(text) == IF Null(text) THEN 0 ELSE text.n
         IN RecordsOf(count(row[1]), NullableTime(row[3]), NullableTime(row[4]),
                      count(row[2]), NullableTime(row[5]), NullableTime(row[6]))

\* bind_statement: every question mark takes the next value, and all are taken;
\* the statement is given as it is split at the marks.
BindStatement(statement, values) ==
    LET marks == {i \in DOMAIN statement : statement[i] = "?"}
        before(i) == Cardinality({k \in marks : k < i})
    IN IF Cardinality(marks) # Len(values) THEN << >>
       ELSE [i \in DOMAIN statement |->
               IF i \in marks THEN values[before(i) + 1] ELSE Word(statement[i])]
\* What the database makes of it: the row of a new digest, or of a known one.
Upserted(bound, clause) ==
    [i \in DOMAIN Columns |->
       bound[(CHOOSE k \in 1..(Len(bound) - 2) :
                bound[k] = Word(clause) /\ bound[k + 1] = Word(Columns[i])) + 2]]

(***************************************************************************)
(* The same record                                                         *)
(***************************************************************************)
\* Redis has no None: the time 0 is read as none.
Epoch(codec, t) == IF codec = "redis" /\ t = 0 THEN NoTime ELSE t
SameTime(codec, t, copied) ==
    LET kept == Epoch(codec, t)
    IN \/ copied = kept
       \/ codec # "redis" /\ NoTime \notin {kept, copied} /\ Reading(copied) = Reading(kept)
SameRecord(codec, rec, copy) ==
    /\ copy.r_count = rec.r_count /\ copy.wl_count = rec.wl_count
    /\ \A field \in {"r_entered", "r_updated", "wl_entered", "wl_updated"} :
         SameTime(codec, rec[field], copy[field])
=============================================================================
