------------------------------- MODULE Records -------------------------------
(* The record a digest has in the database (engines.rs, struct Record) and    *)
(* the pure operations on it: the two increments with their saturation and    *)
(* the record the server builds from an upstream answer (server.rs).          *)
(* Counters are i64 in the code, signed, capped by isize::MAX: MaxCount       *)
(* stands for isize::MAX.  A time is a number of seconds or NoTime (None).    *)
EXTENDS Integers

CONSTANTS
    MaxCount,   \* isize::MAX as i64, the value a counter saturates at
    NoTime      \* None in an Option<i64> time

ASSUME RecordsAssumption ==
    /\ MaxCount \in Nat \ {0}
    /\ NoTime \notin Int

Times == Int \cup {NoTime}
Counts == {c \in Int : c <= MaxCount}

Record == [r_count : Counts, wl_count : Counts,
           r_entered : Times, r_updated : Times,
           wl_entered : Times, wl_updated : Times]

\* Record::default(), what every engine returns for an unknown digest.
Blank == [r_count |-> 0, wl_count |-> 0,
          r_entered |-> NoTime, r_updated |-> NoTime,
          wl_entered |-> NoTime, wl_updated |-> NoTime]

\* Mutant: saturates one too late.
BumpPastMax(count) == IF count <= MaxCount THEN count + 1 ELSE count
Bump(count) == IF count < MaxCount THEN count + 1 ELSE count

FirstTime(old, now) == IF old = NoTime THEN now ELSE old

RIncrement(rec, now) ==
    [rec EXCEPT !.r_count = Bump(@),
                !.r_entered = FirstTime(@, now),
                !.r_updated = now]

WlIncrement(rec, now) ==
    [rec EXCEPT !.wl_count = Bump(@),
                !.wl_entered = FirstTime(@, now),
                !.wl_updated = now]

HasMatch(c) == c.r_count > 0 \/ c.wl_count > 0

\* proxy_time_or_now: the header of the answer if it is a positive number.
ProxyTime(header, count, now) ==
    IF header # NoTime /\ header > 0 THEN header
    ELSE IF count > 0 THEN now ELSE NoTime

\* The answer of an upstream server has a header for each field of a record, read
\* as 0 if a count, and as NoTime if a time, is absent or not a number.
ProxyRecord(answer, now) ==
    [r_count |-> answer.r_count, wl_count |-> answer.wl_count,
     r_entered |-> ProxyTime(answer.r_entered, answer.r_count, now),
     r_updated |-> ProxyTime(answer.r_updated, answer.r_count, now),
     wl_entered |-> ProxyTime(answer.wl_entered, answer.wl_count, now),
     wl_updated |-> ProxyTime(answer.wl_updated, answer.wl_count, now)]
=============================================================================
