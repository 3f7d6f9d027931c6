-------------------------------- MODULE Ledger --------------------------------
(* The abstract specification of the server: a table of records on which each *)
(* request acts by atomic steps between its arrival and its answer.           *)
(*  - a report or whitelist counts its digests one by one, each by one atomic *)
(*    increment of the record as it is at that moment, and is answered 200    *)
(*    only after the last;                                                    *)
(*  - a check or info is answered with the record as it was at one moment     *)
(*    between its arrival and its answer;                                     *)
(*  - a record without a match, and only such a record, may be filled from an *)
(*    upstream server, by the check that is answered with it;                 *)
(*  - a request may fail, after any prefix of its digests, and then stops.    *)
(* So no increment is lost, none is applied twice and no answer is stale.     *)
(* Who may do what, locks, threads and signals do not appear.  The promises   *)
(* are those of DigestDatabase (engines.rs) and of really_handle (server.rs). *)
EXTENDS Records, Sequences

CONSTANTS Reqs, Digests, Packets,
          Upstream, NoAnswer,  \* what an upstream server may answer
          Clock                \* the times an increment may be stamped with

VARIABLES
    msg,     \* the packet of each request
    phase,   \* "idle", "open" or "answered"
    reply,   \* what is decided for it, code 0 for nothing yet
    done,    \* digests of an update counted so far
    store    \* the record of each digest

lvars == <<msg, phase, reply, done, store>>

Updates == {"report", "whitelist"}
Undecided(r) == phase[r] = "open" /\ reply[r].code = 0
Decide(r, code, rec) == reply' = [reply EXCEPT ![r] = [code |-> code, rec |-> rec]]

LInit ==
    /\ phase = [r \in Reqs |-> "idle"]
    /\ reply = [r \in Reqs |-> [code |-> 0, rec |-> Blank]]
    /\ done = [r \in Reqs |-> 0]
    /\ store = [d \in Digests |-> Blank]

Open(r) ==
    /\ phase[r] = "idle"
    /\ \E p \in Packets : msg' = [msg EXCEPT ![r] = p]
    /\ phase' = [phase EXCEPT ![r] = "open"]
    /\ UNCHANGED <<reply, done, store>>

\* A request that has no effect on the records: refused, or with nothing to do.
Plain(r) ==
    /\ Undecided(r)
    /\ done[r] = 0
    /\ \/ \E code \in {400, 401, 403, 501, 505} : Decide(r, code, Blank)
       \/ /\ msg[r].op \in {"ping", "pong"} \/ msg[r].digests = << >>
          /\ \E rec \in {Blank, [Blank EXCEPT !.r_count = MaxCount]} : Decide(r, 200, rec)
    /\ UNCHANGED <<msg, phase, done, store>>

\* The answer carries the counters of a check, or the whole record of an info.
Answers(r, rec) ==
    /\ Decide(r, 200, IF msg[r].op = "info" THEN rec
                      ELSE [Blank EXCEPT !.r_count = rec.r_count, !.wl_count = rec.wl_count])

LookUp(r) ==
    /\ Undecided(r)
    /\ msg[r].op \in {"check", "info"}
    /\ Answers(r, store[msg[r].digests[1]])
    /\ UNCHANGED <<msg, phase, done, store>>

\* One increment, of the record as it is now; the last may come with the answer.
Count(r) ==
    /\ Undecided(r)
    /\ msg[r].op \in Updates
    /\ done[r] < Len(msg[r].digests)
    /\ done' = [done EXCEPT ![r] = @ + 1]
    /\ \E now \in Clock :
         store' = [store EXCEPT ![msg[r].digests[done[r] + 1]] =
                     IF msg[r].op = "report" THEN RIncrement(@, now) ELSE WlIncrement(@, now)]
    /\ \/ UNCHANGED reply
       \/ Decide(r, 500, Blank)
       \/ done[r] + 1 = Len(msg[r].digests) /\ Decide(r, 200, Blank)
    /\ UNCHANGED <<msg, phase>>

Confirm(r) ==
    /\ Undecided(r)
    /\ msg[r].op \in Updates
    /\ done[r] = Len(msg[r].digests)
    /\ Decide(r, 200, Blank)
    /\ UNCHANGED <<msg, phase, done, store>>

Fill(r) ==
    /\ Undecided(r)
    /\ msg[r].op = "check"
    /\ LET d == msg[r].digests[1] IN
       /\ ~HasMatch(store[d])
       /\ \E a \in Upstream \ {NoAnswer}, now \in Clock :
            /\ HasMatch(a)
            /\ store' = [store EXCEPT ![d] = ProxyRecord(a, now)]
            /\ Answers(r, ProxyRecord(a, now)) \/ Decide(r, 500, Blank)
    /\ UNCHANGED <<msg, phase, done>>

Fail(r) ==
    /\ Undecided(r)
    /\ Decide(r, 500, Blank)
    /\ UNCHANGED <<msg, phase, done, store>>

Answer(r) ==
    /\ phase[r] = "open"
    /\ reply[r].code # 0
    /\ phase' = [phase EXCEPT ![r] = "answered"]
    /\ UNCHANGED <<msg, reply, done, store>>

LNext == \E r \in Reqs :
    \/ Open(r) \/ Plain(r) \/ LookUp(r) \/ Count(r) \/ Confirm(r)
    \/ Fill(r) \/ Fail(r) \/ Answer(r)

LSpec == LInit /\ [][LNext]_lvars
=============================================================================
