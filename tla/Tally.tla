-------------------------------- MODULE Tally --------------------------------
(* What every engine promises of its counters (DigestDatabase, engines.rs), as *)
(* an abstract table of two counters for each digest:                          *)
(*  - a report or whitelist adds one to its digests in their order, one atomic *)
(*    step each, and is answered ok only after the last;                       *)
(*  - set replaces both counters of its digest in one step;                    *)
(*  - a request may fail after any prefix of its steps, and then stops;        *)
(*  - an old entry may be forgotten as a whole (expiry and cleanup).           *)
(* So nothing is counted twice or lost, however many sessions share the table. *)
EXTENDS Naturals, Sequences

CONSTANTS
    Sessions,     \* the requests, each served by its own connection
    Digests,
    Jobs,         \* [op, digests, answer], what a request may ask for
    TallyMax      \* where a counter stays

VARIABLES
    job,      \* what each session was asked
    taken,    \* digests of the job dealt with so far
    outcome,  \* "none", "busy", "ok" or "failed"
    tally     \* the two counters of each digest

tvars == <<job, taken, outcome, tally>>

Side(op) == IF op = "report" THEN "r_count" ELSE "wl_count"
NoTally == [r_count |-> 0, wl_count |-> 0]
Saturated(n) == IF n < TallyMax THEN n + 1 ELSE n

TInit ==
    /\ job \in [Sessions -> Jobs]
    /\ taken = [s \in Sessions |-> 0]
    /\ outcome = [s \in Sessions |-> "none"]
    /\ tally = [d \in Digests |-> NoTally]

Accept(s) ==
    /\ outcome[s] = "none"
    /\ outcome' = [outcome EXCEPT ![s] = "busy"]
    /\ UNCHANGED <<job, taken, tally>>

CountsOf(rec) == [r_count |-> rec.r_count, wl_count |-> rec.wl_count]

\* The step that counts may be the last one, or one whose answer is lost.
Deal(s) ==
    /\ outcome[s] = "busy"
    /\ job[s].op # "get"
    /\ taken[s] < Len(job[s].digests)
    /\ taken' = [taken EXCEPT ![s] = @ + 1]
    /\ LET d == job[s].digests[taken[s] + 1] IN
       tally' = IF job[s].op = "set" THEN [tally EXCEPT ![d] = CountsOf(job[s].answer)]
                ELSE [tally EXCEPT ![d][Side(job[s].op)] = Saturated(@)]
    /\ \/ UNCHANGED outcome
       \/ outcome' = [outcome EXCEPT ![s] = "failed"]
       \/ /\ taken'[s] = Len(job[s].digests)
          /\ outcome' = [outcome EXCEPT ![s] = "ok"]
    /\ UNCHANGED job

\* Old entries go, any number of them, or none.
Forgotten ==
    \E D \in SUBSET Digests :
        tally' = [d \in Digests |-> IF d \in D THEN NoTally ELSE tally[d]]

Forget == Forgotten /\ UNCHANGED <<job, taken, outcome>>

\* A session that read an entry and fails may have kept it from being forgotten.
Finish(s) ==
    /\ outcome[s] = "busy"
    /\ \/ /\ outcome' = [outcome EXCEPT ![s] = "failed"]
          /\ Forgotten
       \/ /\ job[s].op = "get" \/ taken[s] = Len(job[s].digests)
          /\ outcome' = [outcome EXCEPT ![s] = "ok"]
          /\ UNCHANGED tally
    /\ UNCHANGED <<job, taken>>

TNext == Forget \/ \E s \in Sessions : Accept(s) \/ Deal(s) \/ Finish(s)

TSpec == TInit /\ [][TNext]_tvars
=============================================================================
