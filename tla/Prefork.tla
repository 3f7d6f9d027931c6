-------------------------------- MODULE Prefork --------------------------------
(* The pre-fork mode of src/src/bin/ruzord.rs: run_prefork_server forks the    *)
(* workers, each of which answers datagrams from the shared socket, one at a   *)
(* time, and monitor_prefork_parent passes SIGTERM and SIGUSR1 on to them and  *)
(* reaps those that end.  fork copies the two flags the handlers set, and the  *)
(* handlers themselves; a worker first clears its copies.  A worker's server   *)
(* is that of Ruzord.tla, reduced here to what the signals do to it: it loads  *)
(* the files, reloads them, and ends.                                          *)
EXTENDS Naturals, Sequences, Sifting

CONSTANTS
    Workers,      \* the worker processes, as many as config.pre_fork
    Parent,       \* the parent process
    MaxEdits,     \* bound: how often the configuration files are edited
    ForkFails,    \* whether fork, or try_clone before it, may fail
    WorkerFails,  \* whether a worker may end by an error
    Interrupts    \* whether a signal may interrupt a worker's recv_from

ASSUME PreforkAssumption ==
    /\ Parent \notin Workers
    /\ MaxEdits \in Nat
    /\ ForkFails \in BOOLEAN /\ WorkerFails \in BOOLEAN /\ Interrupts \in BOOLEAN

Processes == Workers \cup {Parent}
Edits == 0..MaxEdits

VARIABLES
    ppc,      \* where the parent is
    pids,     \* its vector of children not reaped yet
    nth,      \* turn of the loop in signal_children
    wpc,      \* where each worker is
    RECEIVED_TERM, RECEIVED_RELOAD,   \* the flags of each process
    reload,   \* a worker's reload flag, set by its monitor
    auth,     \* the version of the files a worker serves by
    files,    \* the version on disk
    asked     \* history: files at the latest SIGUSR1 of the parent

flagVars == <<RECEIVED_TERM, RECEIVED_RELOAD>>
workerVars == <<wpc, reload, auth>>
pvars == <<ppc, pids, nth, workerVars, flagVars, files, asked>>

Gone == {"ended", "abandoned"}   \* the parent
Running == {w \in Workers : wpc[w] \notin {"none", "exited"}}

PInit ==
    /\ ppc = "fork" /\ pids = << >> /\ nth = 1
    /\ wpc = [w \in Workers |-> "none"]
    /\ RECEIVED_TERM = [p \in Processes |-> FALSE]
    /\ RECEIVED_RELOAD = [p \in Processes |-> FALSE]
    /\ reload = [w \in Workers |-> FALSE]
    /\ auth = [w \in Workers |-> 0]
    /\ files = 0 /\ asked = 0
-----------------------------------------------------------------------------
(* The parent.                                                                 *)

\* fork: the child's memory is a copy of the parent's.
Fork(w) ==
    /\ ppc = "fork" /\ wpc[w] = "none"
    /\ wpc' = [wpc EXCEPT ![w] = "forked"]
    /\ RECEIVED_TERM' = [RECEIVED_TERM EXCEPT ![w] = RECEIVED_TERM[Parent]]
    /\ RECEIVED_RELOAD' = [RECEIVED_RELOAD EXCEPT ![w] = RECEIVED_RELOAD[Parent]]
    /\ pids' = Append(pids, w)
    /\ UNCHANGED <<ppc, nth, reload, auth, files, asked>>

ForkError ==
    /\ ppc = "fork" /\ ForkFails
    /\ \E w \in Workers : wpc[w] = "none"
    /\ ppc' = "sigterm" /\ nth' = 1
    /\ UNCHANGED <<pids, workerVars, flagVars, files, asked>>

\* The error of try_clone is returned at once: no worker is signalled or waited for.
CloneError ==
    /\ ppc = "fork" /\ ForkFails
    /\ \E w \in Workers : wpc[w] = "none"
    /\ ppc' = "abandoned"
    /\ UNCHANGED <<pids, nth, workerVars, flagVars, files, asked>>

AllForked ==
    /\ ppc = "fork" /\ \A w \in Workers : wpc[w] # "none"
    /\ ppc' = "poll"
    /\ UNCHANGED <<pids, nth, workerVars, flagVars, files, asked>>

\* The head of the parent's loop and RECEIVED_TERM.swap(false).
PollTerm ==
    /\ ppc = "poll"
    /\ \/ pids = << >> /\ ppc' = "ended" /\ UNCHANGED <<nth, RECEIVED_TERM>>
       \/ /\ pids # << >>
          /\ ppc' = IF RECEIVED_TERM[Parent] THEN "sigterm" ELSE "pollreload"
          /\ RECEIVED_TERM' = [RECEIVED_TERM EXCEPT ![Parent] = FALSE]
          /\ nth' = 1
    /\ UNCHANGED <<pids, workerVars, RECEIVED_RELOAD, files, asked>>

\* RECEIVED_RELOAD.swap(false)
PollReload ==
    /\ ppc = "pollreload"
    /\ ppc' = IF RECEIVED_RELOAD[Parent] THEN "sigusr1" ELSE "reap"
    /\ RECEIVED_RELOAD' = [RECEIVED_RELOAD EXCEPT ![Parent] = FALSE]
    /\ nth' = 1
    /\ UNCHANGED <<pids, workerVars, RECEIVED_TERM, files, asked>>

\* Mutant: the loop stops one child short.
LastChildSkipped == nth >= Len(pids)
AllSignalled == nth > Len(pids)

\* A signal for w: its handler sets the flag, and may end w's recv_from with an
\* error that makes the worker's loop return, see Ruzord.
Deliver(flags, w) ==
    /\ flags' = [flags EXCEPT ![w] = TRUE]
    /\ \/ UNCHANGED wpc
       \/ Interrupts /\ wpc[w] = "serving" /\ wpc' = [wpc EXCEPT ![w] = "exited"]

SignalsSent(next) == AllSignalled /\ ppc' = next /\ UNCHANGED <<nth, wpc, flagVars>>

\* signal_children: kill(pid, signal) for each child.
SignalNext ==
    /\ \/ ppc = "sigterm" /\ SignalsSent("wait")
       \/ ppc = "sigusr1" /\ SignalsSent("reap")
       \/ /\ ppc \in {"sigterm", "sigusr1"} /\ ~AllSignalled
          /\ \/ /\ ppc = "sigterm" /\ Deliver(RECEIVED_TERM, pids[nth])
                /\ UNCHANGED RECEIVED_RELOAD
             \/ /\ ppc = "sigusr1" /\ Deliver(RECEIVED_RELOAD, pids[nth])
                /\ UNCHANGED RECEIVED_TERM
          /\ nth' = nth + 1
          /\ UNCHANGED ppc
    /\ UNCHANGED <<pids, reload, auth, files, asked>>

\* reap_exited_children
Reap ==
    /\ ppc = "reap"
    /\ pids' = Sift(pids, {w \in Workers : wpc[w] # "exited"})
    /\ ppc' = "poll"
    /\ UNCHANGED <<nth, workerVars, flagVars, files, asked>>

\* Mutant: waitpid with WNOHANG.
AnyState == TRUE
ChildExited == wpc[Head(pids)] = "exited"

\* wait_for_children: waitpid blocks until the child has exited.
WaitNext ==
    /\ ppc = "wait"
    /\ \/ pids = << >> /\ ppc' = "ended" /\ UNCHANGED pids
       \/ pids # << >> /\ ChildExited /\ pids' = Tail(pids) /\ UNCHANGED ppc
    /\ UNCHANGED <<nth, workerVars, flagVars, files, asked>>

ParentStep ==
    \/ \E w \in Workers : Fork(w)
    \/ ForkError \/ CloneError \/ AllForked \/ PollTerm \/ PollReload \/ SignalNext \/ Reap \/ WaitNext
-----------------------------------------------------------------------------
(* A worker.                                                                   *)

ClearTerm(w) ==
    /\ wpc[w] = "forked"
    /\ wpc' = [wpc EXCEPT ![w] = "cleared"]
    /\ RECEIVED_TERM' = [RECEIVED_TERM EXCEPT ![w] = FALSE]
    /\ UNCHANGED <<ppc, pids, nth, RECEIVED_RELOAD, reload, auth, files, asked>>

ClearReload(w) ==
    /\ wpc[w] = "cleared"
    /\ wpc' = [wpc EXCEPT ![w] = "loading"]
    /\ RECEIVED_RELOAD' = [RECEIVED_RELOAD EXCEPT ![w] = FALSE]
    /\ UNCHANGED <<ppc, pids, nth, RECEIVED_TERM, reload, auth, files, asked>>

LoadFiles(w) == auth' = [auth EXCEPT ![w] = files]

\* Mutant: the worker starts with what its parent read before the forks.
LoadedByParent(w) == auth' = [auth EXCEPT ![w] = 0]
LoadedAtStart(w) == LoadFiles(w)

\* serve_bound_socket_with_control loads the files, then serves.
StartServing(w) ==
    /\ wpc[w] = "loading"
    /\ wpc' = [wpc EXCEPT ![w] = "serving"]
    /\ LoadedAtStart(w)
    /\ UNCHANGED <<ppc, pids, nth, flagVars, reload, files, asked>>

\* The worker's monitor passes a SIGUSR1 on to its receive loop.
NoticeReload(w) ==
    /\ wpc[w] = "serving" /\ RECEIVED_RELOAD[w]
    /\ RECEIVED_RELOAD' = [RECEIVED_RELOAD EXCEPT ![w] = FALSE]
    /\ reload' = [reload EXCEPT ![w] = TRUE]
    /\ UNCHANGED <<ppc, pids, nth, wpc, RECEIVED_TERM, auth, files, asked>>

Reload(w) ==
    /\ wpc[w] = "serving" /\ reload[w]
    /\ reload' = [reload EXCEPT ![w] = FALSE]
    /\ LoadFiles(w)
    /\ UNCHANGED <<ppc, pids, nth, wpc, flagVars, files, asked>>

\* The monitor sees the SIGTERM, the loop leaves, the forwarder is joined, and
\* process::exit ends the worker.
Terminate(w) ==
    /\ wpc[w] = "serving" /\ RECEIVED_TERM[w]
    /\ wpc' = [wpc EXCEPT ![w] = "exited"]
    /\ UNCHANGED <<ppc, pids, nth, flagVars, reload, auth, files, asked>>

\* The forwarder cannot be set up, the engine not opened, or the loop returns
\* an error: the same way out, unasked.
Fail(w) ==
    /\ WorkerFails
    /\ wpc[w] \in {"loading", "serving"}
    /\ wpc' = [wpc EXCEPT ![w] = "exited"]
    /\ UNCHANGED <<ppc, pids, nth, flagVars, reload, auth, files, asked>>

WorkerStep(w) ==
    \/ ClearTerm(w) \/ ClearReload(w) \/ StartServing(w)
    \/ NoticeReload(w) \/ Reload(w) \/ Terminate(w)
-----------------------------------------------------------------------------
(* The environment.                                                            *)

Sigterm ==
    /\ ppc \notin Gone
    /\ RECEIVED_TERM' = [RECEIVED_TERM EXCEPT ![Parent] = TRUE]
    /\ UNCHANGED <<ppc, pids, nth, workerVars, RECEIVED_RELOAD, files, asked>>

Sigusr1 ==
    /\ ppc \notin Gone
    /\ RECEIVED_RELOAD' = [RECEIVED_RELOAD EXCEPT ![Parent] = TRUE]
    /\ asked' = files
    /\ UNCHANGED <<ppc, pids, nth, workerVars, RECEIVED_TERM, files>>

EditFiles ==
    /\ files < MaxEdits
    /\ files' = files + 1
    /\ UNCHANGED <<ppc, pids, nth, workerVars, flagVars, asked>>

ParentEnded == ppc \in Gone /\ UNCHANGED pvars

PNext ==
    \/ ParentStep
    \/ \E w \in Workers : WorkerStep(w) \/ Fail(w)
    \/ Sigterm \/ Sigusr1 \/ EditFiles \/ ParentEnded

PSpec == PInit /\ [][PNext]_pvars

\* Every process is scheduled.  Fork and its failure are one choice.
PFair ==
    /\ PSpec
    /\ WF_pvars(ParentStep)
    /\ \A w \in Workers : /\ WF_pvars(WorkerStep(w))
                          /\ WF_pvars(Terminate(w))
                          /\ WF_pvars(Reload(w))
                          /\ WF_pvars(NoticeReload(w))
-----------------------------------------------------------------------------
\* The parent keeps the pid of every worker that runs, each once, until it has
\* seen it exit: unless the socket cannot be cloned it never ends with a worker
\* still serving, and never waits for a child it has already reaped
\* (run_prefork_server, reap_exited_children, wait_for_children).
NoOrphans ==
    /\ \A w \in Running : \E k \in 1..Len(pids) : pids[k] = w
    /\ \A j, k \in 1..Len(pids) : pids[j] = pids[k] => j = k
    /\ ppc = "ended" => Running = {}

\* A SIGUSR1 of the parent brings the files into force in every worker, even in
\* one that clears its flag after the signal was passed on: it has not loaded
\* the files yet.  Unless the parent has begun to shut down.
ReloadReachesWorkers ==
    \A v \in 1..MaxEdits, w \in Workers :
        asked = v ~> \/ auth[w] >= v
                     \/ wpc[w] = "exited"
                     \/ ppc \in {"sigterm", "wait"} \cup Gone

\* A SIGTERM that the parent passes on once every worker has cleared its flags
\* ends all workers and the parent.
SettledTermEnds ==
    ppc = "sigterm" /\ nth = 1 /\ (\A w \in Workers : wpc[w] \notin {"none", "forked"})
        ~> ppc = "ended"
=============================================================================
