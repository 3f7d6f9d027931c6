-------------------------------- MODULE Ruzord --------------------------------
(* The ruzord process in its thread and inline modes (run of                   *)
(* src/src/bin/ruzord.rs): the server of Server.tla, the forwarder thread of   *)
(* Forwarder.tla behind the channel the workers fill, the signal handlers with *)
(* the monitor thread that polls what they set, and the shutdown sequence of   *)
(* the main thread once serve_with_control has returned.  What the server and  *)
(* the forwarder leave to their environment is done here by the other parts.   *)
EXTENDS ServerProperties

CONSTANTS
    Servers, BatchSize, SendFails,   \* see Forwarder
    Interrupts   \* whether a signal may interrupt recv_from

VARIABLES
    fpc, current, next, draining, stopping, batches, trail,   \* see Forwarder
    RECEIVED_TERM, RECEIVED_RELOAD,   \* set by handle_signal
    monitor,  \* where the thread of spawn_signal_monitor is
    run,      \* where the main thread is once serve_with_control returned
    asked,    \* history: the files at the latest SIGUSR1
    early     \* history: the requests answered when the forwarder was stopped

F == INSTANCE Forwarder

ASSUME RuzordAssumption ==
    /\ Servers \in Seq(F!Addresses) /\ Len(Servers) > 0
    /\ BatchSize \in Nat \ {0}
    /\ SendFails \in BOOLEAN /\ Interrupts \in BOOLEAN

signalVars == <<RECEIVED_TERM, RECEIVED_RELOAD, monitor, asked>>
loopVars == <<fpc, current, next, draining, stopping, batches, trail>>
runVars == <<run, early>>
rvars == <<vars, loopVars, signalVars, runVars>>

RInit ==
    /\ Init
    /\ F!ThreadInit
    /\ RECEIVED_TERM = FALSE /\ RECEIVED_RELOAD = FALSE
    /\ monitor = "poll" /\ asked = SomeFiles
    /\ run = "serve" /\ early = {}

ServerStep ==
    /\ Main \/ EditPasswd \/ EditAccess \/ \E r \in Reqs : Work(r)
    /\ UNCHANGED <<loopVars, signalVars, runVars>>

\* The forwarder thread runs if there are remote servers to forward to.
ForwarderLoop ==
    /\ Forwarding /\ Alive /\ F!Loop
    /\ UNCHANGED <<reqVars, dbVars, authVars, ctlVars, signalVars, runVars>>

\* A handler runs on the main thread.  A recv_from with a read timeout is not
\* restarted after it (SA_RESTART does not apply on Linux): the loop takes the
\* error for one of the socket and returns.
Interrupted ==
    /\ \/ UNCHANGED mpc
       \/ Interrupts /\ mpc = "recv" /\ mpc' = "exited"
    /\ UNCHANGED <<reqVars, dbVars, authVars, fwdVars, reload, shutdown, active, loopVars>>

\* handle_signal, on SIGTERM and on SIGUSR1.
Sigterm ==
    /\ Alive /\ RECEIVED_TERM' = TRUE
    /\ Interrupted
    /\ UNCHANGED <<RECEIVED_RELOAD, monitor, asked, runVars>>

Sigusr1 ==
    /\ Alive /\ RECEIVED_RELOAD' = TRUE /\ asked' = files
    /\ Interrupted
    /\ UNCHANGED <<RECEIVED_TERM, monitor, runVars>>

\* The monitor's turns, every 50 ms: RECEIVED_TERM.swap(false), then the store
\* of shutdown, RECEIVED_RELOAD.swap(false), then the store of reload.
MonitorPolls ==
    /\ Alive /\ monitor = "poll"
    /\ monitor' = IF shutdown THEN "ended" ELSE "term"
    /\ UNCHANGED <<vars, loopVars, RECEIVED_TERM, RECEIVED_RELOAD, asked, runVars>>

MonitorTerm ==
    /\ Alive /\ monitor = "term"
    /\ monitor' = IF RECEIVED_TERM THEN "shutdown" ELSE "reload"
    /\ RECEIVED_TERM' = FALSE
    /\ UNCHANGED <<vars, loopVars, RECEIVED_RELOAD, asked, runVars>>

MonitorShutdown ==
    /\ Alive /\ monitor = "shutdown"
    /\ monitor' = "reload"
    /\ shutdown' = TRUE
    /\ UNCHANGED <<reqVars, dbVars, authVars, fwdVars, mpc, reload, active>>
    /\ UNCHANGED <<loopVars, RECEIVED_TERM, RECEIVED_RELOAD, asked, runVars>>

MonitorReload ==
    /\ Alive /\ monitor = "reload"
    /\ monitor' = IF RECEIVED_RELOAD THEN "store" ELSE "poll"
    /\ RECEIVED_RELOAD' = FALSE
    /\ UNCHANGED <<vars, loopVars, RECEIVED_TERM, asked, runVars>>

MonitorStore ==
    /\ monitor = "store"
    /\ monitor' = "poll"
    /\ SetReload
    /\ UNCHANGED <<loopVars, RECEIVED_TERM, RECEIVED_RELOAD, asked, runVars>>

Monitor == MonitorPolls \/ MonitorTerm \/ MonitorShutdown \/ MonitorReload \/ MonitorStore

\* Mutant: only the monitor ever sets the flag.
FlagLeft == UNCHANGED shutdown
FlagSet == shutdown' = TRUE

\* serve_with_control has returned: shutdown.store(true).
ServeReturned ==
    /\ mpc = "exited" /\ run = "serve"
    /\ run' = "join"
    /\ FlagSet
    /\ UNCHANGED <<reqVars, dbVars, authVars, fwdVars, mpc, reload, active>>
    /\ UNCHANGED <<loopVars, signalVars, early>>

\* signal_monitor.join()
JoinMonitor ==
    /\ run = "join" /\ monitor = "ended"
    /\ run' = IF Forwarding THEN "stop" ELSE "leave"
    /\ UNCHANGED <<vars, loopVars, signalVars, early>>

\* ForwarderHandle::stop: the flag, then the join of the thread.
StopForwarder ==
    /\ run = "stop"
    /\ F!Stop
    /\ run' = "wait"
    /\ early' = {r \in Reqs : pc[r] = "done"}
    /\ UNCHANGED <<reqVars, dbVars, authVars, ctlVars, signalVars>>

\* Mutant: stop does not join the thread.
NotJoined == TRUE
ForwarderJoined == fpc = "ended"

JoinForwarder ==
    /\ run = "wait" /\ ForwarderJoined
    /\ run' = "leave"
    /\ UNCHANGED <<vars, loopVars, signalVars, early>>

\* std::process::exit, with whatever the workers are doing.
Leave ==
    /\ run = "leave"
    /\ Exit
    /\ UNCHANGED <<loopVars, signalVars, runVars>>

Shutdown == ServeReturned \/ JoinMonitor \/ StopForwarder \/ JoinForwarder \/ Leave

Gone == ~Alive /\ UNCHANGED rvars

RNext == ServerStep \/ ForwarderLoop \/ Sigterm \/ Sigusr1 \/ Monitor \/ Shutdown \/ Gone

RSpec == RInit /\ [][RNext]_rvars

\* Every thread is scheduled.
RFair ==
    /\ RSpec
    /\ WF_rvars(Main /\ UNCHANGED <<loopVars, signalVars, runVars>>)
    /\ \A r \in Reqs : WF_rvars(Work(r) /\ UNCHANGED <<loopVars, signalVars, runVars>>)
    /\ WF_rvars(ForwarderLoop) /\ WF_rvars(Monitor) /\ WF_rvars(Shutdown)
-----------------------------------------------------------------------------
\* The loop leaves for a SIGTERM only: a SIGUSR1 reloads the files and the server
\* goes on (README: "`SIGUSR1` to reload passwd/access files").
OnlySigtermEnds ==
    mpc = "exited" => RECEIVED_TERM \/ monitor = "shutdown" \/ shutdown

AttemptedAt(address, r, n) ==
    \E k \in 1..Len(trail[address]) : \E j \in 1..Len(trail[address][k].digests) :
        LET e == trail[address][k].digests[j] IN e.by = r /\ e.nth = n

SentOn(r) ==
    \A a \in F!Addresses, n \in 1..Len(msg[r].digests) :
        AttemptedAt(a, r, n)

SentAnywhere(r) ==
    \E a \in F!Addresses : \E k \in 1..Len(trail[a]) :
        \E j \in 1..Len(trail[a][k].digests) : trail[a][k].digests[j].by = r

Updated(r) == msg[r].op \in Updates /\ reply[r].code = 200

\* With a channel large enough, every update answered 200 before the forwarder is
\* stopped has been sent on to every remote server when the process is gone.
AnsweredIsForwarded ==
    ~Alive /\ Forwarding => \A r \in early : Updated(r) => SentOn(r)

\* What the remote servers are sent is what the clients are told.  At no time is
\* anything sent on of an update the database does not hold entirely or that was
\* answered with an error.  Without worker threads, when the process is gone,
\* every update answered 200 has been sent on to every remote server, and one
\* answered 500, although an engine that failed late may have counted some of its
\* digests or all of them, to none (report and whitelist of really_handle queue
\* after database.report has returned without an error).
ForwardedAsAnswered ==
    /\ \A r \in Reqs : SentAnywhere(r) =>
         /\ msg[r].op \in Updates /\ done[r] = Len(msg[r].digests)
         /\ reply[r].code \in {0, 200}
    /\ ~Alive /\ Forwarding =>
         \A r \in Reqs : IF Updated(r) THEN SentOn(r) ELSE ~SentAnywhere(r)

\* SIGTERM, or an error of the socket, ends the process: the loop leaves, the
\* monitor and the forwarder are joined, none waits for another for ever.
ProcessEnds == RECEIVED_TERM \/ mpc = "exited" ~> ~Alive

\* SIGUSR1 brings the files into force, unless the process is shutting down.
Sigusr1TakesEffect ==
    \A v \in 1..MaxEdits : asked.access = v ~> (auth.access >= v \/ shutdown)
=============================================================================
