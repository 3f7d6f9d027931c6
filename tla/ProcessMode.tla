------------------------------ MODULE ProcessMode ------------------------------
(* The process mode of src/src/bin/ruzord/process_mode.rs: one thread of the   *)
(* parent looks at the signal flags, reloads, reaps, receives a datagram,      *)
(* waits for a slot and forks a child that answers it by the accounts and the  *)
(* ACL as they were at the fork.  A member of Reqs is a datagram and its child.*)
(* What a child does to the shared MySQL tables is the engine's matter.  Names *)
(* differ from those of Prefork, so that one state machine can hold both.      *)
EXTENDS Naturals, Sequences, FiniteSets, Sifting

CONSTANTS
    Reqs,           \* datagrams that may arrive
    MaxProcesses,   \* config.max_processes, 0 for no limit
    MaxSaves,       \* bound: how often the configuration files are edited
    ForkBreaks,     \* whether fork may fail
    SocketFails,    \* whether recv_from may fail
    RecvInterrupts  \* whether a signal may interrupt recv_from

ASSUME ProcessAssumption ==
    /\ MaxProcesses \in Nat /\ MaxSaves \in Nat
    /\ ForkBreaks \in BOOLEAN /\ SocketFails \in BOOLEAN /\ RecvInterrupts \in BOOLEAN

VARIABLES
    spc,        \* where run_process_server is
    slots,      \* its vector pids, of children not reaped yet
    cpc,        \* where each datagram, or its child, is
    snapshot,   \* the parent's auth as it was at the fork
    ok,         \* whether the child's response has code 200
    forwarded,  \* whether the child has forwarded its request
    TERM, RELOAD,   \* RECEIVED_TERM and RECEIVED_RELOAD of the parent
    loaded,     \* its auth: the version of the passwd file it has loaded
    saved,      \* the version on disk
    wanted      \* history: saved at the latest SIGUSR1

childVars == <<cpc, snapshot, ok, forwarded>>
signalVars == <<TERM, RELOAD>>
authVars == <<loaded, saved, wanted>>
pmvars == <<spc, slots, childVars, signalVars, authVars>>

Children == {r \in Reqs : cpc[r] \in {"handle", "send", "forward"}}

PMInit ==
    /\ spc = "term" /\ slots = << >>
    /\ cpc = [r \in Reqs |-> "new"]
    /\ snapshot = [r \in Reqs |-> 0]
    /\ ok = [r \in Reqs |-> FALSE] /\ forwarded = [r \in Reqs |-> FALSE]
    /\ TERM = FALSE /\ RELOAD = FALSE
    /\ loaded = 0 /\ saved = 0 /\ wanted = 0
-----------------------------------------------------------------------------
(* The parent.                                                                 *)

\* RECEIVED_TERM.swap(false)
TakeTerm ==
    /\ spc = "term"
    /\ spc' = IF TERM THEN "wait" ELSE "reload"
    /\ TERM' = FALSE
    /\ UNCHANGED <<slots, childVars, RELOAD, authVars>>

\* RECEIVED_RELOAD.swap(false)
TakeReload ==
    /\ spc = "reload"
    /\ spc' = IF RELOAD THEN "passwd" ELSE "reap"
    /\ RELOAD' = FALSE
    /\ UNCHANGED <<slots, childVars, TERM, authVars>>

\* auth = load_auth(...): first the passwd file, then the access file, which is
\* at least as new; auth is only used once both are read.
LoadPasswd ==
    /\ spc = "passwd"
    /\ spc' = "access"
    /\ loaded' = saved
    /\ UNCHANGED <<slots, childVars, signalVars, saved, wanted>>

\* Mutant: the flag is cleared once the files are loaded.
ClearedAfterLoad == RELOAD' = FALSE
FlagKept == UNCHANGED RELOAD

LoadAccess ==
    /\ spc = "access"
    /\ spc' = "reap"
    /\ FlagKept
    /\ UNCHANGED <<slots, childVars, TERM, authVars>>

\* Mutant: a child that has exited keeps its slot.
NotReaped == slots

\* reap_exited_children
Reaped == Sift(slots, {r \in Reqs : cpc[r] # "exited"})

ReapChildren ==
    /\ spc = "reap"
    /\ slots' = Reaped
    /\ spc' = "recv"
    /\ UNCHANGED <<childVars, signalVars, authVars>>

\* recv_from times out, fails, or returns a datagram.
RecvTimeout ==
    /\ spc = "recv"
    /\ spc' = "term"
    /\ UNCHANGED <<slots, childVars, signalVars, authVars>>

RecvFails ==
    /\ spc = "recv" /\ SocketFails
    /\ spc' = "wait"
    /\ UNCHANGED <<slots, childVars, signalVars, authVars>>

Receive(r) ==
    /\ spc = "recv" /\ cpc[r] = "new"
    /\ cpc' = [cpc EXCEPT ![r] = "received"]
    /\ spc' = "slot"
    /\ UNCHANGED <<slots, snapshot, ok, forwarded, signalVars, authVars>>

\* Mutant: one child too many.
SlotOffByOne(running) == Len(running) <= MaxProcesses
SlotFree(running) == Len(running) < MaxProcesses

\* wait_for_child_slot: reap, and look again 10 ms later.
WaitForSlot ==
    /\ spc = "slot"
    /\ \/ /\ MaxProcesses = 0 \/ SlotFree(slots)
          /\ spc' = "fork" /\ UNCHANGED slots
       \/ /\ MaxProcesses > 0 /\ ~SlotFree(slots)
          /\ slots' = Reaped
          /\ spc' = IF SlotFree(Reaped) THEN "fork" ELSE "slot"
    /\ UNCHANGED <<childVars, signalVars, authVars>>

\* The child has a copy of the parent's memory, accounts and ACL included.
ForkChild(r) ==
    /\ spc = "fork" /\ cpc[r] = "received"
    /\ cpc' = [cpc EXCEPT ![r] = "handle"]
    /\ snapshot' = [snapshot EXCEPT ![r] = loaded]
    /\ slots' = Append(slots, r)
    /\ spc' = "term"
    /\ UNCHANGED <<ok, forwarded, signalVars, authVars>>

ForkChildError ==
    /\ spc = "fork" /\ ForkBreaks
    /\ spc' = "wait"
    /\ UNCHANGED <<slots, childVars, signalVars, authVars>>

FirstExited == cpc[Head(slots)] = "exited"

\* signal_children and wait_for_children.  A child has inherited a handler that
\* sets a flag which nothing in the child reads: it finishes its request.
WaitForFirst ==
    /\ spc = "wait"
    /\ \/ slots = << >> /\ spc' = "ended" /\ UNCHANGED slots
       \/ slots # << >> /\ FirstExited /\ slots' = Tail(slots) /\ UNCHANGED spc
    /\ UNCHANGED <<childVars, signalVars, authVars>>

ParentTurn ==
    \/ TakeTerm \/ TakeReload \/ LoadPasswd \/ LoadAccess
    \/ ReapChildren \/ RecvTimeout \/ RecvFails
    \/ \E r \in Reqs : Receive(r) \/ ForkChild(r)
    \/ WaitForSlot \/ ForkChildError \/ WaitForFirst
-----------------------------------------------------------------------------
(* A child.                                                                    *)

\* The database is opened and the packet handled; each may end in an error.
Handle(r) ==
    /\ cpc[r] = "handle"
    /\ \E code200 \in BOOLEAN : ok' = [ok EXCEPT ![r] = code200]
    /\ cpc' = [cpc EXCEPT ![r] = "send"]
    /\ UNCHANGED <<spc, slots, snapshot, forwarded, signalVars, authVars>>

\* Mutant: a child that has answered is done.
ExitsOnceSent(r) == "exited"
AfterSend(r) == IF ok[r] THEN "forward" ELSE "exited"

\* send_to, whose failure is ignored.
Send(r) ==
    /\ cpc[r] = "send"
    /\ cpc' = [cpc EXCEPT ![r] = AfterSend(r)]
    /\ UNCHANGED <<spc, slots, snapshot, ok, forwarded, signalVars, authVars>>

\* forward_process_request: a BatchClient of its own, forced before the exit.
ForwardRequest(r) ==
    /\ cpc[r] = "forward"
    /\ forwarded' = [forwarded EXCEPT ![r] = TRUE]
    /\ cpc' = [cpc EXCEPT ![r] = "exited"]
    /\ UNCHANGED <<spc, slots, snapshot, ok, signalVars, authVars>>

Child(r) == Handle(r) \/ Send(r) \/ ForwardRequest(r)
-----------------------------------------------------------------------------
(* The environment.                                                            *)

\* A handler runs in the parent, and may end its recv_from with an error.
Interrupted ==
    \/ UNCHANGED spc
    \/ RecvInterrupts /\ spc = "recv" /\ spc' = "wait"

SigtermComes ==
    /\ spc # "ended" /\ TERM' = TRUE
    /\ Interrupted
    /\ UNCHANGED <<slots, childVars, RELOAD, authVars>>

Sigusr1Comes ==
    /\ spc # "ended" /\ RELOAD' = TRUE /\ wanted' = saved
    /\ Interrupted
    /\ UNCHANGED <<slots, childVars, TERM, loaded, saved>>

SaveFiles ==
    /\ saved < MaxSaves
    /\ saved' = saved + 1
    /\ UNCHANGED <<spc, slots, childVars, signalVars, loaded, wanted>>

ServerEnded == spc = "ended" /\ UNCHANGED pmvars

PMNext ==
    \/ ParentTurn \/ \E r \in Reqs : Child(r)
    \/ SigtermComes \/ Sigusr1Comes \/ SaveFiles \/ ServerEnded

PMSpec == PMInit /\ [][PMNext]_pmvars

\* Every process is scheduled; a MySQL server answers or the call fails.
PMFair == PMSpec /\ WF_pmvars(ParentTurn) /\ \A r \in Reqs : WF_pmvars(Child(r))
-----------------------------------------------------------------------------
\* No more than max_processes children run at once, whatever is reaped when,
\* and each of them is known to the parent, once (wait_for_child_slot,
\* reap_exited_children).
SlotsBounded ==
    /\ MaxProcesses > 0 => Cardinality(Children) <= MaxProcesses
    /\ \A r \in Children : \E k \in 1..Len(slots) : slots[k] = r
    /\ \A j, k \in 1..Len(slots) : slots[j] = slots[k] => j = k

\* The parent ends only after its children, each of which has finished its
\* request: it has answered, and forwarded what it answered with 200, also when
\* the parent is ended by an error (run_process_server).
ChildrenFinish ==
    spc = "ended" =>
        \A r \in Reqs : /\ cpc[r] \in {"new", "received", "exited"}
                        /\ ok[r] => forwarded[r]

\* What the files hold at a SIGUSR1 is what later children serve by, although
\* the parent looks at its flags only between two datagrams and not while it
\* waits for a slot; unless the parent is ending.
LaterChildrenReloaded ==
    \A v \in 1..MaxSaves : wanted = v ~> loaded >= v \/ spc \in {"wait", "ended"}

\* SIGTERM ends the parent, also while it waits for a slot.
SigtermEndsParent == TERM ~> spc = "ended"
=============================================================================
