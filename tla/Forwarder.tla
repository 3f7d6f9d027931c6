------------------------------- MODULE Forwarder -------------------------------
(* The forwarder of src/src/forwarder.rs and the BatchClient of                *)
(* src/src/client.rs it drives: a thread that takes the digests the server has *)
(* counted out of a bounded channel, collects them per remote server and       *)
(* operation into batches, sends the full ones, and at its stop drains the     *)
(* channel and sends the partial ones.  A send either leaves the host or fails *)
(* and is ignored; what the network does with it is not modelled.              *)
EXTENDS Integers, Sequences

CONSTANTS
    Servers,      \* remote_servers, a sequence of addresses, some perhaps repeated
    BatchSize,    \* digests in a full message
    SendFails     \* whether send_only may fail

Addresses == {Servers[k] : k \in 1..Len(Servers)}
Kinds == BOOLEAN            \* FALSE for reports, TRUE for whitelists

ASSUME ForwarderAssumption ==
    /\ Servers \in Seq(Addresses) /\ Len(Servers) > 0
    /\ BatchSize \in Nat \ {0}
    /\ SendFails \in BOOLEAN

VARIABLES
    fqueue,     \* the sync_channel, of entries with a field whitelist
    fopen,      \* its receiver exists
    fpc,        \* where forward_loop is
    current,    \* the entry forward_one works on
    next,       \* index of the next remote server for it
    draining,   \* the second loop, of try_recv, is reached
    stopping,   \* ForwarderHandle.shutdown
    batches,    \* the reports and whitelists maps: a message for each server
    trail       \* history: what was sent to each server, in order

loopVars == <<fpc, current, next, draining>>
clientVars == <<batches, trail>>
fvars == <<fqueue, fopen, loopVars, stopping, clientVars>>

ThreadInit ==
    /\ fpc = "receive" /\ current = << >> /\ next = 1 /\ draining = FALSE
    /\ stopping = FALSE
    /\ batches = [a \in Addresses |-> [k \in Kinds |-> << >>]]
    /\ trail = [a \in Addresses |-> << >>]

FInit == fqueue = << >> /\ fopen = TRUE /\ ThreadInit

Take ==
    /\ current' = << Head(fqueue) >>
    /\ fqueue' = Tail(fqueue)
    /\ next' = 1
    /\ fpc' = "forward"

\* recv_timeout, and try_recv once draining, return an entry.
ReceiveEntry ==
    /\ fpc = "receive" /\ fqueue # << >>
    /\ Take
    /\ UNCHANGED <<fopen, draining, stopping, clientVars>>

\* Mutant: the shutdown flag is not looked at.
NeverLeaves == FALSE
LeavesLoop == stopping

\* Nothing arrives for FORWARDER_TIMEOUT: go on, or leave the loop when stop
\* was called.
ReceiveTimeout ==
    /\ fpc = "receive" /\ ~draining /\ fqueue = << >>
    /\ LeavesLoop
    /\ draining' = TRUE
    /\ UNCHANGED <<fqueue, fopen, fpc, current, next, stopping, clientVars>>

\* try_recv finds the channel empty.
Drained ==
    /\ fpc = "receive" /\ draining /\ fqueue = << >>
    /\ fpc' = "force"
    /\ UNCHANGED <<fqueue, fopen, current, next, draining, stopping, clientVars>>

\* send_only: the message is gone from the client whether it leaves or not.
Attempt(address, whitelist, digests) ==
    \E left \in (IF SendFails THEN BOOLEAN ELSE {TRUE}) :
        trail' = [trail EXCEPT ![address] =
                    Append(@, [whitelist |-> whitelist, digests |-> digests,
                               left |-> left, forced |-> fpc = "force"])]

\* Mutant: one digest too many.
OverFull(digests) == Len(digests) > BatchSize
Full(digests) == Len(digests) >= BatchSize

\* Mutant: the message sent stays in the map.
StaysBatched(address, whitelist) == UNCHANGED batches
Unbatched(address, whitelist) == batches' = [batches EXCEPT ![address][whitelist] = << >>]

LastServer == next = Len(Servers)

\* One turn of forward_one: BatchClient::add_digest for the next server.
ForwardToServer ==
    /\ fpc = "forward"
    /\ LET address == Servers[next]
           whitelist == current[1].whitelist
           digests == Append(batches[address][whitelist], current[1])
       IN  \/ /\ Full(digests)
              /\ Attempt(address, whitelist, digests)
              /\ Unbatched(address, whitelist)
           \/ /\ ~Full(digests)
              /\ batches' = [batches EXCEPT ![address][whitelist] = digests]
              /\ UNCHANGED trail
    /\ next' = next + 1
    /\ \/ ~LastServer /\ UNCHANGED <<fpc, current>>
       \/ LastServer /\ fpc' = "receive" /\ current' = << >>
    /\ UNCHANGED <<fqueue, fopen, draining, stopping>>

Partial(whitelist) == {a \in Addresses : batches[a][whitelist] # << >>}

\* BatchClient::force: the reports of every server, in the order of a HashMap,
\* then the whitelists.
ForceBatch ==
    /\ fpc = "force"
    /\ \E whitelist \in Kinds, address \in Addresses :
         /\ address \in Partial(whitelist)
         /\ whitelist => Partial(FALSE) = {}
         /\ Attempt(address, whitelist, batches[address][whitelist])
         /\ Unbatched(address, whitelist)
    /\ UNCHANGED <<fqueue, fopen, loopVars, stopping>>

\* Mutant: the partial messages are dropped with the client.
Flushed == TRUE
AllForced == \A whitelist \in Kinds : Partial(whitelist) = {}

\* The thread ends: the receiver is dropped with what is still in the channel.
End ==
    /\ fpc = "force"
    /\ AllForced
    /\ fpc' = "ended"
    /\ fopen' = FALSE /\ fqueue' = << >>
    /\ UNCHANGED <<current, next, draining, stopping, clientVars>>

Loop == ReceiveEntry \/ ReceiveTimeout \/ Drained \/ ForwardToServer \/ ForceBatch \/ End

\* ForwarderHandle::stop; it then joins the thread, that is waits for "ended".
Stop ==
    /\ ~stopping
    /\ stopping' = TRUE
    /\ UNCHANGED <<fqueue, fopen, loopVars, clientVars>>
=============================================================================
