--------------------------- MODULE ForwarderChannel ---------------------------
(* The forwarder with the workers that fill its channel: Producers threads     *)
(* call queue_forward_request at any moment, also after the stop and after the *)
(* forwarder has ended, as the detached workers of ruzord may.                 *)
EXTENDS Forwarder, Sifting, SequencesExt

CONSTANTS
    QueueCap,     \* max_queue_size of the sync_channel
    MaxEntries    \* bound: entries the workers try to queue

ASSUME ChannelAssumption == QueueCap \in Nat \ {0} /\ MaxEntries \in Nat

VARIABLES
    tried,      \* how many entries the workers tried to queue
    accepted,   \* history: the entries try_send accepted, in order
    early       \* history: how many of them were accepted before the stop

cvars == <<fvars, tried, accepted, early>>

CInit == FInit /\ tried = 0 /\ accepted = << >> /\ early = 0

\* try_send: refused when the channel is full or its receiver is gone.
queue_forward_request(entry) ==
    IF fopen /\ Len(fqueue) < QueueCap
    THEN fqueue' = Append(fqueue, entry) /\ accepted' = Append(accepted, entry)
    ELSE UNCHANGED <<fqueue, accepted>>

Produce ==
    /\ tried < MaxEntries
    /\ tried' = tried + 1
    /\ \E whitelist \in Kinds :
         queue_forward_request([nth |-> tried + 1, whitelist |-> whitelist])
    /\ early' = IF stopping THEN early ELSE Len(accepted')
    /\ UNCHANGED <<fopen, loopVars, stopping, clientVars>>

\* stop() has joined the thread.
Stopped == fpc = "ended" /\ tried = MaxEntries /\ UNCHANGED cvars

CNext ==
    \/ (Loop \/ Stop) /\ UNCHANGED <<tried, accepted, early>>
    \/ Produce
    \/ Stopped

CSpec == CInit /\ [][CNext]_cvars
CFair == CSpec /\ WF_cvars(Loop /\ UNCHANGED <<tried, accepted, early>>)
-----------------------------------------------------------------------------
OfKind(entries, whitelist) == Sift(entries, [nth : Nat, whitelist : {whitelist}])

Carried(message, whitelist) ==
    IF message.whitelist = whitelist THEN message.digests ELSE << >>
Sent(messages, whitelist) ==
    FlattenSeq([n \in 1..Len(messages) |-> Carried(messages[n], whitelist)])
Attempted(address, whitelist) == Sent(trail[address], whitelist)

Repeated(entry, n) == [i \in 1..n |-> entry]
\* How many lines of the servers file, from the n-th on, name this address:
\* load_servers keeps repeated ones.
Lines(address, n) == Cardinality({k \in n..Len(Servers) : Servers[k] = address})
ForLines(address, entries) ==
    FlattenSeq([n \in 1..Len(entries) |-> Repeated(entries[n], Lines(address, 1))])

\* What forward_one has not yet handed to this address.
AtHand(address) ==
    IF fpc = "forward" THEN Repeated(current[1], Lines(address, next)) ELSE << >>

\* Every digest the channel accepted goes to every remote server exactly once
\* for each line that names it, and in the order it was accepted, among those of
\* its operation: what was sent, what is batched, what is at hand and what is
\* queued are together what was accepted, whether sends fail or not
\* (forward_loop, forward_one, BatchClient::add_digest and force).
NothingLostOrRepeated ==
    fopen => \A a \in Addresses, k \in Kinds :
        OfKind(ForLines(a, accepted), k) =
            Attempted(a, k) \o batches[a][k] \o OfKind(AtHand(a) \o ForLines(a, fqueue), k)

\* Batching: until the stop a message carries exactly batch_size digests of one
\* operation, and the partial ones sent then carry fewer.
BatchesFull ==
    \A a \in Addresses :
        /\ \A k \in Kinds : Len(batches[a][k]) < BatchSize
        /\ \A n \in 1..Len(trail[a]) :
             LET m == trail[a][n] IN
             /\ \A j \in 1..Len(m.digests) : m.digests[j].whitelist = m.whitelist
             /\ IF m.forced THEN Len(m.digests) < BatchSize
                            ELSE Len(m.digests) = BatchSize

\* What the channel accepted reaches every server, in the messages it should.
DeliveredInBatches == NothingLostOrRepeated /\ BatchesFull

\* Once stop has joined the thread, everything accepted before stop was called
\* has been sent, or its send has failed: only what a worker queues during the
\* stop may be dropped with the receiver.
StopFlushes ==
    fpc = "ended" =>
        \A a \in Addresses, k \in Kinds :
            IsPrefix(OfKind(ForLines(a, SubSeq(accepted, 1, early)), k), Attempted(a, k))

\* ForwarderHandle::stop, which joins the thread, returns.
StopReturns == stopping ~> fpc = "ended"
=============================================================================
