----------------------------- MODULE ProcessProofs -----------------------------
(* The modes with several processes, for any number of them: the parent of the *)
(* pre-fork mode never loses or doubles the pid of a worker that runs; the     *)
(* process mode keeps to max_processes children and ends only after they have  *)
(* finished.                                                                   *)
EXTENDS Prefork, ProcessMode, SequenceFacts
-----------------------------------------------------------------------------
(* The pre-fork mode.                                                          *)

PPCs == {"fork", "poll", "pollreload", "sigterm", "sigusr1", "reap", "wait"} \cup Gone
WPCs == {"none", "forked", "cleared", "loading", "serving", "exited"}

PTypeOK ==
    /\ ppc \in PPCs /\ pids \in Seq(Workers) /\ nth \in Nat \ {0}
    /\ wpc \in [Workers -> WPCs]
    /\ RECEIVED_TERM \in [Processes -> BOOLEAN]
    /\ RECEIVED_RELOAD \in [Processes -> BOOLEAN]
    /\ reload \in [Workers -> BOOLEAN]
    /\ auth \in [Workers -> Edits]
    /\ files \in Edits /\ asked \in Edits

\* The vector holds what runs, once, and nothing that was never forked; at the
\* end it is empty.
WorkersKnown == \A w \in Running : Holds(pids, w)
WorkersForked == \A w \in Workers : Holds(pids, w) => wpc[w] # "none"
WorkersReaped == ppc = "ended" => pids = << >>
PInv == PTypeOK /\ WorkersKnown /\ WorkersForked /\ Distinct(pids) /\ WorkersReaped

LEMMA PInitInv == PInit => PInv
<1> SUFFICES ASSUME PInit PROVE PInv
  OBVIOUS
<1> USE PreforkAssumption DEF PInit
<1>1. pids \in Seq(Workers) /\ Len(pids) = 0
  OBVIOUS
<1>2. PTypeOK
  BY <1>1 DEF PTypeOK, PPCs, WPCs, Gone, Edits
<1>3. WorkersKnown /\ WorkersForked /\ Distinct(pids) /\ WorkersReaped
  BY <1>1 DEF WorkersKnown, Running, WorkersForked, Holds, Distinct, WorkersReaped
<1> QED BY <1>2, <1>3 DEF PInv

\* A fork appends a pid that the vector did not hold.
LEMMA WorkerForkInv == ASSUME PInv, NEW w \in Workers, Fork(w) PROVE PInv'
<1> USE DEF PInv
<1>1. /\ pids' \in Seq(Workers) /\ pids' = Append(pids, w)
      /\ wpc[w] = "none" /\ wpc' = [wpc EXCEPT ![w] = "forked"] /\ ppc' = "fork"
  BY DEF Fork, PTypeOK
<1>2. PTypeOK'
  <2>1. w \in Processes /\ Parent \in Processes
    BY DEF Processes
  <2> QED BY <1>1, <2>1 DEF Fork, PTypeOK, WPCs
<1>3. /\ \A v : Holds(Append(pids, w), v) <=> Holds(pids, v) \/ v = w
      /\ Distinct(Append(pids, w)) <=> Distinct(pids) /\ ~Holds(pids, w)
  BY HoldsAppend, DistinctAppend DEF PTypeOK
<1>4. ~Holds(pids, w)
  BY <1>1 DEF WorkersForked
<1> DEFINE longer == Append(pids, w)
<1>5. /\ pids' = longer
      /\ \A v : Holds(longer, v) <=> Holds(pids, v) \/ v = w
      /\ Distinct(longer)
  BY <1>1, <1>3, <1>4
<1> HIDE DEF longer
<1>6. Distinct(pids')
  BY <1>5
<1>7. WorkersKnown' /\ WorkersForked'
  BY <1>1, <1>5 DEF WorkersKnown, Running, WorkersForked, PTypeOK
<1>8. WorkersReaped'
  BY <1>1 DEF WorkersReaped
<1> QED BY <1>2, <1>6, <1>7, <1>8

\* The other steps of the parent: pids loses only what has exited.
LEMMA ParentInv == ASSUME PInv, ParentStep, ~(\E w \in Workers : Fork(w)) PROVE PInv'
<1> USE DEF PInv, pvars, workerVars, flagVars
<1> USE DEF PTypeOK, PPCs, Gone
<1>1. Parent \in Processes /\ Workers \subseteq Processes
  BY DEF Processes
<1>2. CASE ForkError \/ CloneError \/ AllForked
  <2>1. pids' = pids /\ wpc' = wpc /\ PTypeOK' /\ WorkersReaped'
    BY <1>2 DEF ForkError, CloneError, AllForked, WorkersReaped
  <2> QED BY <2>1 DEF WorkersKnown, Running, WorkersForked
<1>3. CASE PollTerm
  <2>1. pids' = pids /\ wpc' = wpc /\ ppc' \in PPCs /\ WorkersReaped'
    BY <1>3 DEF PollTerm, WorkersReaped
  <2>2. \/ nth' = nth /\ RECEIVED_TERM' = RECEIVED_TERM
        \/ nth' = 1 /\ RECEIVED_TERM' = [RECEIVED_TERM EXCEPT ![Parent] = FALSE]
    BY <1>3 DEF PollTerm
  <2>3. nth' \in Nat \ {0}
    BY <2>2
  <2>4. RECEIVED_TERM' \in [Processes -> BOOLEAN]
    BY <2>2
  <2>5. PTypeOK'
    BY <1>3, <2>1, <2>3, <2>4 DEF PollTerm
  <2> QED BY <2>1, <2>5 DEF WorkersKnown, Running, WorkersForked
<1>4. CASE PollReload
  <2>1. pids' = pids /\ wpc' = wpc /\ PTypeOK' /\ WorkersReaped'
    BY <1>1, <1>4 DEF PollReload, WorkersReaped
  <2> QED BY <2>1 DEF WorkersKnown, Running, WorkersForked
<1>5. CASE SignalNext
  <2>1. PTypeOK' /\ WorkersReaped' /\ pids' = pids
    <3>1. CASE AllSignalled
      BY <1>5, <3>1 DEF SignalNext, SignalsSent, WorkersReaped
    <3>2. CASE ~AllSignalled
      <4>1. nth' = nth + 1 /\ nth' \in Nat \ {0} /\ ppc' = ppc /\ ppc \in {"sigterm", "sigusr1"}
        BY <1>5, <3>2 DEF SignalNext, SignalsSent
      <4>2. RECEIVED_TERM' \in [Processes -> BOOLEAN] /\ RECEIVED_RELOAD' \in [Processes -> BOOLEAN]
        BY <1>5, <3>2 DEF SignalNext, SignalsSent, Deliver
      <4>3. wpc' \in [Workers -> WPCs]
        BY <1>5, <3>2 DEF SignalNext, SignalsSent, Deliver, WPCs
      <4> QED BY <1>5, <4>1, <4>2, <4>3 DEF SignalNext, WorkersReaped
    <3> QED BY <3>1, <3>2
  <2>2. \A w \in Workers : \/ wpc'[w] = wpc[w]
                           \/ wpc[w] = "serving" /\ wpc'[w] = "exited"
    BY <1>5 DEF SignalNext, SignalsSent, Deliver
  <2> QED BY <2>1, <2>2 DEF WorkersKnown, Running, WorkersForked
<1>6. CASE Reap
  <2> DEFINE L == {w \in Workers : wpc[w] # "exited"}
  <2>1. /\ Sift(pids, L) \in Seq(Workers)
        /\ \A v : Holds(Sift(pids, L), v) <=> Holds(pids, v) /\ v \in L
        /\ Distinct(Sift(pids, L))
    BY SiftType, SiftElements DEF SiftsWell
  <2>2. pids' = Sift(pids, L) /\ wpc' = wpc /\ ppc' = "poll"
    BY <1>6 DEF Reap
  <2>3. PTypeOK' /\ WorkersReaped'
    BY <1>6, <2>1, <2>2 DEF Reap, WorkersReaped
  <2>4. WorkersKnown' /\ WorkersForked' /\ Distinct(pids')
    BY <2>1, <2>2 DEF WorkersKnown, Running, WorkersForked
  <2> QED BY <2>3, <2>4
<1>7. CASE WaitNext
  <2>1. CASE pids = << >>
    <3>1. pids' = pids /\ wpc' = wpc /\ PTypeOK' /\ WorkersReaped'
      BY <1>7, <2>1 DEF WaitNext, WorkersReaped
    <3> QED BY <3>1 DEF WorkersKnown, Running, WorkersForked
  <2>2. CASE pids # << >>
    <3>1. pids' = Tail(pids) /\ wpc' = wpc /\ ppc' = "wait" /\ wpc[Head(pids)] = "exited"
      BY <1>7, <2>2 DEF WaitNext, ChildExited
    <3>2. PTypeOK' /\ WorkersReaped'
      BY <1>7, <2>2, <3>1 DEF WaitNext, WorkersReaped
    <3>3. /\ \A v : Holds(pids, v) <=> Holds(Tail(pids), v) \/ v = Head(pids)
          /\ Distinct(Tail(pids))
      BY <2>2, TailElements
    <3> DEFINE rest == Tail(pids)
    <3>4. pids' = rest
      BY <3>1
    <3> HIDE DEF rest
    <3>5. WorkersKnown' /\ WorkersForked' /\ Distinct(pids')
      BY <3>1, <3>3, <3>4 DEF WorkersKnown, Running, WorkersForked, rest
    <3> QED BY <3>2, <3>5
  <2> QED BY <2>1, <2>2
<1> QED BY <1>2, <1>3, <1>4, <1>5, <1>6, <1>7 DEF ParentStep

\* A worker changes no pid, and does not begin to run.
LEMMA WorkerInv == ASSUME PInv, NEW w \in Workers, WorkerStep(w) \/ Fail(w) PROVE PInv'
<1> USE DEF PInv, pvars, workerVars, flagVars
<1>1. w \in Processes
  BY DEF Processes
<1>2. PTypeOK'
  BY <1>1 DEF WorkerStep, ClearTerm, ClearReload, StartServing, LoadedAtStart, LoadFiles,
              NoticeReload, Reload, Terminate, Fail, PTypeOK, WPCs
<1>3. /\ pids' = pids /\ ppc' = ppc
      /\ \A v \in Workers : \/ wpc'[v] = wpc[v]
                            \/ wpc[v] \notin {"none", "exited"} /\ wpc'[v] # "none"
  BY DEF WorkerStep, ClearTerm, ClearReload, StartServing, NoticeReload, Reload, Terminate,
         Fail, PTypeOK
<1> QED BY <1>2, <1>3 DEF WorkersKnown, Running, WorkersForked, WorkersReaped

LEMMA PEnvironmentInv ==
  ASSUME PInv, Sigterm \/ Sigusr1 \/ EditFiles \/ ParentEnded \/ UNCHANGED pvars PROVE PInv'
<1> USE PreforkAssumption DEF PInv, pvars, workerVars, flagVars
<1>1. Parent \in Processes
  BY DEF Processes
<1>2. PTypeOK'
  <2>1. CASE Sigterm
    BY <1>1, <2>1 DEF Sigterm, PTypeOK
  <2>2. CASE Sigusr1
    BY <1>1, <2>2 DEF Sigusr1, PTypeOK
  <2>3. CASE EditFiles
    BY <2>3 DEF EditFiles, PTypeOK, Edits
  <2>4. CASE ParentEnded \/ UNCHANGED pvars
    BY <2>4 DEF ParentEnded, PTypeOK
  <2> QED BY <2>1, <2>2, <2>3, <2>4
<1>3. pids' = pids /\ ppc' = ppc /\ wpc' = wpc
  BY DEF Sigterm, Sigusr1, EditFiles, ParentEnded
<1> QED BY <1>2, <1>3 DEF WorkersKnown, Running, WorkersForked, WorkersReaped

LEMMA PNextInv == PInv /\ [PNext]_pvars => PInv'
BY WorkerForkInv, ParentInv, WorkerInv, PEnvironmentInv DEF PNext, ParentStep

\* Every worker that runs is held by exactly one entry of the parent's vector,
\* so none is left when the parent ends (run_prefork_server,
\* reap_exited_children, wait_for_children).
THEOREM OrphanFree == PSpec => []NoOrphans
<1>1. PInv => NoOrphans
  <2> SUFFICES ASSUME PInv PROVE NoOrphans
    OBVIOUS
  <2> USE DEF PInv
  <2>1. pids = << >> => Len(pids) = 0
    OBVIOUS
  <2>2. ppc = "ended" => Running = {}
    BY <2>1 DEF WorkersKnown, WorkersReaped, Holds
  <2> QED BY <2>2 DEF NoOrphans, WorkersKnown, Distinct, Holds
<1> QED BY <1>1, PInitInv, PNextInv, PTL DEF PSpec
-----------------------------------------------------------------------------
(* The process mode.                                                           *)

SPCs == {"term", "reload", "passwd", "access", "reap", "recv", "slot", "fork", "wait", "ended"}
CPCs == {"new", "received", "handle", "send", "forward", "exited"}
Flags == [Reqs -> BOOLEAN]

PMTypeOK ==
    /\ spc \in SPCs /\ slots \in Seq(Reqs)
    /\ cpc \in [Reqs -> CPCs] /\ snapshot \in [Reqs -> Nat]
    /\ ok \in Flags /\ forwarded \in Flags
    /\ TERM \in BOOLEAN /\ RELOAD \in BOOLEAN
    /\ loaded \in Nat /\ saved \in Nat /\ wanted \in Nat

\* The vector holds what runs, once, and no datagram that has no child yet; a
\* fork finds a free slot; who answered with 200 and has not forwarded runs on.
ChildrenKnown == \A r \in Children : Holds(slots, r)
ChildrenForked == \A r \in Reqs : Holds(slots, r) => cpc[r] \notin {"new", "received"}
WithinLimit ==
    MaxProcesses > 0 => /\ Len(slots) <= MaxProcesses
                        /\ spc = "fork" => Len(slots) < MaxProcesses
ChildrenReaped == spc = "ended" => slots = << >>
Pending == \A r \in Reqs : ok[r] => forwarded[r] \/ cpc[r] \in {"send", "forward"}
Unanswered == \A r \in Reqs : cpc[r] \in {"new", "received", "handle"} => ~ok[r]
PMInv == /\ PMTypeOK /\ ChildrenKnown /\ ChildrenForked /\ Distinct(slots)
        /\ WithinLimit /\ ChildrenReaped /\ Pending /\ Unanswered

LEMMA PMInitInv == PMInit => PMInv
<1> SUFFICES ASSUME PMInit PROVE PMInv
  OBVIOUS
<1> USE ProcessAssumption DEF PMInit
<1>1. slots \in Seq(Reqs) /\ Len(slots) = 0 /\ slots = << >>
  OBVIOUS
<1>2. PMTypeOK
  BY <1>1 DEF PMTypeOK, SPCs, CPCs, Flags
<1>3. ChildrenKnown /\ ChildrenForked /\ Distinct(slots) /\ ChildrenReaped
  BY <1>1 DEF ChildrenKnown, Children, ChildrenForked, Holds, Distinct, ChildrenReaped
<1>4. WithinLimit /\ Pending /\ Unanswered
  BY <1>1 DEF WithinLimit, Pending, Unanswered
<1> QED BY <1>2, <1>3, <1>4 DEF PMInv

\* What a reap leaves.
LEMMA ReapedHolds ==
  ASSUME slots \in Seq(Reqs)
  PROVE  /\ Reaped \in Seq(Reqs) /\ Len(Reaped) <= Len(slots)
         /\ Len(Reaped) \in Nat /\ Len(slots) \in Nat
         /\ \A r : Holds(Reaped, r) <=> Holds(slots, r) /\ r \in Reqs /\ cpc[r] # "exited"
         /\ Distinct(slots) => Distinct(Reaped)
<1> DEFINE L == {r \in Reqs : cpc[r] # "exited"}
<1>1. Sift(slots, L) \in Seq(Reqs)
  BY SiftType
<1>2. /\ Len(Sift(slots, L)) <= Len(slots)
      /\ \A r : Holds(Sift(slots, L), r) <=> Holds(slots, r) /\ r \in L
      /\ Distinct(slots) => Distinct(Sift(slots, L))
  BY SiftElements DEF SiftsWell
<1>3. Reaped = Sift(slots, L)
  BY Zenon DEF Reaped
<1> HIDE DEF L
<1> QED BY <1>1, <1>2, <1>3, LenProperties DEF L

\* The steps of the parent that leave pids and the children alone.
LEMMA LoopInv ==
  ASSUME PMInv,
         \/ TakeTerm \/ TakeReload \/ LoadPasswd \/ LoadAccess \/ RecvTimeout \/ RecvFails
         \/ ForkChildError
  PROVE  PMInv'
<1> USE DEF PMInv, childVars, signalVars, authVars
<1>1. /\ slots' = slots /\ cpc' = cpc /\ ok' = ok /\ forwarded' = forwarded
      /\ spc' \notin {"fork", "ended"} /\ spc' \in SPCs
  BY DEF TakeTerm, TakeReload, LoadPasswd, LoadAccess, RecvTimeout, RecvFails, ForkChildError, SPCs
<1>2. TERM' \in BOOLEAN /\ RELOAD' \in BOOLEAN
  BY DEF TakeTerm, TakeReload, LoadPasswd, LoadAccess, RecvTimeout, RecvFails, ForkChildError,
         FlagKept, PMTypeOK
<1>3. snapshot' = snapshot /\ loaded' \in Nat /\ saved' = saved /\ wanted' = wanted
  BY DEF TakeTerm, TakeReload, LoadPasswd, LoadAccess, RecvTimeout, RecvFails, ForkChildError,
         PMTypeOK
<1>4. PMTypeOK'
  BY <1>1, <1>2, <1>3 DEF PMTypeOK
<1> QED BY <1>1, <1>4 DEF ChildrenKnown, Children, ChildrenForked, WithinLimit, ChildrenReaped,
                          Pending, Unanswered

LEMMA ReapInv == ASSUME PMInv, ReapChildren PROVE PMInv'
<1> USE ProcessAssumption DEF PMInv, childVars, signalVars, authVars
<1>1. /\ Reaped \in Seq(Reqs) /\ Len(Reaped) <= Len(slots)
      /\ Len(Reaped) \in Nat /\ Len(slots) \in Nat
      /\ \A r : Holds(Reaped, r) <=> Holds(slots, r) /\ r \in Reqs /\ cpc[r] # "exited"
      /\ Distinct(Reaped)
  BY ReapedHolds DEF PMTypeOK
<1>2. slots' = Reaped /\ spc' = "recv" /\ cpc' = cpc /\ ok' = ok /\ forwarded' = forwarded
  BY DEF ReapChildren
<1>3. PMTypeOK'
  BY <1>1, <1>2 DEF ReapChildren, PMTypeOK, SPCs
<1>4. ChildrenKnown' /\ ChildrenForked' /\ Distinct(slots')
  BY <1>1, <1>2 DEF ChildrenKnown, Children, ChildrenForked
<1>5. WithinLimit' /\ ChildrenReaped' /\ Pending' /\ Unanswered'
  BY <1>1, <1>2 DEF WithinLimit, ChildrenReaped, Pending, Unanswered
<1> QED BY <1>3, <1>4, <1>5

LEMMA SlotInv == ASSUME PMInv, WaitForSlot PROVE PMInv'
<1> USE ProcessAssumption DEF PMInv, childVars, signalVars, authVars
<1>1. /\ Reaped \in Seq(Reqs) /\ Len(Reaped) <= Len(slots)
      /\ Len(Reaped) \in Nat /\ Len(slots) \in Nat
      /\ \A r : Holds(Reaped, r) <=> Holds(slots, r) /\ r \in Reqs /\ cpc[r] # "exited"
      /\ Distinct(Reaped)
  BY ReapedHolds DEF PMTypeOK
<1>2. /\ slots' \in {slots, Reaped} /\ spc' \in {"slot", "fork"}
      /\ cpc' = cpc /\ ok' = ok /\ forwarded' = forwarded
      /\ MaxProcesses > 0 /\ spc' = "fork" => Len(slots') < MaxProcesses
  BY DEF WaitForSlot, SlotFree
<1>3. PMTypeOK'
  BY <1>1, <1>2 DEF WaitForSlot, PMTypeOK, SPCs
<1>4. ChildrenKnown' /\ ChildrenForked' /\ Distinct(slots')
  BY <1>1, <1>2 DEF ChildrenKnown, Children, ChildrenForked
<1>5. WithinLimit' /\ ChildrenReaped' /\ Pending' /\ Unanswered'
  BY <1>1, <1>2 DEF WithinLimit, ChildrenReaped, Pending, Unanswered
<1> QED BY <1>3, <1>4, <1>5

LEMMA ReceiveInv == ASSUME PMInv, NEW r \in Reqs, Receive(r) PROVE PMInv'
<1> USE DEF PMInv, signalVars, authVars
<1>1. /\ cpc[r] = "new" /\ cpc' = [cpc EXCEPT ![r] = "received"] /\ spc' = "slot"
      /\ slots' = slots /\ ok' = ok /\ forwarded' = forwarded
  BY DEF Receive
<1>2. PMTypeOK'
  BY <1>1 DEF Receive, PMTypeOK, SPCs, CPCs
<1> QED BY <1>1, <1>2
    DEF ChildrenKnown, Children, ChildrenForked, WithinLimit, ChildrenReaped, Pending, Unanswered,
        PMTypeOK

\* A fork appends a child to a vector that did not hold it and had a slot.
LEMMA ChildForkInv == ASSUME PMInv, NEW r \in Reqs, ForkChild(r) PROVE PMInv'
<1> USE ProcessAssumption DEF PMInv, signalVars, authVars
<1>1. /\ spc = "fork" /\ cpc[r] = "received" /\ cpc' = [cpc EXCEPT ![r] = "handle"]
      /\ spc' = "term" /\ slots' = Append(slots, r) /\ ok' = ok /\ forwarded' = forwarded
  BY DEF ForkChild
<1>2. PMTypeOK'
  BY <1>1 DEF ForkChild, PMTypeOK, SPCs, CPCs
<1>3. /\ Len(Append(slots, r)) = Len(slots) + 1 /\ Len(slots) \in Nat
      /\ \A q : Holds(Append(slots, r), q) <=> Holds(slots, q) \/ q = r
      /\ Distinct(Append(slots, r)) <=> Distinct(slots) /\ ~Holds(slots, r)
  BY HoldsAppend, DistinctAppend DEF PMTypeOK
<1>4. ~Holds(slots, r)
  BY <1>1 DEF ChildrenForked
<1> DEFINE longer == Append(slots, r)
<1>5. /\ slots' = longer /\ Len(longer) = Len(slots) + 1 /\ Len(slots) \in Nat
      /\ \A q : Holds(longer, q) <=> Holds(slots, q) \/ q = r
      /\ Distinct(longer)
  BY <1>1, <1>3, <1>4
<1> HIDE DEF longer
<1>6. ChildrenKnown' /\ ChildrenForked' /\ Distinct(slots')
  BY <1>1, <1>5 DEF ChildrenKnown, Children, ChildrenForked, PMTypeOK
<1>7. WithinLimit'
  BY <1>1, <1>5 DEF WithinLimit
<1>8. ChildrenReaped' /\ Pending' /\ Unanswered'
  BY <1>1 DEF ChildrenReaped, Pending, Unanswered, PMTypeOK
<1> QED BY <1>2, <1>6, <1>7, <1>8

\* A child that is waited for has exited.
LEMMA WaitInv == ASSUME PMInv, WaitForFirst PROVE PMInv'
<1> USE ProcessAssumption DEF PMInv, childVars, signalVars, authVars
<1>1. CASE slots = << >>
  <2>1. /\ slots' = slots /\ slots' = << >> /\ spc' \in {"ended", "wait"}
        /\ cpc' = cpc /\ ok' = ok /\ forwarded' = forwarded
    BY <1>1 DEF WaitForFirst
  <2>2. PMTypeOK'
    BY <2>1 DEF WaitForFirst, PMTypeOK, SPCs
  <2> QED BY <2>1, <2>2
      DEF ChildrenKnown, Children, ChildrenForked, WithinLimit, ChildrenReaped, Pending, Unanswered
<1>2. CASE slots # << >>
  <2>1. /\ slots' = Tail(slots) /\ spc' = "wait" /\ cpc[Head(slots)] = "exited"
        /\ cpc' = cpc /\ ok' = ok /\ forwarded' = forwarded
    BY <1>2 DEF WaitForFirst, FirstExited
  <2>2. PMTypeOK'
    BY <1>2, <2>1 DEF WaitForFirst, PMTypeOK, SPCs
  <2>3. /\ \A q : Holds(slots, q) <=> Holds(Tail(slots), q) \/ q = Head(slots)
        /\ Distinct(Tail(slots)) /\ Len(Tail(slots)) = Len(slots) - 1 /\ Len(slots) \in Nat
    BY <1>2, TailElements DEF PMTypeOK
  <2> DEFINE rest == Tail(slots)  first == Head(slots)
  <2>4. /\ slots' = rest /\ Len(rest) = Len(slots) - 1 /\ cpc[first] = "exited"
        /\ \A q : Holds(slots, q) <=> Holds(rest, q) \/ q = first
        /\ Distinct(rest)
    BY <2>1, <2>3
  <2> HIDE DEF rest, first
  <2>5. ChildrenKnown' /\ ChildrenForked' /\ Distinct(slots')
    BY <2>1, <2>4 DEF ChildrenKnown, Children, ChildrenForked
  <2>6. WithinLimit'
    BY <2>1, <2>3, <2>4 DEF WithinLimit
  <2>7. ChildrenReaped' /\ Pending' /\ Unanswered'
    BY <2>1 DEF ChildrenReaped, Pending, Unanswered
  <2> QED BY <2>2, <2>5, <2>6, <2>7
<1> QED BY <1>1, <1>2

LEMMA ChildInv == ASSUME PMInv, NEW r \in Reqs, Child(r) PROVE PMInv'
<1> USE DEF PMInv, signalVars, authVars
<1>1. /\ slots' = slots /\ spc' = spc
      /\ r \in Children /\ cpc' \in [Reqs -> CPCs]
      /\ \A q \in Reqs \ {r} : cpc'[q] = cpc[q] /\ ok'[q] = ok[q] /\ forwarded'[q] = forwarded[q]
  BY DEF Child, Handle, Send, AfterSend, ForwardRequest, Children, CPCs, PMTypeOK, Flags
<1>2. ok' \in Flags /\ forwarded' \in Flags
  BY DEF Child, Handle, Send, ForwardRequest, PMTypeOK, Flags
<1>3. PMTypeOK'
  BY <1>1, <1>2 DEF Child, Handle, Send, ForwardRequest, PMTypeOK
<1>4. cpc'[r] \in {"send", "forward", "exited"}
  BY DEF Child, Handle, Send, AfterSend, ForwardRequest, PMTypeOK
<1>5. ok'[r] => forwarded'[r] \/ cpc'[r] \in {"send", "forward"}
  BY DEF Child, Handle, Send, AfterSend, ForwardRequest, PMTypeOK, Flags
<1>6. ChildrenKnown' /\ ChildrenForked'
  BY <1>1, <1>4 DEF ChildrenKnown, Children, ChildrenForked
<1> QED BY <1>1, <1>3, <1>4, <1>5, <1>6
    DEF WithinLimit, ChildrenReaped, Pending, Unanswered

LEMMA PMEnvironmentInv ==
  ASSUME PMInv, SigtermComes \/ Sigusr1Comes \/ SaveFiles \/ ServerEnded \/ UNCHANGED pmvars
  PROVE  PMInv'
<1> USE DEF PMInv, pmvars, childVars, signalVars, authVars
<1>1. /\ slots' = slots /\ cpc' = cpc /\ ok' = ok /\ forwarded' = forwarded
      /\ spc' = spc \/ spc' = "wait"
  BY DEF SigtermComes, Sigusr1Comes, SaveFiles, ServerEnded, Interrupted
<1>2. PMTypeOK'
  <2>1. CASE SigtermComes
    BY <1>1, <2>1 DEF SigtermComes, PMTypeOK, SPCs
  <2>2. CASE Sigusr1Comes
    BY <1>1, <2>2 DEF Sigusr1Comes, PMTypeOK, SPCs
  <2>3. CASE SaveFiles \/ ServerEnded \/ UNCHANGED pmvars
    BY <2>3 DEF SaveFiles, ServerEnded, PMTypeOK
  <2> QED BY <2>1, <2>2, <2>3
<1> QED BY <1>1, <1>2
    DEF ChildrenKnown, Children, ChildrenForked, WithinLimit, ChildrenReaped, Pending, Unanswered

LEMMA PMNextInv == PMInv /\ [PMNext]_pmvars => PMInv'
BY LoopInv, ReapInv, SlotInv, ReceiveInv, ChildForkInv, WaitInv, ChildInv, PMEnvironmentInv
   DEF PMNext, ParentTurn

LEMMA PMInvariant == PMSpec => []PMInv
BY PMInitInv, PMNextInv, PTL DEF PMSpec

\* No more children run than max_processes, and the parent knows each of them,
\* once (wait_for_child_slot, reap_exited_children).
THEOREM SlotsSafe == PMSpec => []SlotsBounded
<1>1. PMInv => SlotsBounded
  <2> SUFFICES ASSUME PMInv PROVE SlotsBounded
    OBVIOUS
  <2> USE ProcessAssumption DEF PMInv
  <2>1. Cardinality(Children) \in Nat /\ Cardinality(Children) <= Len(slots) /\ Len(slots) \in Nat
    BY HeldCardinality DEF ChildrenKnown, PMTypeOK
  <2> QED BY <2>1 DEF SlotsBounded, ChildrenKnown, Distinct, Holds, WithinLimit
<1> QED BY <1>1, PMInvariant, PTL

\* The parent ends only when every child has exited, and what a child answered
\* with 200 has then been forwarded (run_process_server, wait_for_children).
THEOREM ChildrenSafe == PMSpec => []ChildrenFinish
<1>1. PMInv => ChildrenFinish
  <2> SUFFICES ASSUME PMInv, spc = "ended", NEW r \in Reqs
               PROVE  cpc[r] \in {"new", "received", "exited"} /\ (ok[r] => forwarded[r])
    BY DEF ChildrenFinish
  <2> USE DEF PMInv
  <2>1. slots = << >> /\ Len(slots) = 0
    BY DEF ChildrenReaped
  <2>2. r \notin Children
    BY <2>1 DEF ChildrenKnown, Holds
  <2> QED BY <2>2 DEF Children, PMTypeOK, CPCs, Pending
<1> QED BY <1>1, PMInvariant, PTL
=============================================================================
