------------------------------ MODULE MCProcesses ------------------------------
(* The two ways ruzord runs as several processes, in one state machine: the    *)
(* mode is chosen at the start, the other mode's variables stay as they are.   *)
EXTENDS Prefork, ProcessMode

CONSTANTS w1, w2, r1, r2

TwoWorkers == {w1, w2}
Datagrams == {r1, r2}

VARIABLE mode

mvars == <<mode, pvars, pmvars>>

MInit == PInit /\ PMInit /\ mode \in {"prefork", "processes"}

InPrefork(Step) == mode = "prefork" /\ Step /\ UNCHANGED <<mode, pmvars>>
InProcesses(Step) == mode = "processes" /\ Step /\ UNCHANGED <<mode, pvars>>

MNext == InPrefork(PNext) \/ InProcesses(PMNext)

MFair ==
    /\ MInit /\ [][MNext]_mvars
    /\ WF_mvars(InPrefork(ParentStep))
    /\ \A w \in Workers : /\ WF_mvars(InPrefork(WorkerStep(w)))
                          /\ WF_mvars(InPrefork(Terminate(w)))
                          /\ WF_mvars(InPrefork(Reload(w)))
                          /\ WF_mvars(InPrefork(NoticeReload(w)))
    /\ WF_mvars(InProcesses(ParentTurn))
    /\ \A r \in Reqs : WF_mvars(InProcesses(Child(r)))
=============================================================================
