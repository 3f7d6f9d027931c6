------------------------------ MODULE MCEngines ------------------------------
(* The two kinds of engine in one state machine: the records in a database     *)
(* server or in a file.  The choice is made at the start (open_database of     *)
(* src/src/server.rs); the other kind's variables stay as they are.            *)
EXTENDS Engines, FileEngines, TLC

CONSTANTS e1, e2, d1, d2

Two == {e1, e2}
Symmetric == Permutations(Sessions)

\* An upstream answer with one of its time headers, as old as can be.
OldAnswer == [Blank EXCEPT !.r_count = 1, !.r_updated = 1, !.wl_count = 2]
Job(op, digests) == [op |-> op, digests |-> digests, answer |-> OldAnswer]
MCJobs == {Job("report", <<d1, d2>>), Job("whitelist", <<d1>>), Job("set", <<d1>>), Job("get", <<d1>>)}

Up(op, digests) == [op |-> op, digests |-> digests]
MCUpdates == {Up("report", <<d1, d2>>), Up("whitelist", <<d1>>), Up("report", <<d2, d2>>)}
FirstRows == {NoRow, Junk, Foreign, RIncrement(Blank, 1), WlIncrement(Blank, 0)}
Disks == [FileDigests -> FirstRows]

VARIABLE mode

mvars == <<mode, vars, fvars>>

OtherInit ==
    \/ mode = "file" /\ FInit /\ engine = "mysql" /\ maxAge = 0
                    /\ job = [s \in Sessions |-> CHOOSE j \in Jobs : TRUE]
    \/ mode = "server" /\ kind = "gdbm" /\ age = 0 /\ FInit
                      /\ disk = [d \in FileDigests |-> NoRow]

MInit == Init /\ OtherInit

InServer(Step) == mode = "server" /\ Step /\ UNCHANGED <<mode, fvars>>
InFile(Step) == mode = "file" /\ Step /\ UNCHANGED <<mode, vars>>

MNext == InServer(Next) \/ InFile(FNext)

MSpec == MInit /\ [][MNext]_mvars
==============================================================================
