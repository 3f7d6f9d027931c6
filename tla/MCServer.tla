------------------------------- MODULE MCServer -------------------------------
(* Small instances of Server for TLC: accounts and an ACL that one edit of     *)
(* either file changes, and families of packets each run picks from.           *)
EXTENDS ServerLedger, TLC

CONSTANTS q1, q2, q3, d1, d2, alice, k1, k2

Two == {q1, q2}
Three == {q1, q2, q3}
Symmetric == Permutations(Reqs)

Pack(op, user, key, digests) ==
    [op |-> op, user |-> user, key |-> key, pv |-> "current", digests |-> digests]
Anon(op, digests) == Pack(op, Anonymous, NoKey, digests)
Alice(op, digests) == Pack(op, alice, k1, digests)

\* The first edit of the passwd file replaces alice's key, that of the access
\* file takes the update operations from everyone but alice.
MCAccounts == [v \in Edits |-> [u \in Users |-> IF v = 0 THEN k1 ELSE k2]]
MCAcl == [v \in AuthState |-> [u \in Names |->
    IF u = Anonymous THEN {"check", "info", "ping", "pong"} \cup
                          (IF v.access = 0 THEN Updates ELSE {})
    ELSE IF v.access = 0 THEN {"check"} ELSE Ops]]

\* Upstream gives a time for the whitelist although it counts none.
Answers == {Blank, [Blank EXCEPT !.r_count = 2, !.wl_entered = 1], NoAnswer}

UpdatePackets == {Anon("report", <<d1, d2>>), Anon("whitelist", <<d1>>),
                  Anon("check", <<d1>>)}
CheckPackets == {Anon("report", <<d1, d1>>), Anon("check", <<d1>>), Anon("info", <<d1>>),
                 Anon("whitelist", <<d1>>)}
ProgressPackets == {Alice("check", <<d1>>), Pack("report", alice, k2, <<d1>>)}
=============================================================================
