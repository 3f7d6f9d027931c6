------------------------------- MODULE MCRuzord -------------------------------
(* Small instances of the ruzord process.                                      *)
EXTENDS Ruzord, ServerLedger, TLC

CONSTANTS q1, q2, d1, alice, bob, k1, s1

Two == {q1, q2}
OneServer == <<s1>>
\* The servers file names the same address twice.
RepeatedServer == <<s1, s1>>
Symmetric == Permutations(Reqs)

Pack(op, user, key, digests) ==
    [op |-> op, user |-> user, key |-> key, pv |-> "current", digests |-> digests]
Anon(op, digests) == Pack(op, Anonymous, NoKey, digests)

\* alice has an account, bob has none.  An edit of the access file leaves
\* everyone a check only.
MCAccounts == [v \in Edits |-> [u \in Users |-> IF u = alice THEN k1 ELSE NoKey]]
MCAcl == [v \in AuthState |-> [u \in Names |->
    IF v.access > 0 THEN {"check"} ELSE IF u = alice THEN Ops \cup {"other"} ELSE Ops]]
\* Upstream gives a time for the whitelist although it counts none.
Answers == {Blank, [Blank EXCEPT !.r_count = 2, !.wl_entered = 1], NoAnswer}
\* Packets that change records, and one for each way a request may end without.
InlinePackets ==
    {Anon("report", <<d1, d1>>), Anon("whitelist", <<d1>>), Anon("check", <<d1>>),
     Anon("info", <<d1>>), Anon("pong", <<d1>>), Anon("other", << >>),
     Pack("report", alice, k1, <<d1>>), Pack("report", alice, NoKey, <<d1>>),
     Pack("report", bob, k1, <<d1>>), Pack("other", alice, k1, << >>)} \cup
    {Anon(op, << >>) : op \in {"ping", "pong", "check", "report"}} \cup
    {[Anon("report", <<d1>>) EXCEPT !.pv = v] : v \in {"absent", "other"}}
OneReport == {Anon("report", <<d1>>)}
=============================================================================
