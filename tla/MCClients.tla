------------------------------ MODULE MCClients ------------------------------
(* Two runs of the client on one host.                                         *)
EXTENDS Clients, TLC

CONSTANTS c1, c2, p1, p2, d1, d2, s1, s2

ServersFiles == c1 :> <<s1, s2>> @@ c2 :> <<s1>>
Symmetric == Permutations(Ports)

Cmd(op) == [op |-> op, digests |-> <<d1>>]
Line(commands, user, skew) == [commands |-> commands, user |-> user, skew |-> skew]
Pair(l1, l2) == c1 :> l1 @@ c2 :> l2
MCLines ==
    {Pair(Line(<<Cmd("report")>>, "account", 1), l) : l \in
        {Line(<<Cmd("report")>>, "account", -1), Line(<<Cmd("local_whitelist")>>, "anonymous", 0)}}
    \cup {Pair(Line(<<Cmd("check")>>, "anonymous", 0), l) : l \in
        {Line(<<Cmd("whitelist")>>, "account", 0), Line(<<Cmd("report"), Cmd("check")>>, "anonymous", 0),
         Line(<<[op |-> "local_unwhitelist", digests |-> <<d2>>]>>, "anonymous", 0)}}
    \cup {Pair(Line(<<Cmd("local_whitelist")>>, "anonymous", 0), l) : l \in
        {Line(<<[op |-> "local_unwhitelist", digests |-> <<d2>>]>>, "anonymous", 0),
         Line(<<Cmd("check")>>, "stranger", 0)}}
Nothing == << >>
==============================================================================
