---- MODULE MCMediaGraph ----
\* Two filters; one client may have either, the other only the first.  A rule
\* lowers the first while the second plays.
EXTENDS MediaGraph

CONSTANTS c1, c2, c3, f1, f2

MCFilterSeq == <<f1, f2>>
MCStream == [c \in Clients |-> IF c = c1 THEN {f1} ELSE {f1, f2}]
MCMaxCommands == [c \in Clients |-> 1]
MCPolicyCommand(now) ==
    IF f2 \in now THEN [target |-> f1, cmd |-> "volume"] ELSE NULL
====
