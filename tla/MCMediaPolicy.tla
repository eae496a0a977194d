---- MODULE MCMediaPolicy ----
\* Two persistent criteria and one that is not; two clients.
EXTENDS MediaPolicy

CONSTANTS c1, c2, k1, k2, k3

MCMaxValue == [k \in Criteria |-> IF k = k2 THEN 2 ELSE 1]
MCWanted == [c \in Clients |-> IF c = c1 THEN k1 ELSE k3]
====
