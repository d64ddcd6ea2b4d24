---------------------------- MODULE MCOnlineList ----------------------------
(* Instances of OnlineList for TLC: three users over two processes.          *)
EXTENDS OnlineList, TLC

CONSTANTS n1, n2, c1, c2, c3

NodeMixed == [c \in Channels |-> IF c = c2 THEN n2 ELSE n1]

\* The two users of one process may be exchanged.
SymUsers == Permutations({c1, c3})
=============================================================================
