-------------------------- MODULE MCSessionRegistry --------------------------
(* Instances of SessionRegistry for TLC.                                    *)
EXTENDS SessionRegistry

CONSTANTS n1, n2, c1, c2, u1, u2

\* Connections on one process.
NodeOne == [c \in Channels |-> n1]

\* Connections of one user, on two processes.
NodeEach == [c \in Channels |-> IF c = c1 THEN n1 ELSE n2]
UserSame == [c \in Channels |-> u1]
=============================================================================
