---------------------------- MODULE MCClusterChat ----------------------------
(* Instances of ClusterChat for TLC: two processes with a queue each or one  *)
(* between them, the receiver on the first and then, or meanwhile, on the    *)
(* second, senders on both.                                                  *)
EXTENDS ClusterChat

CONSTANTS n1, n2, q1, q2, s1, s2, m1, m2, b1

QueueEach == [n \in Nodes |-> IF n = n1 THEN q1 ELSE q2]
\* Two processes of one address: they name the same queue.
QueueShared == [n \in Nodes |-> q1]
SessionEach == [s \in Sessions |-> IF s = s1 THEN n1 ELSE n2]
FromMixed == [m \in Msgs |-> IF m = m1 THEN n1 ELSE n2]
=============================================================================
