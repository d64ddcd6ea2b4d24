----------------------------- MODULE MCHeartbeat -----------------------------
(* Instances of Heartbeat for TLC, in ticks of ten seconds.                  *)
EXTENDS Heartbeat

CONSTANTS new, old    \* a page of webapp/, a page of templates/

PingOf == [c \in Clients |-> IF c = old THEN 13 ELSE 3]
PongOf == [c \in Clients |-> IF c = old THEN 40 ELSE 4]
=============================================================================
