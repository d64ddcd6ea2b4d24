---------------------------- MODULE MessageService ----------------------------
(***************************************************************************)
(* What the private messages of the chat promise, whatever carries them: a    *)
(* message is accepted, and from then on pending until the receiver has it or *)
(* it is lost, once and for all.  While the receiver has never come, only a    *)
(* fault of a server or of its store loses messages.                          *)
(***************************************************************************)
CONSTANTS Messages,
          Faults     \* servers or their store may fail

VARIABLES status,    \* per message
          visited    \* the receiver has been connected

vars == <<status, visited>>

TypeOK == /\ status \in [Messages -> {"unsent", "pending", "delivered", "lost"}]
          /\ visited \in BOOLEAN

Init == /\ status = [m \in Messages |-> "unsent"]
        /\ visited = FALSE

Pending == {m \in Messages : status[m] = "pending"}

Accept(m) == /\ status[m] = "unsent"
             /\ status' = [status EXCEPT ![m] = "pending"]
             /\ UNCHANGED visited

Visit == /\ visited' = TRUE
         /\ UNCHANGED status

Deliver(m) == /\ status[m] = "pending" /\ visited
              /\ status' = [status EXCEPT ![m] = "delivered"]
              /\ UNCHANGED visited

\* What fails, or is thrown away, may concern several messages at once.
Lose(S) == /\ visited \/ Faults
           /\ status' = [m \in Messages |-> IF m \in S THEN "lost" ELSE status[m]]
           /\ UNCHANGED visited

Next == \/ \E m \in Messages : Accept(m) \/ Deliver(m)
        \/ Visit
        \/ \E S \in SUBSET Pending : Lose(S)

Spec == Init /\ [][Next]_vars
=============================================================================
