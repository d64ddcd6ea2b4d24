----------------------------- MODULE MCGroupRooms -----------------------------
(* Instances of GroupRooms for TLC: users with a connection each.              *)
EXTENDS GroupRooms, TLC

CONSTANTS c1, c2, c3, u1, u2, u3

OwnUser == [c \in Channels |-> IF c = c1 THEN u1 ELSE IF c = c2 THEN u2 ELSE u3]

\* Groups may be exchanged, and users together with their channels.
SymUsers == {[x \in Channels \cup Users |-> IF x \in Channels THEN p[x] ELSE
                 OwnUser[p[CHOOSE c \in Channels : OwnUser[c] = x]]] :
             p \in Permutations(Channels)}
Sym == {p @@ q : p \in Permutations(Groups), q \in SymUsers}
=============================================================================
