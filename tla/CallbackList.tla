----------------------------- MODULE CallbackList -----------------------------
(***************************************************************************)
(* What one event does to a state when several callbacks wait for it: they    *)
(* are called in the order in which they were asked for, each with the state  *)
(* that the one before has left.  The event that jQuery dispatches is one     *)
(* step, however long the list.  A loop that takes the elements of an array   *)
(* one by one into what it returns has the same form.                         *)
(***************************************************************************)
EXTENDS Integers, Sequences, TLAPS

LOCAL INSTANCE WellFoundedInduction

CONSTANT Op(_, _)   \* a state and a callback: the state after the call

Fire(state, list) ==
    LET after[i \in 0 .. Len(list)] == IF i = 0 THEN state ELSE Op(after[i - 1], list[i])
    IN  after[Len(list)]

-----------------------------------------------------------------------------
(* A property of a list's every element is shown for the first that might not  *)
(* have it: a set of natural numbers has a least element.                    *)

LEMMA Least ==
    ASSUME NEW S \in SUBSET Nat, S # {}
    PROVE  \E n \in S : \A m \in S : n <= m
<1> DEFINE R == OpToRel(<, Nat)
<1>1. IsWellFoundedOn(R, Nat)
  BY NatLessThanWellFounded
<1>2. \A m, n \in Nat : m < n => <<m, n>> \in R
  BY DEF OpToRel
<1> HIDE DEF R
<1>3. PICK n \in S : \A m \in S : <<m, n>> \notin R
  BY <1>1, WFMin
<1>4. ASSUME NEW m \in S
      PROVE  n <= m
  <2>1. m \in Nat /\ n \in Nat /\ ~(m < n)
    BY <1>2, <1>3
  <2>2. QED
    BY <2>1
<1>5. QED
  BY <1>4

\* The states between the calls are a function, however many calls there are.
LEMMA StatesExist ==
    ASSUME NEW list, Len(list) \in Nat, NEW state, NEW n \in 0 .. Len(list)
    PROVE  \E h : h = [i \in 0 .. n |-> IF i = 0 THEN state ELSE Op(h[i - 1], list[i])]
<1> DEFINE Ok(k) == \E h : h = [i \in 0 .. k |-> IF i = 0 THEN state ELSE Op(h[i - 1], list[i])]
           Bad == {k \in 0 .. Len(list) : ~Ok(k)}
<1>1. Ok(0)
  <2> DEFINE h == [i \in 0 .. 0 |-> state]
  <2>1. h = [i \in 0 .. 0 |-> IF i = 0 THEN state ELSE Op(h[i - 1], list[i])]
    OBVIOUS
  <2>2. QED
    BY <2>1
<1>2. ASSUME NEW k \in 0 .. Len(list) - 1, Ok(k)
      PROVE  Ok(k + 1)
  <2>1. PICK h : h = [i \in 0 .. k |-> IF i = 0 THEN state ELSE Op(h[i - 1], list[i])]
    BY <1>2
  <2> DEFINE g == [i \in 0 .. k + 1 |-> IF i = k + 1 THEN Op(h[k], list[k + 1]) ELSE h[i]]
  <2>2. \A i \in 0 .. k : h[i] = IF i = 0 THEN state ELSE Op(h[i - 1], list[i])
    BY <2>1
  <2>3. /\ \A i \in 0 .. k : g[i] = h[i]
        /\ g[k + 1] = Op(h[k], list[k + 1])
    OBVIOUS
  <2>4. ASSUME NEW i \in 0 .. k + 1
        PROVE  g[i] = IF i = 0 THEN state ELSE Op(g[i - 1], list[i])
    <3> HIDE DEF g
    <3>1. CASE i = k + 1
      BY <2>3, <3>1
    <3>2. CASE i \in 1 .. k
      BY <2>2, <2>3, <3>2
    <3>3. CASE i = 0
      BY <2>2, <2>3, <3>3
    <3>4. QED
      BY <3>1, <3>2, <3>3
  <2>5. g = [i \in 0 .. k + 1 |-> IF i = 0 THEN state ELSE Op(g[i - 1], list[i])]
    BY <2>4
  <2>6. QED
    BY <2>5
<1> HIDE DEF Ok
<1>3. ASSUME Bad # {}
      PROVE  FALSE
  <2>1. PICK k \in Bad : \A m \in Bad : k <= m
    BY <1>3, Least, Bad \subseteq Nat
  <2>2. k # 0
    BY <1>1
  <2>3. k - 1 \in 0 .. Len(list) - 1 /\ k - 1 \notin Bad /\ (k - 1) + 1 = k
    BY <2>1, <2>2
  <2>4. QED
    BY <1>2, <2>1, <2>3
<1>4. QED
  BY <1>3 DEF Ok

\* Fire is the last of them.
LEMMA FireSteps ==
    ASSUME NEW list, Len(list) \in Nat, NEW state
    PROVE  \E h : /\ h[0] = state
                  /\ \A i \in 1 .. Len(list) : h[i] = Op(h[i - 1], list[i])
                  /\ h[Len(list)] = Fire(state, list)
<1> DEFINE after == CHOOSE h :
              h = [i \in 0 .. Len(list) |-> IF i = 0 THEN state ELSE Op(h[i - 1], list[i])]
<1>1. after = [i \in 0 .. Len(list) |-> IF i = 0 THEN state ELSE Op(after[i - 1], list[i])]
  BY StatesExist
<1>2. Fire(state, list) = after[Len(list)]
  BY DEF Fire
<1> HIDE DEF after
<1>3. QED
  BY <1>1, <1>2

\* What every call keeps, the whole list keeps.
LEMMA FireKeeps ==
    ASSUME NEW I, NEW list, Len(list) \in Nat, NEW state \in I,
           \A x \in I, i \in 1 .. Len(list) : Op(x, list[i]) \in I
    PROVE  Fire(state, list) \in I
<1>1. PICK h : /\ h[0] = state
               /\ \A i \in 1 .. Len(list) : h[i] = Op(h[i - 1], list[i])
               /\ h[Len(list)] = Fire(state, list)
  BY FireSteps
<1> DEFINE Bad == {n \in 0 .. Len(list) : h[n] \notin I}
<1>2. ASSUME Bad # {}
      PROVE  FALSE
  <2>1. PICK n \in Bad : \A m \in Bad : n <= m
    BY <1>2, Least, Bad \subseteq Nat
  <2>2. n - 1 \in 0 .. Len(list) /\ n - 1 \notin Bad /\ n \in 1 .. Len(list)
    BY <1>1, <2>1
  <2>3. QED
    BY <1>1, <2>2
<1>3. QED
  BY <1>1, <1>2

\* What holds after each number of calls: I[0] at first, I[n] after n of them.
LEMMA FireThrough ==
    ASSUME NEW I, NEW list, Len(list) \in Nat, NEW state \in I[0],
           \A i \in 1 .. Len(list) : \A x \in I[i - 1] : Op(x, list[i]) \in I[i]
    PROVE  Fire(state, list) \in I[Len(list)]
<1>1. PICK h : /\ h[0] = state
               /\ \A i \in 1 .. Len(list) : h[i] = Op(h[i - 1], list[i])
               /\ h[Len(list)] = Fire(state, list)
  BY FireSteps
<1> DEFINE Bad == {n \in 0 .. Len(list) : h[n] \notin I[n]}
<1>2. ASSUME Bad # {}
      PROVE  FALSE
  <2>1. PICK n \in Bad : \A m \in Bad : n <= m
    BY <1>2, Least, Bad \subseteq Nat
  <2>2. n - 1 \in 0 .. Len(list) /\ n - 1 \notin Bad /\ n \in 1 .. Len(list)
    BY <1>1, <2>1
  <2>3. QED
    BY <1>1, <2>2
<1>3. QED
  BY <1>1, <1>2

\* A list of one callback is one call.
LEMMA FireOne ==
    ASSUME NEW list, Len(list) = 1, NEW state
    PROVE  Fire(state, list) = Op(state, list[1])
BY FireSteps

\* What one of the calls brings about, and the others keep, the list brings about.
LEMMA FireReaches ==
    ASSUME NEW I, NEW J, NEW list, Len(list) \in Nat, NEW state \in I,
           NEW k \in 1 .. Len(list),
           \A x \in I, i \in 1 .. Len(list) : Op(x, list[i]) \in I,
           \A x \in I : Op(x, list[k]) \in J,
           \A x \in J, i \in 1 .. Len(list) : Op(x, list[i]) \in J
    PROVE  Fire(state, list) \in J
<1>1. PICK h : /\ h[0] = state
               /\ \A i \in 1 .. Len(list) : h[i] = Op(h[i - 1], list[i])
               /\ h[Len(list)] = Fire(state, list)
  BY FireSteps
<1> DEFINE Bad == {n \in 0 .. Len(list) : h[n] \notin I}
           Late == {n \in k .. Len(list) : h[n] \notin J}
<1>2. ASSUME Bad # {}
      PROVE  FALSE
  <2>1. PICK n \in Bad : \A m \in Bad : n <= m
    BY <1>2, Least, Bad \subseteq Nat
  <2>2. n - 1 \in 0 .. Len(list) /\ n - 1 \notin Bad /\ n \in 1 .. Len(list)
    BY <1>1, <2>1
  <2>3. QED
    BY <1>1, <2>2
<1>3. h[k - 1] \in I
  BY <1>2
<1>4. h[k] \in J
  BY <1>1, <1>3
<1>5. ASSUME Late # {}
      PROVE  FALSE
  <2>1. PICK n \in Late : \A m \in Late : n <= m
    BY <1>5, Least, Late \subseteq Nat
  <2>2. n # k
    BY <1>4, <2>1
  <2>3. n - 1 \in k .. Len(list) /\ n - 1 \notin Late /\ n \in 1 .. Len(list)
    BY <2>1, <2>2
  <2>4. QED
    BY <1>1, <2>1, <2>3
<1>6. QED
  BY <1>1, <1>5

\* What the last of the calls brings about, the list brings about.
LEMMA FireLast ==
    ASSUME NEW I, NEW J, NEW list, Len(list) \in Nat \ {0}, NEW state \in I,
           \A x \in I, i \in 1 .. Len(list) : Op(x, list[i]) \in I,
           \A x \in I : Op(x, list[Len(list)]) \in J
    PROVE  Fire(state, list) \in J
<1>1. PICK h : /\ h[0] = state
               /\ \A i \in 1 .. Len(list) : h[i] = Op(h[i - 1], list[i])
               /\ h[Len(list)] = Fire(state, list)
  BY FireSteps
<1> DEFINE Bad == {n \in 0 .. Len(list) : h[n] \notin I}
<1>2. ASSUME Bad # {}
      PROVE  FALSE
  <2>1. PICK n \in Bad : \A m \in Bad : n <= m
    BY <1>2, Least, Bad \subseteq Nat
  <2>2. n - 1 \in 0 .. Len(list) /\ n - 1 \notin Bad /\ n \in 1 .. Len(list)
    BY <1>1, <2>1
  <2>3. QED
    BY <1>1, <2>2
<1>3. h[Len(list) - 1] \in I
  BY <1>2
<1>4. QED
  BY <1>1, <1>3
=============================================================================
