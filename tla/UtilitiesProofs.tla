---------------------------- MODULE UtilitiesProofs ----------------------------
(***************************************************************************)
(* Machine-checked proofs about the utility classes: which user id is read    *)
(* from a request, and that the operations on dates agree with each other.    *)
(***************************************************************************)
EXTENDS MCUtilities, FiniteSetTheorems, FunctionTheorems, TLAPS

(***************************************************************************)
(* Split.                                                                   *)
(***************************************************************************)

\* s is what text has behind its first n tokens, as far as s goes.
Stands(s, text, n) ==
    n + Len(s) <= Len(text) /\ \A i \in 1 .. Len(s) : s[i] = text[n + i]

\* parts are what the first n tokens of text are cut into; pos has the place of
\* the separator behind each.
CutUpTo(text, separator, n, parts, pos) ==
    /\ pos[0] = 0 /\ pos[Len(parts)] = n + 1
    /\ \A k \in 0 .. Len(parts) : pos[k] \in 0 .. n + 1
    /\ \A j, k \in 0 .. Len(parts) : j < k => pos[j] < pos[k]
    /\ \A k \in 1 .. Len(parts) :
          /\ Len(parts[k]) = pos[k] - pos[k - 1] - 1
          /\ \A i \in 1 .. Len(parts[k]) :
                parts[k][i] = text[pos[k - 1] + i] /\ text[pos[k - 1] + i] # separator
          /\ pos[k] <= n => text[pos[k]] = separator

\* One more token leaves the parts cut at the separators so far.
LEMMA CutStep ==
    ASSUME NEW T, NEW text \in Seq(T), NEW separator, NEW n \in 1 .. Len(text),
           NEW parts \in Seq(Seq(T)), Len(parts) > 0, NEW pos,
           CutUpTo(text, separator, n - 1, parts, pos),
           NEW x, x = [token |-> text[n], separates |-> text[n] = separator]
    PROVE  /\ Cut(parts, x) \in Seq(Seq(T)) /\ Len(Cut(parts, x)) > 0
           /\ \E p : CutUpTo(text, separator, n, Cut(parts, x), p)
<1> DEFINE L == Len(parts)
           new == Cut(parts, x)
<1>1. /\ n \in Nat \ {0} /\ L \in Nat \ {0} /\ Len(text) \in Nat /\ text[n] \in T
      /\ \A k \in 1 .. L : parts[k] \in Seq(T)
  OBVIOUS
<1>2. /\ pos[0] = 0 /\ pos[L] = n
      /\ \A k \in 0 .. L : pos[k] \in 0 .. n
      /\ \A j, k \in 0 .. L : j < k => pos[j] < pos[k]
  <2>1. n - 1 + 1 = n
    BY <1>1
  <2>2. QED
    BY <2>1 DEF CutUpTo
<1>3. ASSUME NEW k \in 1 .. L
      PROVE  /\ Len(parts[k]) = pos[k] - pos[k - 1] - 1
             /\ \A i \in 1 .. Len(parts[k]) :
                   parts[k][i] = text[pos[k - 1] + i] /\ text[pos[k - 1] + i] # separator
             /\ pos[k] < n => text[pos[k]] = separator
  <2>1. pos[k] \in 0 .. n
    BY <1>1, <1>2
  <2>2. pos[k] < n => pos[k] <= n - 1
    BY <2>1, <1>1
  <2>3. QED
    BY <2>2 DEF CutUpTo
<1>4. CASE text[n] = separator
  <2> DEFINE p == [k \in 0 .. L + 1 |-> IF k = L + 1 THEN n + 1 ELSE pos[k]]
  <2>1. new = Append(parts, <<>>)
    BY <1>4 DEF Cut
  <2>2. /\ new \in Seq(Seq(T)) /\ Len(new) = L + 1
        /\ new[L + 1] = <<>> /\ \A k \in 1 .. L : new[k] = parts[k]
    <3>1. <<>> \in Seq(T)
      OBVIOUS
    <3> HIDE DEF new
    <3>2. QED
      BY <2>1, <3>1, <1>1
  <2>3. p[L + 1] = n + 1 /\ \A k \in 0 .. L : p[k] = pos[k]
    BY <1>1
  <2> HIDE DEF p, new, L
  <2>4. \A k \in 0 .. L + 1 : k = L + 1 \/ k \in 0 .. L
    BY <1>1
  <2>5. ASSUME NEW k \in 0 .. L + 1
        PROVE  p[k] \in 0 .. n + 1
    <3>1. CASE k = L + 1
      BY <1>1, <2>3, <3>1
    <3>2. CASE k \in 0 .. L
      <4>1. p[k] \in 0 .. n
        BY <1>2, <2>3, <3>2
      <4>2. QED
        BY <1>1, <4>1
    <3>3. QED
      BY <2>4, <3>1, <3>2
  <2>6. ASSUME NEW j \in 0 .. L + 1, NEW k \in 0 .. L + 1, j < k
        PROVE  p[j] < p[k]
    <3>1. j \in 0 .. L /\ p[j] = pos[j] /\ pos[j] \in 0 .. n
      BY <1>1, <1>2, <2>3, <2>6
    <3>2. CASE k = L + 1
      BY <1>1, <2>3, <3>1, <3>2
    <3>3. CASE k \in 0 .. L
      BY <1>2, <2>3, <2>6, <3>1, <3>3
    <3>4. QED
      BY <2>4, <3>2, <3>3
  <2>7. ASSUME NEW k \in 1 .. L + 1
        PROVE  /\ Len(new[k]) = p[k] - p[k - 1] - 1
               /\ \A i \in 1 .. Len(new[k]) :
                     new[k][i] = text[p[k - 1] + i] /\ text[p[k - 1] + i] # separator
               /\ p[k] <= n => text[p[k]] = separator
    <3>1. CASE k = L + 1
      <4>1. k - 1 = L /\ L \in 0 .. L
        BY <1>1, <3>1
      <4>2. p[k] = n + 1 /\ p[k - 1] = n /\ new[k] = <<>>
        BY <4>1, <3>1, <2>2, <2>3, <1>2
      <4>3. Len(new[k]) = 0
        BY <4>2
      <4>4. QED
        BY <4>2, <4>3, <1>1
    <3>2. CASE k \in 1 .. L
      <4>1. k \in 0 .. L /\ k - 1 \in 0 .. L
        BY <1>1, <3>2
      <4>2. p[k] = pos[k] /\ p[k - 1] = pos[k - 1] /\ new[k] = parts[k] /\ pos[k] \in 0 .. n
        BY <4>1, <3>2, <2>2, <2>3, <1>2
      <4>3. pos[k] <= n => text[pos[k]] = separator
        BY <4>2, <1>3, <1>4, <1>1, <3>2
      <4>4. QED
        BY <4>2, <4>3, <1>3, <3>2
    <3>3. QED
      BY <3>1, <3>2, <1>1
  <2>8. p[0] = 0
    BY <1>1, <1>2, <2>3
  <2>9. CutUpTo(text, separator, n, new, p)
    BY <2>2, <2>3, <2>5, <2>6, <2>7, <2>8 DEF CutUpTo
  <2>10. Len(new) > 0
    BY <2>2, <1>1
  <2>11. QED
    BY <2>2, <2>9, <2>10 DEF new
<1>5. CASE text[n] # separator
  <2> DEFINE p == [k \in 0 .. L |-> IF k = L THEN n + 1 ELSE pos[k]]
             last == Append(parts[L], text[n])
  <2>1. new = [parts EXCEPT ![L] = last]
    BY <1>5 DEF Cut
  <2>2. parts[L] \in Seq(T)
    BY <1>1
  <2>3. /\ last \in Seq(T) /\ Len(last) = Len(parts[L]) + 1
        /\ last[Len(parts[L]) + 1] = text[n]
        /\ \A i \in 1 .. Len(parts[L]) : last[i] = parts[L][i]
    BY <1>1, <2>2
  <2> HIDE DEF last
  <2>4. /\ new \in Seq(Seq(T)) /\ Len(new) = L
        /\ new[L] = last /\ \A k \in 1 .. L - 1 : new[k] = parts[k]
    <3> HIDE DEF new
    <3>1. QED
      BY <2>1, <2>3, <1>1
  <2>5. p[L] = n + 1 /\ \A k \in 0 .. L - 1 : p[k] = pos[k]
    BY <1>1
  <2> HIDE DEF p, new, L
  <2>6. \A k \in 0 .. L : k = L \/ k \in 0 .. L - 1
    BY <1>1
  <2>7. ASSUME NEW k \in 0 .. L
        PROVE  p[k] \in 0 .. n + 1
    <3>1. CASE k = L
      BY <1>1, <2>5, <3>1
    <3>2. CASE k \in 0 .. L - 1
      <4>1. p[k] \in 0 .. n
        BY <1>2, <2>5, <3>2
      <4>2. QED
        BY <1>1, <4>1
    <3>3. QED
      BY <2>6, <3>1, <3>2
  <2>8. ASSUME NEW j \in 0 .. L, NEW k \in 0 .. L, j < k
        PROVE  p[j] < p[k]
    <3>1. j \in 0 .. L - 1 /\ p[j] = pos[j] /\ pos[j] \in 0 .. n
      BY <1>1, <1>2, <2>5, <2>8
    <3>2. CASE k = L
      BY <1>1, <2>5, <3>1, <3>2
    <3>3. CASE k \in 0 .. L - 1
      <4>1. k \in 0 .. L /\ j \in 0 .. L
        OBVIOUS
      <4>2. pos[j] < pos[k] /\ p[k] = pos[k]
        BY <1>2, <2>5, <2>8, <3>3, <4>1
      <4>3. QED
        BY <3>1, <4>2
    <3>4. QED
      BY <2>6, <3>2, <3>3
  <2>9. ASSUME NEW k \in 1 .. L
        PROVE  /\ Len(new[k]) = p[k] - p[k - 1] - 1
               /\ \A i \in 1 .. Len(new[k]) :
                     new[k][i] = text[p[k - 1] + i] /\ text[p[k - 1] + i] # separator
               /\ p[k] <= n => text[p[k]] = separator
    <3>0. k - 1 \in 0 .. L - 1 /\ k \in 0 .. L /\ p[k - 1] = pos[k - 1] /\ k - 1 \in 0 .. L
      BY <1>1, <2>5
    <3>1. CASE k = L
      <4>1. p[k] = n + 1 /\ new[k] = last /\ pos[k] = n
        BY <2>4, <2>5, <3>1, <1>2
      <4>2. pos[k - 1] \in 0 .. n /\ Len(parts[L]) = n - pos[k - 1] - 1
        BY <4>1, <3>0, <3>1, <1>2, <1>3
      <4>3. Len(new[k]) = p[k] - p[k - 1] - 1 /\ ~(p[k] <= n)
        <5>1. Len(new[k]) = Len(parts[L]) + 1
          <6>1. new[k] = last /\ Len(last) = Len(parts[L]) + 1
            BY <4>1, <2>3
          <6>2. QED
            BY <6>1
        <5>2. /\ n \in Int /\ pos[k - 1] \in Int
              /\ Len(new[k]) = (n - pos[k - 1] - 1) + 1
              /\ p[k] = n + 1 /\ p[k - 1] = pos[k - 1]
          BY <5>1, <4>1, <4>2, <3>0, <1>1
        <5>3. PICK m \in Int, q \in Int, u \in Int : m = n /\ q = pos[k - 1] /\ u = n + 1
          BY <1>1, <5>2
        <5>4. Len(new[k]) = (m - q - 1) + 1 /\ p[k] = u /\ p[k - 1] = q /\ n = m /\ u = m + 1
          BY <5>2, <5>3
        <5>5. (m - q - 1) + 1 = u - q - 1 /\ ~(u <= m)
          BY <5>4
        <5>6. QED
          BY <5>4, <5>5
      <4>4. ASSUME NEW i \in 1 .. Len(new[k])
            PROVE  new[k][i] = text[p[k - 1] + i] /\ text[p[k - 1] + i] # separator
        <5>1. CASE i = Len(parts[L]) + 1
          <6>1. p[k - 1] + i = n
            <7>1. PICK q \in Int, m \in Int : q = pos[k - 1] /\ m = n
              BY <4>2, <1>1
            <7>2. i = (m - q - 1) + 1 /\ p[k - 1] = q
              BY <4>2, <3>0, <5>1, <7>1
            <7>3. q + i = m
              BY <7>2
            <7>4. QED
              BY <7>1, <7>2, <7>3
          <6>2. new[k] = last
            BY <4>1
          <6>3. last[i] = text[n]
            BY <5>1, <2>3
          <6>4. QED
            BY <6>1, <6>2, <6>3, <1>5
        <5>2. CASE i # Len(parts[L]) + 1
          <6>1. i \in 1 .. Len(parts[L])
            <7>1. PICK l \in Nat : l = Len(parts[L])
              BY <2>2
            <7>2. new[k] = last
              BY <4>1
            <7>3. Len(last) = l + 1
              BY <7>1, <2>3
            <7>4. i \in 1 .. l + 1 /\ i # l + 1
              BY <7>1, <7>2, <7>3, <5>2
            <7>5. i \in 1 .. l
              BY <7>4
            <7>6. QED
              BY <7>1, <7>5
          <6>2. QED
            BY <6>1, <4>1, <3>0, <3>1, <2>3, <1>3
        <5>3. QED
          BY <5>1, <5>2
      <4>5. QED
        BY <4>3, <4>4
    <3>2. CASE k # L
      <4>1. k \in 1 .. L - 1
        BY <3>2, <1>1
      <4>2. p[k] = pos[k] /\ new[k] = parts[k]
        <5>1. k \in 0 .. L - 1
          BY <4>1, <1>1
        <5>2. p[k] = pos[k]
          BY <5>1, <2>5
        <5>3. new[k] = parts[k]
          BY <4>1, <2>4
        <5>4. QED
          BY <5>2, <5>3
      <4>3. L \in 0 .. L /\ k < L
        BY <4>1, <1>1
      <4>4. pos[k] < pos[L] /\ pos[k] \in 0 .. n
        BY <4>3, <3>0, <1>2
      <4>5. pos[k] < n
        BY <4>4, <1>2
      <4>6. QED
        BY <4>2, <4>5, <3>0, <1>3
    <3>3. QED
      BY <3>1, <3>2
  <2>10. p[0] = 0
    BY <1>1, <1>2, <2>5
  <2>11. CutUpTo(text, separator, n, new, p)
    BY <2>4, <2>5, <2>7, <2>8, <2>9, <2>10 DEF CutUpTo
  <2>12. QED
    BY <2>4, <2>11, <1>1 DEF new
<1>6. QED
  BY <1>4, <1>5

\* Parts cuts the whole text at its separators.
LEMMA PartsCut ==
    ASSUME NEW T, NEW text \in Seq(T), NEW separator
    PROVE  /\ Parts(text, separator) \in Seq(Seq(T)) /\ Len(Parts(text, separator)) > 0
           /\ \E pos : CutUpTo(text, separator, Len(text), Parts(text, separator), pos)
<1> DEFINE list == [i \in DOMAIN text |-> [token |-> text[i], separates |-> text[i] = separator]]
           I == [n \in 0 .. Len(text) |->
                    {parts \in Seq(Seq(T)) : Len(parts) > 0
                                             /\ \E pos : CutUpTo(text, separator, n, parts, pos)}]
<1>1. Len(text) \in Nat /\ Len(list) = Len(text)
  OBVIOUS
<1>2. << <<>> >> \in I[0]
  <2> DEFINE s == << <<>> >>
             pos == [k \in 0 .. 1 |-> k]
  <2>1. s \in Seq(Seq(T)) /\ Len(s) = 1 /\ s[1] = <<>>
    OBVIOUS
  <2>2. pos[0] = 0 /\ pos[1] = 1 /\ 0 \in 0 .. Len(text)
    BY <1>1
  <2> HIDE DEF pos, s
  <2>3. CutUpTo(text, separator, 0, s, pos)
    <3>1. Len(s[1]) = 0
      BY <2>1
    <3>2. \A k \in 0 .. Len(s) : k = 0 \/ k = 1
      BY <2>1
    <3>3. \A k \in 1 .. Len(s) : k = 1 /\ k - 1 = 0
      BY <2>1
    <3>4. QED
      BY <2>1, <2>2, <3>1, <3>2, <3>3 DEF CutUpTo
  <2>4. QED
    BY <2>1, <2>2, <2>3 DEF s
<1>3. ASSUME NEW n \in 1 .. Len(list), NEW parts \in I[n - 1]
      PROVE  Cut(parts, list[n]) \in I[n]
  <2>1. n \in 1 .. Len(text) /\ n - 1 \in 0 .. Len(text) /\ n \in 0 .. Len(text)
    BY <1>1
  <2>2. PICK pos : CutUpTo(text, separator, n - 1, parts, pos)
    BY <2>1
  <2>3. parts \in Seq(Seq(T)) /\ Len(parts) > 0
    BY <2>1
  <2>4. list[n] = [token |-> text[n], separates |-> text[n] = separator]
    BY <2>1
  <2>5. /\ Cut(parts, list[n]) \in Seq(Seq(T)) /\ Len(Cut(parts, list[n])) > 0
        /\ \E p : CutUpTo(text, separator, n, Cut(parts, list[n]), p)
    <3> HIDE DEF list
    <3>1. QED
      BY <2>1, <2>2, <2>3, <2>4, CutStep
  <2>6. QED
    <3> DEFINE new == Cut(parts, list[n])
    <3> HIDE DEF list
    <3>1. new \in Seq(Seq(T)) /\ Len(new) > 0 /\ \E p : CutUpTo(text, separator, n, new, p)
      BY <2>5
    <3> HIDE DEF new
    <3>2. new \in I[n]
      BY <2>1, <3>1
    <3>3. QED
      BY <3>2 DEF new
<1> HIDE DEF I
<1>4. Parts(text, separator) \in I[Len(text)]
  <2>1. Scan!Fire(<< <<>> >>, list) \in I[Len(list)]
    <3> HIDE DEF list
    <3>1. QED
      BY <1>1, <1>2, <1>3, Scan!FireThrough
  <2>2. QED
    BY <2>1, <1>1 DEF Parts
<1>5. QED
  BY <1>1, <1>4 DEF I

(***************************************************************************)
(* The parts of a text: what Split gives is cut at separators, and behind the *)
(* last part there are only separators.                                      *)
(***************************************************************************)
Apart(text, separator, parts, pos) ==
    /\ pos[0] = 0
    /\ \A k \in 0 .. Len(parts) : pos[k] \in 0 .. Len(text) + 1
    /\ \A j, k \in 0 .. Len(parts) : j < k => pos[j] < pos[k]
    /\ \A k \in 1 .. Len(parts) :
          /\ Len(parts[k]) = pos[k] - pos[k - 1] - 1
          /\ \A i \in 1 .. Len(parts[k]) :
                parts[k][i] = text[pos[k - 1] + i] /\ text[pos[k - 1] + i] # separator
          /\ pos[k] <= Len(text) => text[pos[k]] = separator
    /\ \A i \in pos[Len(parts)] + 1 .. Len(text) : text[i] = separator

\* Every place of a text is in a part, ends one or is behind the last.
LEMMA InPart ==
    ASSUME NEW pos, NEW L \in Nat, pos[0] = 0, \A k \in 0 .. L : pos[k] \in Nat,
           NEW i \in Nat \ {0}, i <= pos[L]
    PROVE  \E k \in 1 .. L : pos[k - 1] < i /\ i <= pos[k]
<1> DEFINE S == {k \in 0 .. L : i <= pos[k]}
<1>1. L \in S /\ S \subseteq Nat
  OBVIOUS
<1>2. PICK k \in S : \A m \in S : k <= m
  BY <1>1, Scan!Least
<1>3. k # 0 /\ k \in 0 .. L
  OBVIOUS
<1>4. k \in 1 .. L /\ k - 1 \in 0 .. L /\ k - 1 \notin S
  BY <1>2, <1>3
<1>5. QED
  BY <1>4

\* The last full part: what is behind it is empty.
LEMMA LastFull ==
    ASSUME NEW parts, Len(parts) \in Nat
    PROVE  \E n \in 0 .. Len(parts) : /\ n = 0 \/ parts[n] # <<>>
                                      /\ \A i \in n + 1 .. Len(parts) : parts[i] = <<>>
<1> DEFINE S == {n \in 0 .. Len(parts) : \A i \in n + 1 .. Len(parts) : parts[i] = <<>>}
<1>1. Len(parts) \in S /\ S \subseteq Nat
  OBVIOUS
<1>2. PICK n \in S : \A m \in S : n <= m
  BY <1>1, Scan!Least
<1>3. CASE n = 0
  BY <1>3
<1>4. CASE n # 0
  <2>1. n \in 1 .. Len(parts) /\ n - 1 \in 0 .. Len(parts) /\ n - 1 \notin S
    BY <1>2, <1>4
  <2>2. PICK i \in (n - 1) + 1 .. Len(parts) : parts[i] # <<>>
    BY <2>1
  <2>3. \A j \in n + 1 .. Len(parts) : parts[j] = <<>>
    OBVIOUS
  <2>4. i = n
    BY <2>1, <2>2, <2>3
  <2>5. QED
    BY <2>1, <2>2, <2>3, <2>4
<1>5. QED
  BY <1>3, <1>4

\* What Split gives, of any text.
LEMMA SplitApart ==
    ASSUME NEW T, NEW text \in Seq(T), NEW separator
    PROVE  /\ Split(text, separator) \in Seq(Seq(T))
           /\ \E pos : Apart(text, separator, Split(text, separator), pos)
<1> DEFINE parts == Parts(text, separator)
           n == CHOOSE m \in 0 .. Len(parts) :
                    /\ m = 0 \/ parts[m] # <<>>
                    /\ \A i \in m + 1 .. Len(parts) : parts[i] = <<>>
<1>1. CASE \A i \in DOMAIN text : text[i] # separator
  <2> DEFINE whole == <<text>>
             pos == [k \in 0 .. 1 |-> IF k = 0 THEN 0 ELSE Len(text) + 1]
  <2>1. Split(text, separator) = whole
    BY <1>1 DEF Split
  <2>2. /\ whole \in Seq(Seq(T)) /\ Len(whole) = 1 /\ whole[1] = text
        /\ pos[0] = 0 /\ pos[1] = Len(text) + 1 /\ Len(text) \in Nat
    OBVIOUS
  <2> HIDE DEF whole, pos
  <2>3. /\ \A k \in 0 .. Len(whole) : k = 0 \/ k = 1
        /\ \A k \in 1 .. Len(whole) : k = 1 /\ k - 1 = 0
    BY <2>2
  <2>4. \A i \in 1 .. Len(text) : 0 + i = i /\ text[i] # separator
    BY <1>1
  <2>5. Apart(text, separator, whole, pos)
    BY <2>2, <2>3, <2>4 DEF Apart
  <2>6. QED
    BY <2>1, <2>2, <2>5
<1>2. CASE ~\A i \in DOMAIN text : text[i] # separator
  <2> DEFINE full == SubSeq(parts, 1, n)
  <2>1. Split(text, separator) = full
    BY <1>2 DEF Split
  <2>2. parts \in Seq(Seq(T)) /\ Len(parts) \in Nat \ {0} /\ Len(text) \in Nat
    BY PartsCut
  <2>3. PICK pos : CutUpTo(text, separator, Len(text), parts, pos)
    BY PartsCut
  <2> HIDE DEF parts
  <2>4. /\ n \in 0 .. Len(parts)
        /\ \A i \in n + 1 .. Len(parts) : parts[i] = <<>>
    BY <2>2, LastFull
  <2> HIDE DEF n
  <2>5. /\ full \in Seq(Seq(T)) /\ Len(full) = n
        /\ \A k \in 1 .. n : full[k] = parts[k]
    BY <2>2, <2>4
  <2> HIDE DEF full
  <2>6. ASSUME NEW i \in pos[n] + 1 .. Len(text)
        PROVE  text[i] = separator
    <3>1. /\ pos[0] = 0 /\ pos[Len(parts)] = Len(text) + 1
          /\ \A k \in 0 .. Len(parts) : pos[k] \in Nat
      BY <2>2, <2>3 DEF CutUpTo
    <3>2. pos[n] \in Nat
      BY <3>1, <2>4
    <3>3. i \in Nat \ {0} /\ i <= pos[Len(parts)] /\ i <= Len(text) /\ pos[n] < i
      BY <3>1, <3>2, <2>2
    <3>4. PICK k \in 1 .. Len(parts) : pos[k - 1] < i /\ i <= pos[k]
      BY <3>1, <3>3, <2>2, InPart
    <3>5. k > n
      <4>1. SUFFICES ASSUME k <= n PROVE FALSE
        BY <2>4
      <4>2. pos[k] <= pos[n]
        <5>1. k \in 0 .. Len(parts) /\ n \in 0 .. Len(parts) /\ pos[k] \in Nat
          BY <3>1, <2>4, <2>2
        <5>2. CASE k < n
          <6>1. pos[k] < pos[n]
            BY <5>1, <5>2, <2>3 DEF CutUpTo
          <6>2. QED
            BY <6>1, <5>1, <3>2
        <5>3. CASE k = n
          BY <5>3, <3>2
        <5>4. QED
          BY <5>2, <5>3, <5>1, <4>1
      <4>3. QED
        BY <4>2, <3>1, <3>2, <3>3, <3>4
    <3>6. k \in n + 1 .. Len(parts)
      BY <3>5, <2>4, <2>2
    <3>7. Len(parts[k]) = 0
      BY <3>6, <2>4
    <3>8. pos[k] = pos[k - 1] + 1
      <4>1. k \in 0 .. Len(parts) /\ k - 1 \in 0 .. Len(parts)
        BY <2>2
      <4>2. pos[k] \in Nat /\ pos[k - 1] \in Nat
        BY <4>1, <3>1
      <4>3. Len(parts[k]) = pos[k] - pos[k - 1] - 1
        BY <2>3 DEF CutUpTo
      <4>4. QED
        BY <4>2, <4>3, <3>7
    <3>9. i = pos[k]
      BY <3>8, <3>4, <3>3, <3>1
    <3>10. QED
      BY <3>9, <3>3, <2>3 DEF CutUpTo
  <2>7. Apart(text, separator, full, pos)
    <3>1. 0 .. n \subseteq 0 .. Len(parts) /\ 1 .. n \subseteq 1 .. Len(parts)
      BY <2>4, <2>2
    <3>2. /\ pos[0] = 0
          /\ \A k \in 0 .. n : pos[k] \in 0 .. Len(text) + 1
          /\ \A j, k \in 0 .. n : j < k => pos[j] < pos[k]
      BY <3>1, <2>3 DEF CutUpTo
    <3>3. ASSUME NEW k \in 1 .. n
          PROVE  /\ Len(full[k]) = pos[k] - pos[k - 1] - 1
                 /\ \A i \in 1 .. Len(full[k]) :
                       full[k][i] = text[pos[k - 1] + i] /\ text[pos[k - 1] + i] # separator
                 /\ pos[k] <= Len(text) => text[pos[k]] = separator
      <4>1. k \in 1 .. Len(parts) /\ full[k] = parts[k]
        BY <3>1, <2>5
      <4>2. QED
        BY <4>1, <2>3 DEF CutUpTo
    <3>4. Len(full) = n
      BY <2>5
    <3>5. QED
      BY <3>2, <3>3, <3>4, <2>6 DEF Apart
  <2>8. QED
    BY <2>1, <2>5, <2>7
<1>3. QED
  BY <1>1, <1>2

(***************************************************************************)
(* The loop of urlSplit.                                                    *)
(***************************************************************************)
\* A name has the value of the last pair it is in, and none if it is in none.
LastWins(pairs, n, params, name) ==
    /\ name \in DOMAIN params =>
          \E k \in 1 .. n : pairs[k][1] = name /\ params[name] = Value(pairs[k])
    /\ \A k \in 1 .. n :
          pairs[k][1] = name /\ (\A j \in k + 1 .. n : pairs[j][1] # name) =>
              name \in DOMAIN params /\ params[name] = Value(pairs[k])

\* One round of the loop.
LEMMA PutStep ==
    ASSUME NEW pairs, NEW n \in Nat \ {0}, NEW params, NEW name,
           LastWins(pairs, n - 1, params, name)
    PROVE  LastWins(pairs, n, put(params, pairs[n]), name)
<1> DEFINE new == put(params, pairs[n])
<1>1. /\ DOMAIN new = DOMAIN params \cup {pairs[n][1]}
      /\ \A x \in DOMAIN new : new[x] = IF x = pairs[n][1] THEN Value(pairs[n]) ELSE params[x]
  BY DEF put
<1> HIDE DEF new
<1>2. \A k \in 1 .. n : k = n \/ k \in 1 .. n - 1
  OBVIOUS
<1>3. CASE name = pairs[n][1]
  <2>1. name \in DOMAIN new /\ new[name] = Value(pairs[n]) /\ n \in 1 .. n
    BY <1>1, <1>3
  <2>2. ASSUME NEW k \in 1 .. n, \A j \in k + 1 .. n : pairs[j][1] # name
        PROVE  k = n
    <3>1. k < n => n \in k + 1 .. n
      OBVIOUS
    <3>2. QED
      BY <2>2, <3>1, <1>3
  <2>3. LastWins(pairs, n, new, name)
    BY <2>1, <2>2, <1>3 DEF LastWins
  <2>4. QED
    BY <2>3 DEF new
<1>4. CASE name # pairs[n][1]
  <2>1. /\ name \in DOMAIN new <=> name \in DOMAIN params
        /\ name \in DOMAIN params => new[name] = params[name]
    BY <1>1, <1>4
  <2>2. name \in DOMAIN new =>
           \E k \in 1 .. n : pairs[k][1] = name /\ new[name] = Value(pairs[k])
    <3>1. 1 .. n - 1 \subseteq 1 .. n
      OBVIOUS
    <3>2. QED
      BY <2>1, <3>1 DEF LastWins
  <2>3. ASSUME NEW k \in 1 .. n, pairs[k][1] = name, \A j \in k + 1 .. n : pairs[j][1] # name
        PROVE  name \in DOMAIN new /\ new[name] = Value(pairs[k])
    <3>1. k \in 1 .. n - 1
      BY <2>3, <1>2, <1>4
    <3>2. \A j \in k + 1 .. n - 1 : pairs[j][1] # name
      BY <2>3
    <3>3. QED
      BY <2>1, <2>3, <3>1, <3>2 DEF LastWins
  <2>4. LastWins(pairs, n, new, name)
    BY <2>2, <2>3 DEF LastWins
  <2>5. QED
    BY <2>4 DEF new
<1>5. QED
  BY <1>3, <1>4

\* The whole loop.
LEMMA PutsLast ==
    ASSUME NEW pairs, Len(pairs) \in Nat, NEW name
    PROVE  LastWins(pairs, Len(pairs), Puts!Fire(NoParams, pairs), name)
<1> DEFINE N == {pairs[k][1] : k \in 1 .. Len(pairs)}
           V == {Value(pairs[k]) : k \in 1 .. Len(pairs)}
           Params == UNION {[S -> V] : S \in SUBSET N}
           I == [n \in 0 .. Len(pairs) |-> {params \in Params : LastWins(pairs, n, params, name)}]
<1>1. NoParams \in I[0]
  <2>1. NoParams \in [{} -> V] /\ DOMAIN NoParams = {}
    BY DEF NoParams
  <2>2. {} \in SUBSET N
    OBVIOUS
  <2>3. NoParams \in Params
    BY <2>1, <2>2
  <2>4. LastWins(pairs, 0, NoParams, name)
    BY <2>1 DEF LastWins
  <2> HIDE DEF Params
  <2>5. QED
    BY <2>3, <2>4
<1>2. ASSUME NEW i \in 1 .. Len(pairs), NEW params \in I[i - 1]
      PROVE  put(params, pairs[i]) \in I[i]
  <2>1. i - 1 \in 0 .. Len(pairs) /\ i \in 0 .. Len(pairs) /\ i \in Nat \ {0}
    OBVIOUS
  <2>2. params \in Params /\ LastWins(pairs, i - 1, params, name)
    <3> HIDE DEF Params
    <3>1. QED
      BY <2>1
  <2>3. LastWins(pairs, i, put(params, pairs[i]), name)
    BY <2>1, <2>2, PutStep
  <2>4. put(params, pairs[i]) \in Params
    <3>1. PICK S \in SUBSET N : params \in [S -> V]
      BY <2>2
    <3>2. pairs[i][1] \in N /\ Value(pairs[i]) \in V
      OBVIOUS
    <3> HIDE DEF N, V
    <3>3. S \cup {pairs[i][1]} \in SUBSET N
      BY <3>2
    <3>4. put(params, pairs[i]) \in [S \cup {pairs[i][1]} -> V]
      BY <3>1, <3>2 DEF put
    <3>5. QED
      BY <3>3, <3>4
  <2> HIDE DEF Params
  <2>5. QED
    BY <2>1, <2>3, <2>4
<1> HIDE DEF I
<1>3. Puts!Fire(NoParams, pairs) \in I[Len(pairs)]
  BY <1>1, <1>2, Puts!FireThrough
<1>4. QED
  BY <1>3 DEF I

(***************************************************************************)
(* What the handler reads.                                                  *)
(***************************************************************************)
LEMMA PartStands ==
    ASSUME NEW T, NEW text \in Seq(T), NEW separator, NEW parts \in Seq(Seq(T)), NEW pos,
           Apart(text, separator, parts, pos), NEW k \in 1 .. Len(parts)
    PROVE  /\ parts[k] \in Seq(T) /\ Len(parts[k]) \in Nat
           /\ pos[k - 1] \in 0 .. Len(text) /\ pos[k] \in 1 .. Len(text) + 1
           /\ pos[k - 1] < pos[k] /\ Len(parts[k]) = pos[k] - pos[k - 1] - 1
           /\ Stands(parts[k], text, pos[k - 1])
<1>1. /\ k \in 0 .. Len(parts) /\ k - 1 \in 0 .. Len(parts) /\ k - 1 < k
      /\ parts[k] \in Seq(T) /\ Len(parts[k]) \in Nat /\ Len(text) \in Nat
  OBVIOUS
<1>2. /\ pos[k - 1] < pos[k] /\ pos[k] \in 0 .. Len(text) + 1
      /\ pos[k - 1] \in 0 .. Len(text) + 1
      /\ Len(parts[k]) = pos[k] - pos[k - 1] - 1
      /\ \A i \in 1 .. Len(parts[k]) : parts[k][i] = text[pos[k - 1] + i]
  BY <1>1 DEF Apart
<1>3. pos[k - 1] \in 0 .. Len(text) /\ pos[k] \in 1 .. Len(text) + 1
  <2>1. PICK m \in Nat, a \in Int, b \in Int : m = Len(text) /\ a = pos[k - 1] /\ b = pos[k]
    BY <1>1, <1>2
  <2>2. a < b /\ a \in 0 .. m + 1 /\ b \in 0 .. m + 1
    BY <1>2, <2>1
  <2>3. a \in 0 .. m /\ b \in 1 .. m + 1
    BY <2>2
  <2>4. QED
    BY <2>1, <2>3
<1>4. pos[k - 1] + Len(parts[k]) <= Len(text)
  <2>1. PICK m \in Nat, a \in Int, b \in Int : m = Len(text) /\ a = pos[k - 1] /\ b = pos[k]
    BY <1>1, <1>2
  <2>2. Len(parts[k]) = b - a - 1 /\ b <= m + 1
    BY <1>2, <2>1
  <2>3. a + (b - a - 1) <= m
    BY <2>2
  <2>4. QED
    BY <2>1, <2>2, <2>3
<1>5. QED
  BY <1>1, <1>2, <1>3, <1>4 DEF Stands

LEMMA StandsDeeper ==
    ASSUME NEW T, NEW s \in Seq(T), NEW t \in Seq(T), NEW u \in Seq(T),
           NEW m \in Nat, NEW n \in Nat, Stands(s, t, m), Stands(t, u, n)
    PROVE  Stands(s, u, n + m)
<1>1. Len(s) \in Nat /\ Len(t) \in Nat /\ Len(u) \in Nat
  OBVIOUS
<1>2. (n + m) + Len(s) <= Len(u)
  BY <1>1 DEF Stands
<1>3. ASSUME NEW i \in 1 .. Len(s)
      PROVE  s[i] = u[(n + m) + i]
  <2>1. m + i \in 1 .. Len(t) /\ n + (m + i) = (n + m) + i
    BY <1>1 DEF Stands
  <2>2. s[i] = t[m + i] /\ t[m + i] = u[n + (m + i)]
    BY <2>1 DEF Stands
  <2>3. QED
    BY <2>1, <2>2
<1>4. QED
  BY <1>2, <1>3 DEF Stands

LEMMA Slice ==
    ASSUME NEW T, NEW s \in Seq(T), NEW q \in Seq(T), NEW m \in Nat,
           m + Len(s) <= Len(q), \A j \in 1 .. Len(s) : s[j] = q[m + j]
    PROVE  s = SubSeq(q, m + 1, m + Len(s))
<1> DEFINE c == SubSeq(q, m + 1, m + Len(s))
<1>1. Len(s) \in Nat /\ Len(q) \in Nat
  OBVIOUS
<1>2. /\ c \in Seq(T) /\ Len(c) = Len(s)
      /\ \A j \in 1 .. Len(s) : c[j] = q[m + j]
  BY <1>1
<1> HIDE DEF c
<1>3. c = s
  BY <1>2
<1>4. QED
  BY <1>3 DEF c

LEMMA OneEarlier ==
    ASSUME NEW T, NEW s \in Seq(T), NEW q \in Seq(T), NEW u \in Seq(T), NEW b \in Nat \ {0},
           Len(u) = Len(q) + 1, \A i \in 1 .. Len(q) : u[i + 1] = q[i], Stands(s, u, b)
    PROVE  b - 1 \in 0 .. Len(q) /\ Stands(s, q, b - 1)
<1>1. Len(s) \in Nat /\ Len(q) \in Nat /\ b + Len(s) <= Len(q) + 1
  BY DEF Stands
<1>2. b - 1 \in 0 .. Len(q) /\ (b - 1) + Len(s) <= Len(q)
  BY <1>1
<1>3. ASSUME NEW i \in 1 .. Len(s)
      PROVE  s[i] = q[(b - 1) + i]
  <2>1. (b - 1) + i \in 1 .. Len(q) /\ b + i = ((b - 1) + i) + 1
    BY <1>1
  <2>2. s[i] = u[b + i]
    BY DEF Stands
  <2>3. QED
    BY <2>1, <2>2
<1>4. QED
  BY <1>2, <1>3 DEF Stands

\* The text behind the last question mark: a slice of the query.
LEMMA PageStands ==
    ASSUME query \in Seq(Tokens), HasPage(Url)
    PROVE  /\ truncateUrlPage(Url) \in Seq(Tokens \cup {"/ws"})
           /\ \E a \in 0 .. Len(query) : Stands(truncateUrlPage(Url), query, a)
<1> DEFINE T == Tokens \cup {"/ws"}
           parts == Split(Url, "?")
           L == Len(parts)
<1>1. /\ Url \in Seq(T) /\ Len(Url) = Len(query) + 1 /\ Len(query) \in Nat
      /\ \A i \in 1 .. Len(query) : Url[i + 1] = query[i]
  BY DEF Url
<1> HIDE DEF T, Url
<1>2. parts \in Seq(Seq(T)) /\ L \in Nat /\ L > 1
  BY <1>1, SplitApart DEF HasPage
<1>3. PICK pos : Apart(Url, "?", parts, pos)
  BY <1>1, SplitApart
<1>4. truncateUrlPage(Url) = parts[L]
  BY DEF truncateUrlPage
<1> HIDE DEF parts
<1>5. /\ parts[L] \in Seq(T) /\ Len(parts[L]) \in Nat
      /\ pos[L - 1] \in 0 .. Len(Url) /\ Stands(parts[L], Url, pos[L - 1])
  BY <1>1, <1>2, <1>3, PartStands
<1>6. pos[L - 1] \in Nat \ {0}
  <2>1. 0 \in 0 .. L /\ L - 1 \in 0 .. L /\ 0 < L - 1
    BY <1>2
  <2>2. pos[0] < pos[L - 1] /\ pos[0] = 0
    BY <2>1, <1>3 DEF Apart
  <2>3. QED
    BY <2>2, <1>1, <1>5
<1>7. query \in Seq(T)
  BY DEF T
<1>8. pos[L - 1] - 1 \in 0 .. Len(query) /\ Stands(parts[L], query, pos[L - 1] - 1)
  BY <1>1, <1>5, <1>6, <1>7, OneEarlier
<1>9. QED
  BY <1>4, <1>5, <1>8 DEF T

LEMMA TwoFurther ==
    ASSUME NEW b \in Nat, NEW n \in Nat \ {0}, NEW m \in Nat, (b + 2) + n <= m
    PROVE  (b + 2) + 1 = (b + 1) + 2 /\ (b + 2) + n \in (b + 1) + 2 .. m
OBVIOUS

\* A user id that is read stands behind "userId=" in the query.
LEMMA NoStray ==
    ASSUME query \in Seq(Tokens)
    PROVE  NoStrayUserId
<1> DEFINE T == Tokens \cup {"/ws"}
           u == <<"userId">>
           page == truncateUrlPage(Url)
           parts == Split(page, "&")
           params == urlSplit(Url)
           FoundAt(i) == /\ query[i] = "userId"
                         /\ \/ params[u] = <<>>
                            \/ /\ i < Len(query) /\ query[i + 1] = "="
                               /\ \E k \in i + 2 .. Len(query) :
                                     params[u] = SubSeq(query, i + 2, k)
<1> SUFFICES ASSUME ~Throws(Url), u \in DOMAIN params
             PROVE  \E i \in DOMAIN query : FoundAt(i)
  BY DEF NoStrayUserId
<1>1. HasPage(Url)
  BY DEF urlSplit, NoParams
<1>2. /\ page \in Seq(T) /\ Len(page) \in Nat
      /\ \E a \in 0 .. Len(query) : Stands(page, query, a)
  BY <1>1, PageStands
<1>3. PICK a \in 0 .. Len(query) : Stands(page, query, a)
  BY <1>2
<1> HIDE DEF page
<1>4. parts \in Seq(Seq(T)) /\ \E pos : Apart(page, "&", parts, pos)
  BY <1>2, SplitApart
<1>5. PICK pos : Apart(page, "&", parts, pos)
  BY <1>4
<1>6. /\ DOMAIN Pairs(Url) = 1 .. Len(parts) /\ Len(Pairs(Url)) = Len(parts) /\ Len(parts) \in Nat
      /\ \A k \in 1 .. Len(parts) : Pairs(Url)[k] = Split(parts[k], "=")
  BY <1>4 DEF Pairs, page
<1>7. PICK k \in 1 .. Len(parts) : Pairs(Url)[k][1] = u /\ params[u] = Value(Pairs(Url)[k])
  <2>1. LastWins(Pairs(Url), Len(parts), params, u)
    BY <1>1, <1>6, PutsLast DEF urlSplit
  <2> HIDE DEF params, u, parts
  <2>2. QED
    BY <2>1 DEF LastWins
<1> HIDE DEF parts
<1>8. /\ parts[k] \in Seq(T) /\ pos[k - 1] \in Nat /\ Stands(parts[k], page, pos[k - 1])
  BY <1>2, <1>4, <1>5, PartStands
<1> DEFINE b == a + pos[k - 1]
           t == parts[k]
           pair == Split(t, "=")
<1>9. b \in Nat /\ Stands(t, query, b) /\ query \in Seq(T)
  <2>1. query \in Seq(T)
    BY DEF T
  <2>2. Stands(t, query, a + pos[k - 1])
    BY <2>1, <1>2, <1>3, <1>8, StandsDeeper
  <2>3. a + pos[k - 1] \in Nat
    BY <1>3, <1>8
  <2>4. QED
    BY <2>1, <2>2, <2>3
<1>10. pair # <<>> /\ pair[1] = u /\ params[u] = Value(pair)
  BY <1>1, <1>6, <1>7 DEF Throws
<1> HIDE DEF params, T, b
<1>11. pair \in Seq(Seq(T)) /\ \E p : Apart(t, "=", pair, p)
  BY <1>8, SplitApart
<1>12. PICK p : Apart(t, "=", pair, p)
  BY <1>11
<1> HIDE DEF pair, t
<1>13. t \in Seq(T) /\ Len(t) \in Nat /\ Len(pair) \in Nat \ {0} /\ 1 \in 1 .. Len(pair)
  BY <1>8, <1>10, <1>11 DEF t
<1> DEFINE PairStands == \A j \in 1 .. Len(pair) :
                           pair[j] \in Seq(T) /\ p[j] \in Nat /\ Stands(pair[j], t, p[j - 1])
<1>14. PairStands
  <2>1. ASSUME NEW j \in 1 .. Len(pair)
        PROVE  pair[j] \in Seq(T) /\ p[j] \in Nat /\ Stands(pair[j], t, p[j - 1])
    <3>1. t \in Seq(T) /\ pair \in Seq(Seq(T)) /\ Apart(t, "=", pair, p)
      BY <1>11, <1>12, <1>13
    <3>2. pair[j] \in Seq(T) /\ p[j] \in 1 .. Len(t) + 1 /\ Stands(pair[j], t, p[j - 1])
      BY <3>1, PartStands
    <3>3. QED
      BY <3>2, <1>13
  <2>2. QED
    BY <2>1
<1>15. p[0] = 0 /\ Len(pair[1]) = 1 /\ pair[1][1] = "userId" /\ p[1] \in Nat
  <2>1. Len(u) = 1 /\ u[1] = "userId"
    OBVIOUS
  <2>2. QED
    BY <2>1, <1>10, <1>12, <1>13, <1>14 DEF Apart
<1>16. p[1] = 2 /\ 1 <= Len(t) /\ t[1] = "userId"
  <2>1. 1 - 1 = 0 /\ 0 + 1 = 1
    OBVIOUS
  <2>2. Len(pair[1]) = p[1] - p[1 - 1] - 1
    BY <1>12, <1>13 DEF Apart
  <2>3. Stands(pair[1], t, 0)
    BY <2>1, <1>13, <1>15, <1>14
  <2>4. p[1] = 2
    <3>1. p[1 - 1] = 0 /\ Len(pair[1]) = 1
      BY <2>1, <1>15
    <3>2. 1 = p[1] - 0 - 1
      BY <2>2, <3>1
    <3>3. QED
      BY <3>2, <1>15
  <2>5. 1 <= Len(t) /\ t[1] = "userId"
    BY <2>3, <1>13, <1>15 DEF Stands
  <2>6. QED
    BY <2>4, <2>5
<1>17. b + 1 \in DOMAIN query /\ query[b + 1] = "userId"
  BY <1>9, <1>13, <1>16 DEF Stands
<1>18. CASE Value(pair) = <<>>
  BY <1>10, <1>17, <1>18
<1>19. CASE Value(pair) # <<>>
  <2>1. Len(pair) > 1 /\ params[u] = pair[2] /\ 2 \in 1 .. Len(pair)
    BY <1>10, <1>13, <1>19 DEF Value
  <2>2. pair[2] \in Seq(T) /\ pair[2] # <<>> /\ Stands(pair[2], t, 2)
    <3>1. 2 - 1 = 1
      OBVIOUS
    <3>2. pair[2] \in Seq(T) /\ Stands(pair[2], t, p[1])
      BY <2>1, <3>1, <1>14
    <3>3. QED
      BY <2>1, <3>2, <1>16, <1>19 DEF Value
  <2>3. Len(pair[2]) \in Nat \ {0}
    BY <2>2
  <2>4. t[2] = "="
    <3>1. p[1] <= Len(t)
      BY <2>2, <2>3, <1>13, <1>16 DEF Stands
    <3>2. QED
      BY <3>1, <1>12, <1>13, <1>16 DEF Apart
  <2>5. Stands(pair[2], query, b + 2)
    BY <2>2, <1>9, <1>13, StandsDeeper
  <2>6. query[(b + 1) + 1] = "=" /\ b + 1 < Len(query)
    <3>1. 2 \in 1 .. Len(t)
      BY <2>2, <2>3, <1>13 DEF Stands
    <3>2. query[b + 2] = "=" /\ b + 2 <= Len(query)
      BY <3>1, <2>4, <1>9, <1>13 DEF Stands
    <3>3. QED
      BY <3>2, <1>9
  <2>7. pair[2] = SubSeq(query, (b + 2) + 1, (b + 2) + Len(pair[2]))
    <3>1. b + 2 \in Nat
      BY <1>9
    <3>2. pair[2] \in Seq(T) /\ query \in Seq(T)
      BY <2>2, <1>9
    <3>3. /\ (b + 2) + Len(pair[2]) <= Len(query)
          /\ \A i \in 1 .. Len(pair[2]) : pair[2][i] = query[(b + 2) + i]
      BY <2>5 DEF Stands
    <3>4. QED
      BY <3>1, <3>2, <3>3, Slice
  <2>8. /\ (b + 2) + 1 = (b + 1) + 2
        /\ (b + 2) + Len(pair[2]) \in (b + 1) + 2 .. Len(query)
    <3>1. (b + 2) + Len(pair[2]) <= Len(query)
      BY <2>5 DEF Stands
    <3>2. Len(query) \in Nat /\ b \in Nat
      BY <1>9
    <3>3. QED
      BY <3>1, <3>2, <2>3, TwoFurther
  <2>9. QED
    BY <2>1, <2>6, <2>7, <2>8, <1>17
<1>20. QED
  BY <1>18, <1>19

(***************************************************************************)
(* A well-formed request.                                                   *)
(***************************************************************************)
\* A part that is not empty stands between o and e.
Between(text, separator, o, e) ==
    /\ o + 1 < e /\ e <= Len(text) + 1
    /\ e <= Len(text) => text[e] = separator
    /\ \A i \in o + 1 .. e - 1 : text[i] # separator

LEMMA NextPart ==
    ASSUME NEW T, NEW text \in Seq(T), NEW separator, NEW parts \in Seq(Seq(T)), NEW pos,
           Apart(text, separator, parts, pos), NEW k \in 0 .. Len(parts),
           NEW o \in Nat, NEW e \in Nat, pos[k] = o, Between(text, separator, o, e)
    PROVE  k # Len(parts) /\ pos[k + 1] = e
<1>1. /\ o + 1 < e /\ e <= Len(text) + 1
      /\ e <= Len(text) => text[e] = separator
      /\ \A i \in o + 1 .. e - 1 : text[i] # separator
  BY DEF Between
<1>2. Len(text) \in Nat /\ Len(parts) \in Nat
  OBVIOUS
<1>3. k # Len(parts)
  <2>1. SUFFICES ASSUME k = Len(parts) PROVE FALSE
    OBVIOUS
  <2>2. o + 1 \in o + 1 .. Len(text) /\ o + 1 \in o + 1 .. e - 1
    BY <1>1, <1>2
  <2>3. text[o + 1] = separator
    BY <1>1, <2>1, <2>2 DEF Apart
  <2>4. QED
    BY <1>1, <2>2, <2>3
<1>4. k + 1 \in 1 .. Len(parts) /\ (k + 1) - 1 = k
  BY <1>1, <1>2, <1>3
<1>5. PICK n \in 1 .. Len(text) + 1 : n = pos[k + 1]
  BY <1>1, <1>4, PartStands
<1>6. /\ o < n
      /\ Len(parts[k + 1]) = n - o - 1
      /\ \A i \in 1 .. Len(parts[k + 1]) : text[o + i] # separator
      /\ n <= Len(text) => text[n] = separator
  <2>1. pos[(k + 1) - 1] < n
    BY <1>1, <1>4, <1>5, PartStands
  <2>2. /\ Len(parts[k + 1]) = pos[k + 1] - pos[(k + 1) - 1] - 1
        /\ \A i \in 1 .. Len(parts[k + 1]) : text[pos[(k + 1) - 1] + i] # separator
        /\ pos[k + 1] <= Len(text) => text[pos[k + 1]] = separator
    BY <1>1, <1>4 DEF Apart
  <2>3. QED
    BY <1>1, <2>1, <2>2, <1>4, <1>5
<1>7. ~(n < e)
  <2>1. SUFFICES ASSUME n < e PROVE FALSE
    OBVIOUS
  <2>2. n <= Len(text) /\ n \in o + 1 .. e - 1
    BY <1>1, <2>1, <1>2, <1>6
  <2>3. QED
    BY <1>1, <2>2, <1>6
<1>8. ~(e < n)
  <2>1. SUFFICES ASSUME e < n PROVE FALSE
    OBVIOUS
  <2>2. e <= Len(text)
    BY <1>1, <2>1, <1>2
  <2>3. e - o \in 1 .. n - o - 1 /\ o + (e - o) = e
    BY <1>1, <2>1
  <2>4. QED
    BY <1>1, <2>2, <2>3, <1>6
<1>9. n = e
  BY <1>1, <1>7, <1>8
<1>10. QED
  BY <1>3, <1>5, <1>9

LEMMA NoPartBehind ==
    ASSUME NEW T, NEW text \in Seq(T), NEW separator, NEW parts \in Seq(Seq(T)), NEW pos,
           Apart(text, separator, parts, pos), NEW k \in 0 .. Len(parts),
           pos[k] = Len(text) + 1
    PROVE  k = Len(parts)
<1> SUFFICES ASSUME k # Len(parts) PROVE FALSE
  OBVIOUS
<1>1. k + 1 \in 0 .. Len(parts) /\ k < k + 1 /\ Len(text) \in Nat
  OBVIOUS
<1>2. pos[k] < pos[k + 1] /\ pos[k + 1] \in 0 .. Len(text) + 1
  BY <1>1 DEF Apart
<1>3. QED
  BY <1>1, <1>2

LEMMA OneMore ==
    ASSUME NEW n \in Nat, NEW k \in 0 .. n, k # n
    PROVE  k + 1 \in 1 .. n
OBVIOUS

\* A name and a value.
LEMMA PairSplit ==
    ASSUME NEW T, NEW t \in Seq(T), NEW separator
    PROVE  Len(t) = 3 /\ t[1] # separator /\ t[2] = separator /\ t[3] # separator =>
               /\ Len(Split(t, separator)) = 2
               /\ Split(t, separator)[1] = <<t[1]>> /\ Split(t, separator)[2] = <<t[3]>>
<1> DEFINE pair == Split(t, separator)
<1>1. pair \in Seq(Seq(T)) /\ \E p : Apart(t, separator, pair, p)
  BY SplitApart
<1>2. PICK p : Apart(t, separator, pair, p)
  BY <1>1
<1> HIDE DEF pair
<1>3. \A k \in 0 .. Len(pair) : \A o, e \in Nat :
         p[k] = o /\ Between(t, separator, o, e) => k # Len(pair) /\ p[k + 1] = e
  BY <1>1, <1>2, NextPart
<1>4. \A k \in 0 .. Len(pair) : p[k] = Len(t) + 1 => k = Len(pair)
  BY <1>1, <1>2, NoPartBehind
<1> HAVE Len(t) = 3 /\ t[1] # separator /\ t[2] = separator /\ t[3] # separator
<1>5. p[0] = 0 /\ 0 \in 0 .. Len(pair) /\ Len(pair) \in Nat
  BY <1>1, <1>2 DEF Apart
<1>6. 1 \in 1 .. Len(pair) /\ p[1] = 2
  <2>1. 0 \in Nat /\ 2 \in Nat /\ Between(t, separator, 0, 2)
    <3>1. \A i \in 0 + 1 .. 2 - 1 : i = 1
      OBVIOUS
    <3>2. QED
      BY <3>1 DEF Between
  <2>2. 0 # Len(pair) /\ p[0 + 1] = 2
    BY <2>1, <1>3, <1>5
  <2>3. QED
    BY <2>2, <1>5
<1>7. 2 \in 1 .. Len(pair) /\ p[2] = 4
  <2>1. 2 \in Nat /\ 4 \in Nat /\ Between(t, separator, 2, 4)
    <3>1. \A i \in 2 + 1 .. 4 - 1 : i = 3
      OBVIOUS
    <3>2. QED
      BY <3>1 DEF Between
  <2>2. 1 \in 0 .. Len(pair)
    BY <1>5, <1>6
  <2>3. 1 # Len(pair) /\ p[1 + 1] = 4
    BY <2>1, <2>2, <1>3, <1>6
  <2>4. 1 + 1 \in 1 .. Len(pair)
    BY <2>2, <2>3, <1>5, OneMore
  <2>5. QED
    BY <2>3, <2>4
<1>8. Len(pair) = 2
  <2>1. 2 \in 0 .. Len(pair) /\ 4 = Len(t) + 1
    BY <1>5, <1>7
  <2>2. p[2] = Len(t) + 1
    BY <2>1, <1>7
  <2>3. QED
    BY <1>4, <2>1, <2>2
<1>9. ASSUME NEW s \in Seq(T), Len(s) = 1
      PROVE  s = <<s[1]>>
  BY <1>9
<1>10. pair[1] \in Seq(T) /\ Len(pair[1]) = 1 /\ pair[1][1] = t[1]
  <2>1. 1 - 1 = 0 /\ 0 + 1 = 1 /\ 2 - 0 - 1 = 1
    OBVIOUS
  <2>2. /\ pair[1] \in Seq(T) /\ Len(pair[1]) = p[1] - p[1 - 1] - 1
        /\ Stands(pair[1], t, p[1 - 1])
    BY <1>1, <1>2, <1>6, PartStands
  <2>3. Len(pair[1]) = 1 /\ Stands(pair[1], t, 0)
    BY <2>1, <2>2, <1>5, <1>6
  <2>4. 1 \in 1 .. Len(pair[1])
    BY <2>3
  <2>5. pair[1][1] = t[0 + 1]
    BY <2>3, <2>4 DEF Stands
  <2>6. QED
    BY <2>1, <2>2, <2>3, <2>5
<1>11. pair[2] \in Seq(T) /\ Len(pair[2]) = 1 /\ pair[2][1] = t[3]
  <2>1. 2 - 1 = 1 /\ 2 + 1 = 3 /\ 4 - 2 - 1 = 1
    OBVIOUS
  <2>2. /\ pair[2] \in Seq(T) /\ Len(pair[2]) = p[2] - p[2 - 1] - 1
        /\ Stands(pair[2], t, p[2 - 1])
    BY <1>1, <1>2, <1>7, PartStands
  <2>3. Len(pair[2]) = 1 /\ Stands(pair[2], t, 2)
    BY <2>1, <2>2, <1>6, <1>7
  <2>4. 1 \in 1 .. Len(pair[2])
    BY <2>3
  <2>5. pair[2][1] = t[2 + 1]
    BY <2>3, <2>4 DEF Stands
  <2>6. QED
    BY <2>1, <2>2, <2>3, <2>5
<1>12. QED
  BY <1>8, <1>9, <1>10, <1>11 DEF pair

Names == {"userId", "ann"}

\* A list of name=value.
Listed(page) ==
    \A i \in 0 .. Len(page) :
        i = 0 \/ page[i] = "&" =>
            /\ i + 3 <= Len(page)
            /\ page[i + 1] \in Names /\ page[i + 2] = "=" /\ page[i + 3] \in Names
            /\ i + 4 <= Len(page) => page[i + 4] = "&"

\* The part t of page, behind its token o, is a name and a value.
PairAt(page, t, o) ==
    /\ o \in 0 .. Len(page) - 3
    /\ page[o + 1] \in Names /\ page[o + 2] = "="
    /\ o + 4 <= Len(page) => page[o + 4] = "&"
    /\ Len(Split(t, "=")) = 2
    /\ Split(t, "=")[1] = <<page[o + 1]>> /\ Split(t, "=")[2] = <<page[o + 3]>>

AllPairs(page, parts, pos) ==
    /\ pos[Len(parts)] = Len(page) + 1
    /\ \A k \in 1 .. Len(parts) :
          pos[k] = pos[k - 1] + 4 /\ PairAt(page, parts[k], pos[k - 1])

\* Its parts are of three tokens each.
LEMMA ListedParts ==
    ASSUME NEW T, NEW page \in Seq(T), Listed(page),
           NEW parts \in Seq(Seq(T)), NEW pos, Apart(page, "&", parts, pos)
    PROVE  AllPairs(page, parts, pos)
<1>1. /\ Len(page) \in Nat /\ Len(parts) \in Nat
      /\ \A k \in 0 .. Len(parts) : pos[k] \in 0 .. Len(page) + 1
  BY DEF Apart
<1>2. ASSUME NEW k \in 0 .. Len(parts), pos[k] <= Len(page)
      PROVE  /\ pos[k] \in 0 .. Len(page) - 3
             /\ page[pos[k] + 1] \in Names /\ page[pos[k] + 2] = "=" /\ page[pos[k] + 3] \in Names
             /\ pos[k] + 4 <= Len(page) => page[pos[k] + 4] = "&"
             /\ k + 1 \in 1 .. Len(parts) /\ pos[k + 1] = pos[k] + 4
  <2>1. PICK o \in 0 .. Len(page) : o = pos[k]
    BY <1>1, <1>2
  <2>2. o = 0 \/ page[o] = "&"
    BY <1>1, <2>1 DEF Apart
  <2>3. /\ o + 3 <= Len(page)
        /\ page[o + 1] \in Names /\ page[o + 2] = "=" /\ page[o + 3] \in Names
        /\ o + 4 <= Len(page) => page[o + 4] = "&"
    BY <2>2 DEF Listed
  <2>4. o + 4 \in Nat /\ o \in Nat /\ o + 1 < o + 4 /\ o + 4 <= Len(page) + 1
    BY <2>3, <1>1
  <2>5. ASSUME NEW i \in o + 1 .. (o + 4) - 1
        PROVE  page[i] # "&"
    <3>1. i = o + 1 \/ i = o + 2 \/ i = o + 3
      OBVIOUS
    <3>2. QED
      BY <3>1, <2>3 DEF Names
  <2>6. Between(page, "&", o, o + 4)
    BY <2>3, <2>4, <2>5 DEF Between
  <2>7. k # Len(parts) /\ pos[k + 1] = o + 4
    <3>1. o + 4 \in Nat /\ o + 4 <= Len(page) + 1
      BY <2>4
    <3>2. QED
      BY <2>1, <2>6, <3>1, NextPart
  <2>8. o \in 0 .. Len(page) - 3
    BY <2>3, <1>1
  <2>9. k + 1 \in 1 .. Len(parts)
    BY <2>7, <1>1
  <2>10. QED
    BY <2>1, <2>3, <2>7, <2>8, <2>9
<1>3. pos[Len(parts)] = Len(page) + 1
  <2>1. Len(parts) \in 0 .. Len(parts) /\ Len(parts) + 1 \notin 1 .. Len(parts)
    BY <1>1
  <2>2. ~(pos[Len(parts)] <= Len(page))
    BY <2>1, <1>2
  <2>3. pos[Len(parts)] \in 0 .. Len(page) + 1
    BY <2>1, <1>1
  <2>4. QED
    BY <2>2, <2>3, <1>1
<1>4. ASSUME NEW k \in 1 .. Len(parts)
      PROVE  pos[k] = pos[k - 1] + 4 /\ PairAt(page, parts[k], pos[k - 1])
  <2> DEFINE t == parts[k]
  <2>0. PICK o \in 0 .. Len(page) : o = pos[k - 1]
    BY PartStands
  <2>1. /\ t \in Seq(T) /\ o \in 0 .. Len(page) /\ Stands(t, page, o)
        /\ Len(t) = pos[k] - o - 1
    BY <2>0, PartStands
  <2>2. k - 1 \in 0 .. Len(parts) /\ (k - 1) + 1 = k /\ pos[k - 1] <= Len(page)
    BY <2>0, <1>1
  <2>3. /\ o \in 0 .. Len(page) - 3
        /\ page[o + 1] \in Names /\ page[o + 2] = "=" /\ page[o + 3] \in Names
        /\ o + 4 <= Len(page) => page[o + 4] = "&"
        /\ pos[(k - 1) + 1] = o + 4
    BY <2>0, <2>2, <1>2
  <2>4. pos[k] = o + 4
    BY <2>2, <2>3
  <2> HIDE DEF t
  <2>5. Len(t) = 3
    BY <2>1, <2>4
  <2>6. t[1] = page[o + 1] /\ t[2] = page[o + 2] /\ t[3] = page[o + 3]
    <3>1. 1 \in 1 .. Len(t) /\ 2 \in 1 .. Len(t) /\ 3 \in 1 .. Len(t)
      BY <2>5
    <3>2. QED
      BY <2>1, <3>1 DEF Stands
  <2>7. /\ Len(Split(t, "=")) = 2
        /\ Split(t, "=")[1] = <<t[1]>> /\ Split(t, "=")[2] = <<t[3]>>
    <3>1. t[1] # "=" /\ t[2] = "=" /\ t[3] # "="
      BY <2>3, <2>6 DEF Names
    <3>2. QED
      BY <3>1, <2>1, <2>5, PairSplit
  <2>8. QED
    BY <2>0, <2>3, <2>4, <2>6, <2>7 DEF t, PairAt
<1>5. QED
  BY <1>3, <1>4 DEF AllPairs

\* A name stands first in its part, a value does not.
LEMMA NameFirst ==
    ASSUME NEW T, NEW page \in Seq(T), Listed(page),
           NEW parts \in Seq(Seq(T)), NEW pos, Apart(page, "&", parts, pos),
           NEW j \in 1 .. Len(page), page[j] \in Names, j < Len(page), page[j + 1] # "&"
    PROVE  \E k \in 1 .. Len(parts) : j = pos[k - 1] + 1
<1>1. /\ Len(page) \in Nat /\ Len(parts) \in Nat /\ pos[0] = 0
      /\ \A k \in 0 .. Len(parts) : pos[k] \in Nat
  BY DEF Apart
<1>2. AllPairs(page, parts, pos)
  BY ListedParts
<1>3. pos[Len(parts)] = Len(page) + 1
  BY <1>2 DEF AllPairs
<1>4. PICK k \in 1 .. Len(parts) : pos[k - 1] < j /\ j <= pos[k]
  <2>1. j \in Nat \ {0} /\ j <= pos[Len(parts)]
    BY <1>1, <1>3
  <2> HIDE DEF Names
  <2>2. QED
    BY <2>1, <1>1, InPart
<1>5. PICK o \in Nat : o = pos[k - 1]
  BY PartStands
<1>6. /\ pos[k] = o + 4 /\ page[o + 2] = "="
      /\ o + 4 <= Len(page) => page[o + 4] = "&"
  BY <1>2, <1>5 DEF AllPairs, PairAt
<1>7. j = o + 1 \/ j = o + 2 \/ j = o + 3 \/ j = o + 4
  <2>1. o < j /\ j <= o + 4
    BY <1>4, <1>5, <1>6
  <2>2. QED
    BY <2>1
<1>8. j # o + 2
  BY <1>6 DEF Names
<1>9. j # o + 4
  BY <1>6 DEF Names
<1>10. j # o + 3
  <2>1. SUFFICES ASSUME j = o + 3 PROVE FALSE
    OBVIOUS
  <2>2. j + 1 = o + 4 /\ o + 4 <= Len(page)
    BY <2>1, <1>1
  <2>3. QED
    BY <2>2, <1>6
<1>11. QED
  BY <1>5, <1>7, <1>8, <1>9, <1>10

\* The query of a well-formed request is such a list.
LEMMA WellFormedPage ==
    ASSUME query \in Seq(Tokens), WellFormed
    PROVE  /\ HasPage(Url) /\ truncateUrlPage(Url) \in Seq(Tokens \cup {"/ws"})
           /\ Len(query) \in Nat /\ Len(truncateUrlPage(Url)) = Len(query) - 1
           /\ \A i \in 1 .. Len(truncateUrlPage(Url)) : truncateUrlPage(Url)[i] = query[i + 1]
           /\ Listed(truncateUrlPage(Url))
<1> DEFINE T == Tokens \cup {"/ws"}
           parts == Split(Url, "?")
           L == Len(parts)
           page == truncateUrlPage(Url)
<1>1. /\ Url \in Seq(T) /\ Len(Url) = Len(query) + 1 /\ Len(query) \in Nat
      /\ Url[1] = "/ws" /\ \A i \in 1 .. Len(query) : Url[i + 1] = query[i]
  BY DEF Url
<1>2. /\ 1 \in 1 .. Len(query) /\ query[1] = "?"
      /\ \A i \in 2 .. Len(query) : query[i] # "?"
      /\ \A i \in 1 .. Len(query) :
            query[i] \in {"?", "&"} =>
                /\ i + 3 <= Len(query) /\ query[i + 1] \in Names /\ query[i + 3] \in Names
                /\ query[i + 2] = "="
                /\ i + 4 > Len(query) \/ query[i + 4] = "&"
  BY <1>1 DEF WellFormed, Ends, Names
<1>3. 4 <= Len(query)
  <2>1. 1 + 3 <= Len(query)
    BY <1>2
  <2>2. QED
    BY <2>1
<1>4. Between(Url, "?", 0, 2)
  <2>1. 0 + 1 < 2 /\ 2 <= Len(Url) + 1
    BY <1>1, <1>3
  <2>2. Url[1 + 1] = query[1]
    BY <1>1, <1>2
  <2>3. Url[2] = "?"
    BY <2>2, <1>2
  <2>4. \A i \in 0 + 1 .. 2 - 1 : i = 1
    OBVIOUS
  <2>5. \A i \in 0 + 1 .. 2 - 1 : Url[i] # "?"
    BY <2>4, <1>1
  <2>6. QED
    BY <2>1, <2>3, <2>5 DEF Between
<1>5. Between(Url, "?", 2, Len(Url) + 1)
  <2>1. 2 + 1 < Len(Url) + 1 /\ ~(Len(Url) + 1 <= Len(Url))
    BY <1>1, <1>3
  <2>2. ASSUME NEW i \in 2 + 1 .. (Len(Url) + 1) - 1
        PROVE  Url[i] # "?"
    <3>1. i - 1 \in 2 .. Len(query) /\ i - 1 \in 1 .. Len(query) /\ (i - 1) + 1 = i
      BY <1>1
    <3>2. Url[(i - 1) + 1] = query[i - 1] /\ query[i - 1] # "?"
      BY <3>1, <1>1, <1>2
    <3>3. QED
      BY <3>1, <3>2
  <2>3. Len(Url) + 1 <= Len(Url) + 1
    BY <1>1
  <2>4. QED
    BY <2>1, <2>2, <2>3 DEF Between
<1> HIDE DEF T, Url
<1>6. parts \in Seq(Seq(T)) /\ L \in Nat
  BY <1>1, SplitApart
<1>7. PICK pos : Apart(Url, "?", parts, pos)
  BY <1>1, SplitApart
<1>8. truncateUrlPage(Url) = parts[L] /\ (HasPage(Url) <=> L > 1)
  BY DEF truncateUrlPage, HasPage
<1> HIDE DEF parts
<1>9. /\ \A k \in 0 .. L : \A o, e \in Nat :
            pos[k] = o /\ Between(Url, "?", o, e) => k # L /\ pos[k + 1] = e
      /\ \A k \in 0 .. L : pos[k] = Len(Url) + 1 => k = L
  <2>1. \A k \in 0 .. L : \A o, e \in Nat :
            pos[k] = o /\ Between(Url, "?", o, e) => k # L /\ pos[k + 1] = e
    BY <1>1, <1>6, <1>7, NextPart
  <2>2. \A k \in 0 .. L : pos[k] = Len(Url) + 1 => k = L
    BY <1>1, <1>6, <1>7, NoPartBehind
  <2>3. QED
    BY <2>1, <2>2
<1>10. 1 \in 0 .. L /\ pos[1] = 2
  <2>1. pos[0] = 0 /\ 0 \in 0 .. L /\ 0 \in Nat /\ 2 \in Nat
    BY <1>6, <1>7 DEF Apart
  <2>2. 0 # L /\ pos[0 + 1] = 2
    BY <2>1, <1>4, <1>9
  <2>3. QED
    BY <2>2, <1>6
<1>11. 2 \in 0 .. L /\ pos[2] = Len(Url) + 1
  <2>1. 2 \in Nat /\ Len(Url) + 1 \in Nat
    BY <1>1
  <2>2. 1 # L /\ pos[1 + 1] = Len(Url) + 1
    BY <2>1, <1>5, <1>9, <1>10
  <2>3. 1 + 1 \in 1 .. L
    BY <2>2, <1>6, <1>10, OneMore
  <2>4. QED
    BY <2>2, <2>3, <1>6
<1>12. L = 2
  BY <1>9, <1>11
<1>13. /\ page \in Seq(T) /\ Len(page) = Len(query) - 1 /\ Stands(page, Url, 2)
  <2>1. 2 \in 1 .. L /\ 2 - 1 = 1 /\ page = parts[2]
    BY <1>8, <1>12
  <2> HIDE DEF page, L
  <2>2. /\ page \in Seq(T) /\ Len(page) = pos[2] - pos[2 - 1] - 1
        /\ Stands(page, Url, pos[2 - 1])
    BY <2>1, <1>1, <1>6, <1>7, PartStands DEF L
  <2>3. Len(page) = (Len(Url) + 1) - 2 - 1 /\ Stands(page, Url, 2)
    BY <2>1, <2>2, <1>10, <1>11
  <2>4. QED
    BY <2>2, <2>3, <1>1
<1> HIDE DEF page, L
<1>14. ASSUME NEW i \in 1 .. Len(page)
       PROVE  page[i] = query[i + 1]
  <2>1. page[i] = Url[2 + i]
    BY <1>13 DEF Stands
  <2>2. i + 1 \in 1 .. Len(query) /\ 2 + i = (i + 1) + 1
    BY <1>1, <1>13
  <2>3. QED
    BY <2>1, <2>2, <1>1
<1>15. ASSUME NEW i \in 0 .. Len(page), i = 0 \/ page[i] = "&"
       PROVE  /\ i + 3 <= Len(page)
              /\ page[i + 1] \in Names /\ page[i + 2] = "=" /\ page[i + 3] \in Names
              /\ i + 4 <= Len(page) => page[i + 4] = "&"
  <2>1. i + 1 \in 1 .. Len(query) /\ query[i + 1] \in {"?", "&"}
    <3>1. CASE i = 0
      BY <3>1, <1>1, <1>2
    <3>2. CASE i # 0
      <4>1. i \in 1 .. Len(page)
        BY <3>2, <1>1, <1>13
      <4>2. QED
        BY <4>1, <3>2, <1>1, <1>13, <1>14, <1>15
    <3>3. QED
      BY <3>1, <3>2
  <2>2. /\ (i + 1) + 3 <= Len(query)
        /\ query[(i + 1) + 1] \in Names /\ query[(i + 1) + 3] \in Names
        /\ query[(i + 1) + 2] = "="
        /\ (i + 1) + 4 > Len(query) \/ query[(i + 1) + 4] = "&"
    BY <2>1, <1>2
  <2>3. /\ (i + 1) + 1 = i + 2 /\ (i + 1) + 2 = i + 3
        /\ (i + 1) + 3 = i + 4 /\ (i + 1) + 4 = i + 5
    OBVIOUS
  <2>4. i + 3 <= Len(page)
    BY <2>2, <1>1, <1>13
  <2>5. page[i + 1] = query[(i + 1) + 1] /\ page[i + 2] = query[(i + 2) + 1]
        /\ page[i + 3] = query[(i + 3) + 1]
    <3>1. {i + 1, i + 2, i + 3} \subseteq 1 .. Len(page)
      BY <2>4, <1>1, <1>13
    <3>2. QED
      BY <3>1, <1>14
  <2>6. ASSUME i + 4 <= Len(page)
        PROVE  page[i + 4] = "&"
    <3>1. i + 4 \in 1 .. Len(page) /\ (i + 4) + 1 = (i + 1) + 4 /\ ~((i + 1) + 4 > Len(query))
      BY <2>6, <1>1, <1>13
    <3>2. page[i + 4] = query[(i + 4) + 1]
      BY <3>1, <1>14
    <3>3. QED
      BY <3>1, <3>2, <2>2
  <2>7. (i + 2) + 1 = (i + 1) + 2 /\ (i + 3) + 1 = (i + 1) + 3
    OBVIOUS
  <2>8. QED
    BY <2>2, <2>4, <2>5, <2>6, <2>7
<1>16. Listed(page)
  BY <1>15 DEF Listed
<1>17. HasPage(Url)
  BY <1>8, <1>12
<1>18. QED
  BY <1>1, <1>13, <1>14, <1>16, <1>17 DEF page, T
\* The user id is the value of the last userId.
LEMMA LastRead ==
    ASSUME query \in Seq(Tokens), WellFormed
    PROVE  LastUserIdRead
<1> DEFINE T == Tokens \cup {"/ws"}
           u == <<"userId">>
           page == truncateUrlPage(Url)
           parts == Split(page, "&")
           L == Len(parts)
           at == {i \in 2 .. Len(query) : query[i] = "userId" /\ ~Ends(i + 1)}
           params == urlSplit(Url)
<1>1. /\ HasPage(Url) /\ page \in Seq(T)
      /\ Len(query) \in Nat /\ Len(page) = Len(query) - 1
      /\ \A i \in 1 .. Len(page) : page[i] = query[i + 1]
      /\ Listed(page)
  BY WellFormedPage
<1>2. DOMAIN Pairs(Url) = 1 .. L /\ Len(Pairs(Url)) = L
      /\ \A k \in 1 .. L : Pairs(Url)[k] = Split(parts[k], "=")
  BY <1>1, SplitApart DEF Pairs
<1> HIDE DEF page, T
<1>3. page \in Seq(T) /\ Listed(page)
  BY <1>1
<1>4. parts \in Seq(Seq(T)) /\ L \in Nat
  BY <1>3, SplitApart
<1>5. PICK pos : Apart(page, "&", parts, pos)
  BY <1>3, SplitApart
<1> HIDE DEF parts, L
<1>6. ASSUME NEW k \in 1 .. L
      PROVE  /\ pos[k - 1] \in 0 .. Len(page) - 3 /\ pos[k] = pos[k - 1] + 4
             /\ page[pos[k - 1] + 1] \in Names /\ page[pos[k - 1] + 2] = "="
             /\ Len(Split(parts[k], "=")) = 2
             /\ Split(parts[k], "=")[1] = <<page[pos[k - 1] + 1]>>
             /\ Split(parts[k], "=")[2] = <<page[pos[k - 1] + 3]>>
  <2>1. AllPairs(page, parts, pos)
    BY <1>3, <1>4, <1>5, ListedParts
  <2>2. QED
    BY <2>1 DEF AllPairs, PairAt, L
<1>7. ASSUME NEW k \in 1 .. L
      PROVE  /\ Pairs(Url)[k][1] = <<query[pos[k - 1] + 2]>>
             /\ Value(Pairs(Url)[k]) = <<query[pos[k - 1] + 4]>>
  <2>1. PICK o \in 0 .. Len(page) - 3 : o = pos[k - 1]
    BY <1>6
  <2>2. /\ Len(Pairs(Url)[k]) = 2 /\ Pairs(Url)[k][1] = <<page[o + 1]>>
        /\ Pairs(Url)[k][2] = <<page[o + 3]>>
    BY <2>1, <1>2, <1>6
  <2>3. /\ o + 1 \in 1 .. Len(page) /\ (o + 1) + 1 = o + 2
        /\ o + 3 \in 1 .. Len(page) /\ (o + 3) + 1 = o + 4
    BY <1>1
  <2>4. page[o + 1] = query[o + 2] /\ page[o + 3] = query[o + 4]
    BY <2>3, <1>1
  <2>5. QED
    BY <2>1, <2>2, <2>4 DEF Value
<1>8. ASSUME NEW k \in 1 .. L, Pairs(Url)[k][1] = u
      PROVE  pos[k - 1] + 2 \in at
  <2>1. PICK o \in 0 .. Len(page) - 3 : o = pos[k - 1] /\ page[o + 2] = "="
    BY <1>6
  <2>2. <<query[o + 2]>> = <<"userId">>
    BY <2>1, <1>7, <1>8
  <2>3. query[o + 2] = "userId"
    BY <2>2
  <2>4. o + 2 \in 1 .. Len(page) /\ (o + 2) + 1 \in 1 .. Len(query) /\ o + 2 \in 2 .. Len(query)
    BY <1>1
  <2>5. query[(o + 2) + 1] = "="
    BY <2>1, <2>4, <1>1
  <2>6. ~Ends((o + 2) + 1)
    BY <2>4, <2>5, <1>1 DEF Ends
  <2>7. QED
    BY <2>1, <2>3, <2>4, <2>6
<1>9. ASSUME NEW i \in at
      PROVE  \E k \in 1 .. L : i = pos[k - 1] + 2 /\ Pairs(Url)[k][1] = u
  <2>1. /\ i \in 2 .. Len(query) /\ query[i] = "userId"
        /\ i + 1 <= Len(query) /\ query[i + 1] # "&"
    BY <1>1 DEF Ends
  <2>2. /\ i - 1 \in 1 .. Len(page) /\ (i - 1) + 1 = i
        /\ i \in 1 .. Len(page) /\ i - 1 < Len(page)
    BY <2>1, <1>1
  <2>3. page[i - 1] = "userId" /\ page[(i - 1) + 1] # "&"
    BY <2>1, <2>2, <1>1
  <2>4. page[i - 1] \in Names
    BY <2>3 DEF Names
  <2>5. PICK k \in 1 .. Len(parts) : i - 1 = pos[k - 1] + 1
    <3>1. \A j \in 1 .. Len(page) :
              page[j] \in Names /\ j < Len(page) /\ page[j + 1] # "&" =>
                  \E k \in 1 .. Len(parts) : j = pos[k - 1] + 1
      BY <1>3, <1>4, <1>5, NameFirst
    <3>2. QED
      BY <3>1, <2>2, <2>3, <2>4
  <2>6. k \in 1 .. L
    BY DEF L
  <2>7. PICK o \in 0 .. Len(page) - 3 : o = pos[k - 1]
    BY <2>6, <1>6
  <2>8. i = o + 2
    BY <2>1, <2>5, <2>7
  <2>9. Pairs(Url)[k][1] = <<query[i]>>
    BY <2>6, <2>7, <2>8, <1>7
  <2>10. QED
    BY <2>1, <2>6, <2>7, <2>8, <2>9
<1>10. LastWins(Pairs(Url), L, params, u)
  BY <1>1, <1>2, <1>4, PutsLast DEF urlSplit, L
<1> HIDE DEF params, u, at
<1>11. ASSUME at = {}
       PROVE  u \notin DOMAIN params
  BY <1>8, <1>10, <1>11 DEF LastWins
<1>12. ASSUME NEW i \in at, \A j \in at : j <= i
       PROVE  params[u] = <<query[i + 2]>>
  <2>1. PICK k \in 1 .. L : i = pos[k - 1] + 2 /\ Pairs(Url)[k][1] = u
    BY <1>9
  <2>2. ASSUME NEW j \in k + 1 .. L, Pairs(Url)[j][1] = u
        PROVE  FALSE
    <3>1. j \in 1 .. L /\ k - 1 \in 0 .. L /\ j - 1 \in 0 .. L /\ k - 1 < j - 1
      BY <1>4
    <3>2. pos[k - 1] < pos[j - 1]
      BY <3>1, <1>5 DEF Apart, L
    <3>3. PICK o \in 0 .. Len(page) - 3 : o = pos[k - 1]
      BY <1>6
    <3>4. PICK q \in 0 .. Len(page) - 3 : q = pos[j - 1]
      BY <3>1, <1>6
    <3>5. o < q /\ i = o + 2
      BY <3>2, <3>3, <3>4, <2>1
    <3>6. q + 2 \in at
      BY <3>1, <3>4, <2>2, <1>8
    <3>7. q + 2 <= i
      BY <3>6, <1>12
    <3>8. QED
      BY <3>5, <3>7, <1>1
  <2>3. params[u] = Value(Pairs(Url)[k])
    BY <2>1, <2>2, <1>10 DEF LastWins
  <2>4. Value(Pairs(Url)[k]) = <<query[pos[k - 1] + 4]>>
    BY <1>7
  <2>5. PICK o \in 0 .. Len(page) - 3 : o = pos[k - 1]
    BY <1>6
  <2>6. i = o + 2 /\ (o + 2) + 2 = o + 4
    BY <2>1, <2>5
  <2>7. QED
    BY <2>3, <2>4, <2>5, <2>6
<1>13. QED
  BY <1>11, <1>12 DEF LastUserIdRead, at, params, u
\* A query is a sequence of tokens.
LEMMA QueryGrows ==
    ASSUME query \in Seq(Tokens), [NextDay \/ NextToken]_vars
    PROVE  query' \in Seq(Tokens)
<1>1. CASE NextDay
  BY <1>1 DEF NextDay
<1>2. CASE NextToken
  <2>1. PICK x \in Tokens : query' = Append(query, x)
    BY <1>2 DEF NextToken
  <2>2. QED
    BY <2>1
<1>3. CASE UNCHANGED vars
  BY <1>3 DEF vars
<1>4. QED
  BY <1>1, <1>2, <1>3

\* Whatever request is made, of any length: the connection is registered under
\* the last user id of a well-formed one (RequestParamUtil.urlSplit), and under
\* none that is not written behind "userId=" in any other.
THEOREM UserIdReadAlways == Spec => []UserIdRead
<1>1. Init => query \in Seq(Tokens)
  BY DEF Init
<1>2. query \in Seq(Tokens) /\ [NextDay \/ NextToken]_vars => (query \in Seq(Tokens))'
  BY QueryGrows
<1>3. query \in Seq(Tokens) => UserIdRead
  <2>1. ASSUME query \in Seq(Tokens) PROVE UserIdRead
    <3>1. NoStrayUserId
      BY <2>1, NoStray
    <3>2. LastUserIdRead
      <4>1. CASE WellFormed
        BY <2>1, <4>1, LastRead
      <4>2. CASE ~WellFormed
        BY <4>2 DEF LastUserIdRead
      <4>3. QED
        BY <4>1, <4>2
    <3>3. QED
      BY <3>1, <3>2 DEF UserIdRead
  <2>2. QED
    BY <2>1
<1>4. QED
  BY <1>1, <1>2, <1>3, PTL DEF Spec

(***************************************************************************)
(* The calendar.                                                            *)
(***************************************************************************)
LeapDays(y) == IF Leap(y) THEN 1 ELSE 0

LEMMA YearStep ==
    ASSUME NEW y \in Int
    PROVE  YearStart(y) \in Int /\ YearStart(y + 1) = YearStart(y) + 365 + LeapDays(y)
BY DEF YearStart, LeapDays, Leap

LEMMA YearGap ==
    ASSUME NEW y \in Int, NEW z \in Int, y < z
    PROVE  /\ YearStart(y) + 365 * (z - y) <= YearStart(z)
           /\ YearStart(z) <= YearStart(y) + 366 * (z - y)
BY DEF YearStart

LEMMA YearOrder ==
    ASSUME NEW y \in Int, NEW z \in Int, y <= z
    PROVE  YearStart(y) <= YearStart(z)
BY DEF YearStart

LEMMA YearFound ==
    ASSUME NEW n \in Int
    PROVE  YearAt(n) \in Int /\ YearStart(YearAt(n)) <= n /\ n < YearStart(YearAt(n) + 1)
<1> DEFINE near == 1970 + (400 * n) \div 146097
<1>1. near \in Int /\ YearStart(near - 1) <= n /\ n < YearStart(near + 2)
  BY DEF YearStart
<1>2. YearStart(near) \in Int /\ YearStart(near + 1) \in Int
  BY <1>1, YearStep
<1> HIDE DEF near
<1>3. \E y \in near - 1 .. near + 1 : YearStart(y) <= n /\ n < YearStart(y + 1)
  <2>1. (near - 1) + 1 = near /\ (near + 1) + 1 = near + 2
    BY <1>1
  <2>2. CASE n < YearStart(near)
    BY <2>1, <2>2, <1>1
  <2>3. CASE ~(n < YearStart(near)) /\ n < YearStart(near + 1)
    BY <2>3, <1>1, <1>2
  <2>4. CASE ~(n < YearStart(near + 1))
    BY <2>1, <2>4, <1>1, <1>2
  <2>5. QED
    BY <2>2, <2>3, <2>4
<1>4. QED
  BY <1>1, <1>3 DEF YearAt, near

LEMMA YearUnique ==
    ASSUME NEW n \in Int, NEW y \in Int, YearStart(y) <= n, n < YearStart(y + 1)
    PROVE  YearAt(n) = y
<1> DEFINE z == YearAt(n)
<1>1. z \in Int /\ YearStart(z) <= n /\ n < YearStart(z + 1)
  BY YearFound
<1> HIDE DEF z
<1>2. /\ YearStart(y) \in Int /\ YearStart(y + 1) \in Int
      /\ YearStart(z) \in Int /\ YearStart(z + 1) \in Int
  BY <1>1, YearStep
<1>3. ~(z < y)
  <2>1. SUFFICES ASSUME z < y PROVE FALSE
    OBVIOUS
  <2>2. z + 1 \in Int /\ z + 1 <= y
    BY <2>1, <1>1
  <2>3. YearStart(z + 1) <= YearStart(y)
    BY <2>2, YearOrder
  <2>4. QED
    BY <2>3, <1>1, <1>2
<1>4. ~(y < z)
  <2>1. SUFFICES ASSUME y < z PROVE FALSE
    OBVIOUS
  <2>2. y + 1 \in Int /\ y + 1 <= z
    BY <2>1, <1>1
  <2>3. YearStart(y + 1) <= YearStart(z)
    BY <2>2, <1>1, YearOrder
  <2>4. QED
    BY <2>3, <1>1, <1>2
<1>5. QED
  BY <1>1, <1>3, <1>4 DEF z

\* The months of a year.
LEMMA MonthTable ==
    ASSUME NEW y, NEW m \in 1 .. 12
    PROVE  /\ MonthStart(y, m) \in 0 .. 335 /\ MonthLength(y, m) \in 28 .. 31
           /\ MonthStart(y, 1) = 0
           /\ m < 12 => MonthStart(y, m + 1) = MonthStart(y, m) + MonthLength(y, m)
           /\ MonthStart(y, 12) + MonthLength(y, 12) = 365 + LeapDays(y)
<1>1. LeapDays(y) \in 0 .. 1 /\ MonthStart(y, 1) = 0
      /\ MonthStart(y, 12) + MonthLength(y, 12) = 365 + LeapDays(y)
  BY DEF MonthStart, MonthLength, MonthStarts, MonthDays, LeapDays
<1>2. /\ MonthStart(y, m) \in 0 .. 335 /\ MonthLength(y, m) \in 28 .. 31
  BY DEF MonthStart, MonthLength, MonthStarts, MonthDays, LeapDays
<1>3. m < 12 => MonthStart(y, m + 1) = MonthStart(y, m) + MonthLength(y, m)
  BY DEF MonthStart, MonthLength, MonthStarts, MonthDays, LeapDays
<1>4. QED
  BY <1>1, <1>2, <1>3

LEMMA MonthFound ==
    ASSUME NEW y, NEW d \in Int, 0 <= d, d < 365 + LeapDays(y)
    PROVE  /\ MonthAt(y, d) \in 1 .. 12
           /\ MonthStart(y, MonthAt(y, d)) <= d
           /\ d < MonthStart(y, MonthAt(y, d)) + MonthLength(y, MonthAt(y, d))
<1>1. LeapDays(y) \in 0 .. 1
  BY DEF LeapDays
<1>2. \E m \in 1 .. 12 : MonthStart(y, m) <= d /\ d < MonthStart(y, m) + MonthLength(y, m)
  <2>1. SUFFICES ASSUME \A m \in 1 .. 12 :
                            MonthStart(y, m) <= d => MonthStart(y, m) + MonthLength(y, m) <= d
                 PROVE FALSE
    <3>1. \A m \in 1 .. 12 : /\ MonthStart(y, m) \in Int /\ MonthLength(y, m) \in Int
      BY MonthTable
    <3>2. QED
      BY <3>1
  <2>2. ASSUME NEW m \in 1 .. 12, m < 12, MonthStart(y, m) <= d
        PROVE  MonthStart(y, m + 1) <= d
    BY <2>1, <2>2, MonthTable
  <2>3. MonthStart(y, 1) <= d
    <3>1. 1 \in 1 .. 12
      OBVIOUS
    <3>2. QED
      BY <3>1, MonthTable
  <2>4. MonthStart(y, 12) <= d
    <3>1. MonthStart(y, 1 + 1) <= d
      BY <2>2, <2>3
    <3>2. MonthStart(y, 2 + 1) <= d
      BY <2>2, <3>1
    <3>3. MonthStart(y, 3 + 1) <= d
      BY <2>2, <3>2
    <3>4. MonthStart(y, 4 + 1) <= d
      BY <2>2, <3>3
    <3>5. MonthStart(y, 5 + 1) <= d
      BY <2>2, <3>4
    <3>6. MonthStart(y, 6 + 1) <= d
      BY <2>2, <3>5
    <3>7. MonthStart(y, 7 + 1) <= d
      BY <2>2, <3>6
    <3>8. MonthStart(y, 8 + 1) <= d
      BY <2>2, <3>7
    <3>9. MonthStart(y, 9 + 1) <= d
      BY <2>2, <3>8
    <3>10. MonthStart(y, 10 + 1) <= d
      BY <2>2, <3>9
    <3>11. MonthStart(y, 11 + 1) <= d
      BY <2>2, <3>10
    <3>12. QED
      BY <3>11
  <2>5. PICK m \in 1 .. 12 : m = 12
    OBVIOUS
  <2>6. MonthStart(y, m) <= d
    BY <2>4, <2>5
  <2>7. MonthStart(y, m) + MonthLength(y, m) <= d
    BY <2>1, <2>6
  <2>8. MonthStart(y, m) + MonthLength(y, m) = 365 + LeapDays(y)
    BY <2>5, MonthTable
  <2>9. QED
    BY <2>7, <2>8, <1>1
<1>3. QED
  BY <1>2 DEF MonthAt

LEMMA MonthOrder ==
    ASSUME NEW y, NEW l \in 1 .. 12, NEW m \in 1 .. 12, l < m
    PROVE  MonthStart(y, l) + MonthLength(y, l) <= MonthStart(y, m)
BY DEF MonthStart, MonthLength, MonthStarts, MonthDays

LEMMA MonthUnique ==
    ASSUME NEW y, NEW d \in Int, 0 <= d, d < 365 + LeapDays(y),
           NEW m \in 1 .. 12, MonthStart(y, m) <= d, d < MonthStart(y, m) + MonthLength(y, m)
    PROVE  MonthAt(y, d) = m
<1> DEFINE l == MonthAt(y, d)
<1>1. l \in 1 .. 12 /\ MonthStart(y, l) <= d /\ d < MonthStart(y, l) + MonthLength(y, l)
  BY MonthFound
<1> HIDE DEF l
<1>2. /\ MonthStart(y, l) \in Int /\ MonthLength(y, l) \in Int
      /\ MonthStart(y, m) \in Int /\ MonthLength(y, m) \in Int
  BY <1>1, MonthTable
<1>3. ~(l < m)
  BY <1>1, <1>2, MonthOrder
<1>4. ~(m < l)
  BY <1>1, <1>2, MonthOrder
<1>5. QED
  BY <1>1, <1>3, <1>4 DEF l

\* A day and a time of it.
LEMMA TimeParts ==
    ASSUME NEW t \in Int
    PROVE  /\ t \div Day \in Int
           /\ (t % Day) \div 3600 \in 0 .. 23 /\ (t % 3600) \div 60 \in 0 .. 59 /\ (t % 60) \in 0 .. 59
           /\ t = (t \div Day) * Day + ((t % Day) \div 3600) * 3600 + ((t % 3600) \div 60) * 60 + (t % 60)
BY DEF Day

\* The dates the calendar has.
FieldNames == {"year", "month", "day", "hour", "minute", "second"}
IsDate(f) ==
    /\ f \in [year : Int, month : 1 .. 12, day : 1 .. 31,
              hour : 0 .. 23, minute : 0 .. 59, second : 0 .. 59]
    /\ f.day <= MonthLength(f.year, f.month)

DayNumber(f) == YearStart(f.year) + MonthStart(f.year, f.month) + f.day - 1

\* Every second is the one of a date that the calendar has, on its day.
LEMMA FieldsValid ==
    ASSUME NEW t \in Int
    PROVE  IsDate(Fields(t)) /\ Seconds(Fields(t)) = t /\ DayNumber(Fields(t)) = t \div Day
<1> DEFINE n == t \div Day
           y == YearAt(n)
           d == n - YearStart(y)
           m == MonthAt(y, d)
<1>1. n \in Int
  BY TimeParts
<1> HIDE DEF n
<1>2. y \in Int /\ YearStart(y) \in Int /\ YearStart(y) <= n
      /\ n < YearStart(y) + 365 + LeapDays(y) /\ LeapDays(y) \in 0 .. 1
  <2>1. LeapDays(y) \in 0 .. 1
    BY DEF LeapDays
  <2>2. y \in Int /\ YearStart(y) <= n /\ n < YearStart(y + 1)
    BY <1>1, YearFound
  <2>3. QED
    BY <2>1, <2>2, YearStep
<1> HIDE DEF y
<1>3. d \in Int /\ 0 <= d /\ d < 365 + LeapDays(y) /\ YearStart(y) + d = n
  BY <1>1, <1>2
<1> HIDE DEF d
<1>4. m \in 1 .. 12 /\ MonthStart(y, m) <= d /\ d < MonthStart(y, m) + MonthLength(y, m)
  BY <1>3, MonthFound
<1> HIDE DEF m
<1>5. MonthStart(y, m) \in Int /\ MonthLength(y, m) \in 28 .. 31
  BY <1>4, MonthTable
<1> DEFINE day1 == d - MonthStart(y, m) + 1
           h == (t % Day) \div 3600
           mi == (t % 3600) \div 60
           s == t % 60
<1>6. day1 \in 1 .. 31 /\ day1 <= MonthLength(y, m)
      /\ YearStart(y) + MonthStart(y, m) + day1 - 1 = n
  BY <1>2, <1>3, <1>4, <1>5
<1>7. /\ h \in 0 .. 23 /\ mi \in 0 .. 59 /\ s \in 0 .. 59
      /\ t = n * Day + h * 3600 + mi * 60 + s
  BY TimeParts DEF n
<1> HIDE DEF day1, h, mi, s
<1>8. Fields(t) = [year |-> y, month |-> m, day |-> day1,
                   hour |-> h, minute |-> mi, second |-> s]
  BY DEF Fields, n, y, d, m, day1, h, mi, s
<1>9. IsDate(Fields(t))
  BY <1>2, <1>4, <1>6, <1>7, <1>8 DEF IsDate
<1>10. DayNumber(Fields(t)) = n
  BY <1>6, <1>8 DEF DayNumber
<1>11. Seconds(Fields(t)) = t
  <2>1. Seconds(Fields(t)) = (YearStart(y) + MonthStart(y, m) + day1 - 1) * Day + h * 3600 + mi * 60 + s
    BY <1>8 DEF Seconds
  <2>2. QED
    BY <2>1, <1>6, <1>7
<1>12. QED
  BY <1>9, <1>10, <1>11 DEF n

\* Every such date has its second.
THEOREM SecondsFields ==
    ASSUME NEW f, IsDate(f)
    PROVE  Seconds(f) \in Int /\ Seconds(f) \div Day = DayNumber(f) /\ Fields(Seconds(f)) = f
<1>1. PICK y \in Int, m \in 1 .. 12, day1 \in 1 .. 31, h \in 0 .. 23, mi \in 0 .. 59, s \in 0 .. 59 :
          /\ f = [year |-> y, month |-> m, day |-> day1, hour |-> h, minute |-> mi, second |-> s]
          /\ day1 <= MonthLength(y, m)
  BY DEF IsDate
<1> DEFINE d == MonthStart(y, m) + day1 - 1
           n == YearStart(y) + d
           t == Seconds(f)
<1>2. /\ MonthStart(y, m) \in 0 .. 335 /\ MonthLength(y, m) \in 28 .. 31
      /\ MonthStart(y, m) + MonthLength(y, m) <= 365 + LeapDays(y) /\ LeapDays(y) \in 0 .. 1
  <2>1. LeapDays(y) \in 0 .. 1 /\ 12 \in 1 .. 12
    BY DEF LeapDays
  <2>2. /\ MonthStart(y, m) \in 0 .. 335 /\ MonthLength(y, m) \in 28 .. 31
        /\ MonthStart(y, 12) + MonthLength(y, 12) = 365 + LeapDays(y)
    BY <1>1, MonthTable
  <2>3. MonthStart(y, 12) \in 0 .. 335 /\ MonthLength(y, 12) \in 28 .. 31
    BY <2>1, MonthTable
  <2>4. m < 12 => MonthStart(y, m) + MonthLength(y, m) <= MonthStart(y, 12)
    BY <2>1, <1>1, MonthOrder
  <2>5. QED
    BY <2>1, <2>2, <2>3, <2>4, <1>1
<1>3. YearStart(y) \in Int /\ YearStart(y + 1) = YearStart(y) + 365 + LeapDays(y)
  BY <1>1, YearStep
<1>4. /\ d \in Int /\ 0 <= d /\ d < 365 + LeapDays(y)
      /\ MonthStart(y, m) <= d /\ d < MonthStart(y, m) + MonthLength(y, m)
      /\ d - MonthStart(y, m) + 1 = day1
  <2> HIDE DEF d, n, t
  <2>0. MonthStart(y, m) \in Int /\ MonthLength(y, m) \in Int /\ LeapDays(y) \in Int
    BY <1>2
  <2>1. PICK a \in Int, b \in Int, c \in Int :
                a = MonthStart(y, m) /\ b = MonthLength(y, m) /\ c = LeapDays(y)
    BY <2>0
  <2>2. 0 <= a /\ a + b <= 365 + c /\ day1 <= b
    BY <1>1, <1>2, <2>1
  <2>3. d = a + day1 - 1
    BY <2>1 DEF d
  <2>4. d \in Int /\ 0 <= d /\ d < 365 + c /\ a <= d /\ d < a + b /\ d - a + 1 = day1
    BY <2>2, <2>3
  <2>5. QED
    BY <2>1, <2>4
<1> HIDE DEF d
<1>5. n \in Int /\ YearStart(y) <= n /\ n < YearStart(y + 1) /\ n - YearStart(y) = d
  BY <1>3, <1>4, <1>2
<1>6. n = DayNumber(f)
  BY <1>1, <1>2, <1>3 DEF DayNumber, d
<1>7. t = n * Day + h * 3600 + mi * 60 + s
  <2>1. t = DayNumber(f) * Day + h * 3600 + mi * 60 + s
    BY <1>1 DEF Seconds, DayNumber
  <2> HIDE DEF n
  <2>2. QED
    BY <2>1, <1>6
<1> HIDE DEF n, t
<1>8. YearAt(n) = y
  BY <1>1, <1>5, YearUnique
<1>9. MonthAt(y, d) = m
  BY <1>1, <1>4, MonthUnique
<1>10. /\ t \in Int /\ t \div Day = n
       /\ (t % Day) \div 3600 = h /\ (t % 3600) \div 60 = mi /\ (t % 60) = s
  BY <1>5, <1>7 DEF Day
<1>11. Fields(t) = [year |-> y, month |-> m, day |-> day1, hour |-> h, minute |-> mi, second |-> s]
  BY <1>4, <1>5, <1>8, <1>9, <1>10 DEF Fields
<1>12. QED
  BY <1>1, <1>6, <1>10, <1>11 DEF t

(***************************************************************************)
(* Patterns.                                                                *)
(***************************************************************************)
Forms == {"yyyy", "MM", "dd", "HH", "mm", "yyyy-MM", "yyyyMM", FORMAT1, "yyyyMMdd", "Chinese",
          FORMAT2, "yyyyMMddHHmmss", "yyyyMMdd HHmmss"}

LEMMA ShowsOf ==
    /\ Shows("yyyy") = {"year"} /\ Shows("MM") = {"month"} /\ Shows("dd") = {"day"}
    /\ Shows("HH") = {"hour"} /\ Shows("mm") = {"minute"}
    /\ Shows("yyyy-MM") = {"year", "month"} /\ Shows("yyyyMM") = {"year", "month"}
    /\ Shows(FORMAT1) = YMD /\ Shows("yyyyMMdd") = YMD /\ Shows("Chinese") = YMD
    /\ Shows(FORMAT2) = FieldNames /\ Shows("yyyyMMddHHmmss") = FieldNames
    /\ Shows("yyyyMMdd HHmmss") = FieldNames
BY DEF Shows, FORMAT1, FORMAT2, YMD, HMS, FieldNames

\* Some fields of a date, the others as in Epoch.
Masked(f, names) == [k \in FieldNames |-> IF k \in names THEN f[k] ELSE Epoch[k]]

\* Without its month, a day is one of January's.
Whole(names) == "day" \in names => ("year" \in names <=> "month" \in names)

LEMMA ShownMasked ==
    ASSUME NEW t, NEW form
    PROVE  Shown(t, form) = Seconds(Masked(Fields(t), Shows(form)))
<1>1. DOMAIN Epoch = FieldNames
  BY DEF Epoch, FieldNames
<1>2. QED
  BY <1>1 DEF Shown, Masked

LEMMA FormWhole ==
    ASSUME NEW form \in Forms
    PROVE  Shows(form) \subseteq FieldNames /\ Whole(Shows(form))
<1>1. Shows(form) \in {{"year"}, {"month"}, {"day"}, {"hour"}, {"minute"}, {"year", "month"},
                       YMD, FieldNames}
  BY ShowsOf DEF Forms
<1>2. ASSUME NEW names \in {{"year"}, {"month"}, {"day"}, {"hour"}, {"minute"}, {"year", "month"},
                            YMD, FieldNames}
      PROVE  names \subseteq FieldNames /\ Whole(names)
  BY DEF FieldNames, YMD, Whole
<1>3. QED
  BY <1>1, <1>2

LEMMA MaskedDate ==
    ASSUME NEW f, IsDate(f), NEW names \in SUBSET FieldNames, Whole(names)
    PROVE  IsDate(Masked(f, names))
<1> DEFINE g == Masked(f, names)
<1>1. PICK y \in Int, m \in 1 .. 12, d \in 1 .. 31, h \in 0 .. 23, mi \in 0 .. 59, s \in 0 .. 59 :
          /\ f = [year |-> y, month |-> m, day |-> d, hour |-> h, minute |-> mi, second |-> s]
          /\ d <= MonthLength(y, m)
  BY DEF IsDate
<1>2. g = [year   |-> IF "year" \in names THEN y ELSE 1970,
           month  |-> IF "month" \in names THEN m ELSE 1,
           day    |-> IF "day" \in names THEN d ELSE 1,
           hour   |-> IF "hour" \in names THEN h ELSE 0,
           minute |-> IF "minute" \in names THEN mi ELSE 0,
           second |-> IF "second" \in names THEN s ELSE 0]
  BY <1>1 DEF Masked, Epoch, FieldNames
<1>3. g \in [year : Int, month : 1 .. 12, day : 1 .. 31,
             hour : 0 .. 23, minute : 0 .. 59, second : 0 .. 59]
  BY <1>2
<1>4. g.day <= MonthLength(g.year, g.month)
  <2>1. CASE "day" \notin names
    <3>1. MonthLength(g.year, g.month) \in 28 .. 31
      BY <1>3, MonthTable
    <3>2. g.day = 1
      BY <2>1, <1>2
    <3>3. QED
      BY <3>1, <3>2
  <2>2. CASE {"day", "year", "month"} \subseteq names
    BY <2>2, <1>1, <1>2
  <2>3. CASE "year" \notin names /\ "month" \notin names
    <3>1. g.year = 1970 /\ g.month = 1 /\ g.day \in 1 .. 31
      BY <2>3, <1>2
    <3>2. MonthLength(1970, 1) = 31
      BY DEF MonthLength, MonthDays
    <3>3. QED
      BY <3>1, <3>2
  <2>4. QED
    BY <2>1, <2>2, <2>3 DEF Whole
<1>5. QED
  BY <1>3, <1>4 DEF IsDate

\* What a text shows.
LEMMA ShownFields ==
    ASSUME NEW t \in Int, NEW form \in Forms
    PROVE  /\ Shown(t, form) \in Int
           /\ Fields(Shown(t, form)) = Masked(Fields(t), Shows(form))
           /\ IsDate(Masked(Fields(t), Shows(form)))
<1>1. IsDate(Masked(Fields(t), Shows(form)))
  BY FieldsValid, FormWhole, MaskedDate
<1>2. QED
  BY <1>1, SecondsFields, ShownMasked

\* A text is written in another pattern.
LEMMA ShownTwice ==
    ASSUME NEW t \in Int, NEW form \in Forms, NEW other \in Forms,
           Shows(other) \subseteq Shows(form)
    PROVE  Shown(Shown(t, form), other) = Shown(t, other)
<1>1. Masked(Masked(Fields(t), Shows(form)), Shows(other)) = Masked(Fields(t), Shows(other))
  BY DEF Masked
<1>2. QED
  BY <1>1, ShownFields, ShownMasked

LEMMA ShownAll ==
    ASSUME NEW t \in Int, NEW form, Shows(form) = FieldNames
    PROVE  Shown(t, form) = t
<1>1. Masked(Fields(t), FieldNames) = Fields(t)
  <2>1. PICK y \in Int, m \in 1 .. 12, d \in 1 .. 31, h \in 0 .. 23, mi \in 0 .. 59, s \in 0 .. 59 :
            Fields(t) = [year |-> y, month |-> m, day |-> d, hour |-> h, minute |-> mi, second |-> s]
    BY FieldsValid DEF IsDate
  <2>2. QED
    BY <2>1 DEF Masked, FieldNames
<1>2. QED
  BY <1>1, FieldsValid, ShownMasked

\* The date alone: midnight of the day.
LEMMA ShownDay ==
    ASSUME NEW t \in Int, NEW form, Shows(form) = YMD
    PROVE  Shown(t, form) = (t \div Day) * Day
<1>1. PICK y \in Int, m \in 1 .. 12, d \in 1 .. 31, h \in 0 .. 23, mi \in 0 .. 59, s \in 0 .. 59 :
          Fields(t) = [year |-> y, month |-> m, day |-> d, hour |-> h, minute |-> mi, second |-> s]
  BY FieldsValid DEF IsDate
<1>2. Masked(Fields(t), YMD) = [year |-> y, month |-> m, day |-> d, hour |-> 0, minute |-> 0, second |-> 0]
  BY <1>1 DEF Masked, FieldNames, YMD, Epoch
<1>3. DayNumber(Fields(t)) = YearStart(y) + MonthStart(y, m) + d - 1
  BY <1>1 DEF DayNumber
<1>4. Seconds(Masked(Fields(t), YMD)) = (YearStart(y) + MonthStart(y, m) + d - 1) * Day + 0 * 3600 + 0 * 60 + 0
  BY <1>2 DEF Seconds
<1>5. t \div Day \in Int /\ YearStart(y) + MonthStart(y, m) + d - 1 = t \div Day
  BY <1>3, FieldsValid, TimeParts
<1>6. QED
  BY <1>4, <1>5, ShownMasked DEF Day

(***************************************************************************)
(* Conversions.                                                             *)
(***************************************************************************)
InDigits == {FORMAT1, "yyyyMMdd", "yyyyMMddHHmmss"}

LEMMA PatternItself ==
    ASSUME NEW form \in Forms
    PROVE  Pattern(form) = form /\ form # "" /\ form \in ReadBy(form)
BY DEF Pattern, Forms, ReadBy, FORMAT1, FORMAT2

\* A date alone, or a text in digits, is read in any pattern as what it shows.
LEMMA DigitsRead ==
    ASSUME NEW a \in Int, NEW w \in InDigits, NEW form \in Forms
    PROVE  string2Date([form |-> w, at |-> a], form) = Date(Shown(a, form))
<1> DEFINE text == [form |-> w, at |-> a]
           out == [form |-> form, at |-> Shown(a, form)]
<1>1. Compact(w) \in {"yyyyMMdd", "yyyyMMddHHmmss"}
  BY DEF InDigits, Compact, FORMAT1, FORMAT2
<1>2. text.form = w /\ text.at = a
  OBVIOUS
<1>3. Pattern(form) = form /\ form # "" /\ form \in ReadBy(form)
  BY PatternItself
<1> HIDE DEF text
<1>4. formatDate(text, form) = out
  BY <1>1, <1>2, <1>3 DEF formatDate
<1>5. Parse(out, form) = Date(Shown(Shown(a, form), form))
  BY <1>3 DEF Parse
<1>6. QED
  BY <1>3, <1>4, <1>5, ShownTwice DEF string2Date, text

LEMMA AddAgrees ==
    ASSUME NEW a \in Int, NEW w \in InDigits, NEW form \in Forms, NEW field, NEW n
    PROVE  AddToDate(field, n, [form |-> w, at |-> a], form)
           = AddToDate(field, n, Date(Shown(a, form)), form)
<1> DEFINE text == [form |-> w, at |-> a]
           d == Date(Shown(a, form))
<1>1. text.form \notin {"Date", NoDate.form} /\ text # NoText
  BY DEF NoDate, NoText, InDigits, FORMAT1
<1>2. d.form \in {"Date", NoDate.form}
  BY DEF Date
<1>3. string2Date(text, form) = d
  BY DigitsRead
<1> HIDE DEF text, d
<1>4. QED
  BY <1>1, <1>2, <1>3 DEF AddToDate, text, d

LEMMA NotNull ==
    ASSUME NEW a
    PROVE  Date(a) # NoDate /\ Date(a).form = "Date" /\ Date(a).at = a
BY DEF Date, NoDate

LEMMA ReadShows ==
    ASSUME NEW a \in Int, NEW w \in InDigits, NEW form \in Forms
    PROVE  /\ Read([form |-> w, at |-> a], form) = Masked(Fields(a), Shows(form))
           /\ getCalendar(string2Date([form |-> w, at |-> a], form), form) = Shown(a, form)
BY DigitsRead, NotNull, ShownFields DEF Read, getCalendar

LEMMA MaskedKeeps ==
    ASSUME NEW f, NEW names, NEW k \in names, k \in FieldNames
    PROVE  Masked(f, names)[k] = f[k]
BY DEF Masked

LEMMA GettersAgree ==
    ASSUME NEW a \in Int, NEW w \in InDigits,
           NEW text, text = [form |-> w, at |-> a], NEW d, d = Date(a)
    PROVE  /\ getCurrentYear(text) = getCurrentYear(d)
           /\ getCurrentMonth(text) = getCurrentMonth(d)
           /\ getCurrentDay(text) = getCurrentDay(d)
           /\ getCurrentMinute(text) = getCurrentMinute(d)
           /\ getCurrentWeek(text) = getCurrentWeek(d)
<1>1. text.form # "Date"
  BY DEF InDigits, FORMAT1
<1>2. d.form = "Date" /\ d.at = a
  BY DEF Date
<1>3. /\ {"yyyy", FORMAT1, "dd", "mm"} \subseteq Forms
  BY DEF Forms
<1>4. /\ Read(text, "yyyy") = Masked(Fields(a), {"year"})
      /\ Read(text, FORMAT1) = Masked(Fields(a), YMD)
      /\ Read(text, "dd") = Masked(Fields(a), {"day"})
      /\ Read(text, "mm") = Masked(Fields(a), {"minute"})
  <2>1. \A form \in Forms : Read(text, form) = Masked(Fields(a), Shows(form))
    BY ReadShows
  <2>2. QED
    BY <2>1, <1>3, ShowsOf
<1>5. /\ Read(text, "yyyy").year = Fields(a).year
      /\ Read(text, FORMAT1).month = Fields(a).month
      /\ Read(text, "dd").day = Fields(a).day
      /\ Read(text, "mm").minute = Fields(a).minute
  BY <1>4, MaskedKeeps DEF FieldNames, YMD
<1>6. getCalendar(string2Date(text, FORMAT1), FORMAT1) = (a \div Day) * Day
  <2>1. getCalendar(string2Date(text, FORMAT1), FORMAT1) = Shown(a, FORMAT1)
    BY <1>3, ReadShows
  <2>2. QED
    BY <2>1, ShownDay, ShowsOf
<1>7. getCalendar(d, FORMAT1) = a
  BY NotNull DEF getCalendar
<1>8. DayOfWeek((a \div Day) * Day) = DayOfWeek(a)
  <2>1. ((a \div Day) * Day) \div Day = a \div Day
    BY DEF Day
  <2>2. QED
    BY <2>1 DEF DayOfWeek
<1>9. /\ getCurrentYear(text) = getCurrentYear(d)
      /\ getCurrentMonth(text) = getCurrentMonth(d)
      /\ getCurrentDay(text) = getCurrentDay(d)
      /\ getCurrentMinute(text) = getCurrentMinute(d)
  BY <1>1, <1>2, <1>5 DEF getCurrentYear, getCurrentMonth, getCurrentDay, getCurrentMinute
<1>10. getCurrentWeek(text) = getCurrentWeek(d)
  BY <1>1, <1>2, <1>6, <1>7, <1>8 DEF getCurrentWeek
<1>11. QED
  BY <1>9, <1>10

LEMMA TimesInt ==
    ASSUME day \in Int
    PROVE  Times \subseteq Int
<1>1. \A n \in Days : n \in Int
  BY DEF Days
<1>2. ASSUME NEW t \in Times PROVE t \in Int
  <2>1. PICK n \in Days : t \in {n * Day, n * Day + 45296, n * Day + Day - 1}
    BY DEF Times
  <2>2. n * Day \in Int
    BY <1>1 DEF Day
  <2>3. QED
    BY <2>1, <2>2 DEF Day
<1>3. QED
  BY <1>2

LEMMA WrittenForm ==
    ASSUME NEW t \in Int, NEW text \in Written(t)
    PROVE  \E w \in InDigits : text = [form |-> w, at |-> Shown(t, w)] /\ w \in Forms
                               /\ Shown(t, w) \in Int
<1>1. PICK w \in InDigits : text = [form |-> w, at |-> Shown(t, w)]
  BY DEF Written, InDigits
<1>2. w \in Forms
  BY DEF InDigits, Forms
<1>3. QED
  BY <1>1, <1>2, ShownFields

LEMMA Overloads ==
    ASSUME day \in Int
    PROVE  OverloadsAgree
<1> SUFFICES ASSUME NEW t \in Times, NEW text \in Written(t)
             PROVE  /\ \A f \in {FORMAT1, FORMAT2, "yyyyMMddHHmmss"}, n \in {-31, 12} :
                          LET d == Date(Shown(text.at, f)) IN
                          /\ addYearToDate(n, text, f) = addYearToDate(n, d, f)
                          /\ addMothToDate(n, text, f) = addMothToDate(n, d, f)
                          /\ addDayToDate(n, text, f) = addDayToDate(n, d, f)
                          /\ addHourToDate(n, text, f) = addHourToDate(n, d, f)
                          /\ addMinuteToDate(n, text, f) = addMinuteToDate(n, d, f)
                          /\ addSecondToDate(n, text, f) = addSecondToDate(n, d, f)
                    /\ LET d == Date(text.at) IN
                          /\ getCurrentYear(text) = getCurrentYear(d)
                          /\ getCurrentMonth(text) = getCurrentMonth(d)
                          /\ getCurrentDay(text) = getCurrentDay(d)
                          /\ getCurrentMinute(text) = getCurrentMinute(d)
                          /\ getCurrentWeek(text) = getCurrentWeek(d)
  BY DEF OverloadsAgree
<1>1. t \in Int
  BY TimesInt
<1>2. PICK w \in InDigits : text = [form |-> w, at |-> Shown(t, w)] /\ Shown(t, w) \in Int
  BY <1>1, WrittenForm
<1>3. PICK a \in Int : text = [form |-> w, at |-> a] /\ text.at = a
  BY <1>2
<1>4. ASSUME NEW f \in {FORMAT1, FORMAT2, "yyyyMMddHHmmss"}, NEW n, NEW field
      PROVE  AddToDate(field, n, text, f) = AddToDate(field, n, Date(Shown(a, f)), f)
  <2>1. f \in Forms
    BY DEF Forms
  <2>2. QED
    BY <2>1, <1>3, AddAgrees
<1>5. ASSUME NEW f \in {FORMAT1, FORMAT2, "yyyyMMddHHmmss"}, NEW n, NEW d, d = Date(Shown(text.at, f))
      PROVE  /\ addYearToDate(n, text, f) = addYearToDate(n, d, f)
             /\ addMothToDate(n, text, f) = addMothToDate(n, d, f)
             /\ addDayToDate(n, text, f) = addDayToDate(n, d, f)
             /\ addHourToDate(n, text, f) = addHourToDate(n, d, f)
             /\ addMinuteToDate(n, text, f) = addMinuteToDate(n, d, f)
             /\ addSecondToDate(n, text, f) = addSecondToDate(n, d, f)
  BY <1>3, <1>4, <1>5 DEF addYearToDate, addMothToDate, addDayToDate, addHourToDate,
                          addMinuteToDate, addSecondToDate
<1>6. ASSUME NEW d, d = Date(text.at)
      PROVE  /\ getCurrentYear(text) = getCurrentYear(d)
             /\ getCurrentMonth(text) = getCurrentMonth(d)
             /\ getCurrentDay(text) = getCurrentDay(d)
             /\ getCurrentMinute(text) = getCurrentMinute(d)
             /\ getCurrentWeek(text) = getCurrentWeek(d)
  BY <1>3, <1>6, GettersAgree
<1>7. QED
  BY <1>5, <1>6

\* A text is read in the pattern it was written in.
LEMMA WrittenRead ==
    ASSUME NEW t \in Int,
           NEW f \in {"yyyy", "MM", "dd", "HH", "mm", "yyyy-MM", FORMAT1, "yyyyMMddHHmmss"},
           f \in {"HH", "mm"} => Shown(t, f) # 0
    PROVE  string2Date(date2String(Date(t), f), f) = Date(Shown(t, f))
<1> DEFINE text == [form |-> f, at |-> Shown(t, f)]
<1>1. f \in Forms
  BY DEF Forms
<1>2. Pattern(f) = f /\ f # "" /\ f \in ReadBy(f) /\ Shown(Shown(t, f), f) = Shown(t, f)
  BY <1>1, PatternItself, ShownTwice
<1>3. date2String(Date(t), f) = text
  BY <1>2, NotNull DEF date2String
<1>4. Compact(f) = IF f = FORMAT1 THEN "yyyyMMdd" ELSE IF f = "yyyy-MM" THEN "yyyyMM" ELSE f
  BY DEF Compact, FORMAT1, FORMAT2
<1>5. text.form = f /\ text.at = Shown(t, f)
  OBVIOUS
<1>6. formatDate(text, f) = text
  <2>1. CASE f \in {"yyyy", "MM", "dd", "HH", "mm"}
    <3>1. Compact(f) = f /\ f \notin {"yyyyMM", "yyyyMMdd", "yyyyMMddHHmmss"}
      BY <2>1, <1>4 DEF FORMAT1
    <3>2. [text EXCEPT !.form = f] = text
      OBVIOUS
    <3> HIDE DEF text
    <3>3. QED
      BY <3>1, <3>2, <1>5 DEF formatDate
  <2>2. CASE f \in {"yyyy-MM", FORMAT1, "yyyyMMddHHmmss"}
    <3>1. Compact(f) \in {"yyyyMM", "yyyyMMdd", "yyyyMMddHHmmss"}
      BY <2>2, <1>4 DEF FORMAT1
    <3>2. text = [form |-> f, at |-> Shown(Shown(t, f), f)]
      BY <1>2
    <3> HIDE DEF text
    <3>3. QED
      BY <3>1, <3>2, <1>2, <1>5 DEF formatDate
  <2>3. QED
    BY <2>1, <2>2
<1> HIDE DEF text
<1>7. Parse(text, f) = Date(Shown(t, f))
  BY <1>2, <1>5 DEF Parse
<1>8. QED
  BY <1>2, <1>3, <1>6, <1>7 DEF string2Date

LEMMA ReadBack ==
    ASSUME day \in Int
    PROVE  TextsReadBack
<1>1. ASSUME NEW t \in Times, NEW text \in Written(t) \cup {date2String(Date(t), FORMAT2)}
      PROVE  formatString(formatString(text)) = text
  <2>1. PICK w, a : /\ w \in {FORMAT1, "yyyyMMdd", "yyyyMMddHHmmss", FORMAT2}
                   /\ text = [form |-> w, at |-> a]
    <3>1. CASE text \in Written(t)
      BY <3>1 DEF Written
    <3>2. CASE text = date2String(Date(t), FORMAT2)
      <4>1. FORMAT2 \in Forms
        BY DEF Forms
      <4>2. text = [form |-> FORMAT2, at |-> Shown(t, FORMAT2)]
        BY <4>1, <3>2, NotNull, PatternItself DEF date2String
      <4>3. QED
        BY <4>2
    <3>3. QED
      BY <3>1, <3>2
  <2>2. formatString(text) =
            [form |-> IF w = FORMAT1 THEN "yyyyMMdd" ELSE IF w = "yyyyMMdd" THEN FORMAT1
                      ELSE IF w = FORMAT2 THEN "yyyyMMddHHmmss" ELSE FORMAT2, at |-> a]
    BY <2>1 DEF formatString, FORMAT1, FORMAT2
  <2>3. QED
    BY <2>1, <2>2 DEF formatString, FORMAT1, FORMAT2
<1>2. ASSUME NEW t \in Times,
             NEW f \in {"yyyy", "MM", "dd", "HH", "mm", "yyyy-MM", FORMAT1, "yyyyMMddHHmmss"},
             f \in {"HH", "mm"} => Shown(t, f) # 0
      PROVE  string2Date(date2String(Date(t), f), f) = Date(Shown(t, f))
  BY <1>2, TimesInt, WrittenRead
<1>3. QED
  BY <1>1, <1>2 DEF TextsReadBack

\* Whole hours and the minutes left over.
SpanParted(b, n) ==
    /\ Quotient(Remainder(b, n), 3600) = b \div 3600
    /\ Quotient(Remainder(b, 3600), 60) = (b % 3600) \div 60
    /\ Quotient(Remainder(-b, n), 3600) = -(b \div 3600)
    /\ Quotient(Remainder(-b, 3600), 60) = -((b % 3600) \div 60)
    /\ 60 * (b \div 3600) + ((b % 3600) \div 60) = b \div 60

LEMMA SpanParts ==
    ASSUME NEW n \in Int, NEW b \in Int, 0 <= b, b < n
    PROVE  SpanParted(b, n)
<1>1. Remainder(b, n) = b /\ Remainder(-b, n) = -b
  <2>1. b \div n = 0 /\ (-(-b)) = b
    OBVIOUS
  <2>2. Quotient(b, n) = 0 /\ Quotient(-b, n) = 0
    BY <2>1 DEF Quotient
  <2>3. n * 0 = 0 /\ b - 0 = b /\ -b - 0 = -b
    OBVIOUS
  <2>4. QED
    BY <2>2, <2>3 DEF Remainder
<1>2. Remainder(b, 3600) = (b % 3600) /\ Remainder(-b, 3600) = -(b % 3600)
  BY DEF Remainder, Quotient
<1>3. PICK r \in 0 .. 3599 : r = (b % 3600)
  OBVIOUS
<1>4. Quotient(b, 3600) = b \div 3600 /\ Quotient(-b, 3600) = -(b \div 3600)
  BY DEF Quotient
<1>5. Quotient(r, 60) = r \div 60 /\ Quotient(-r, 60) = -(r \div 60)
  BY DEF Quotient
<1>6. 60 * (b \div 3600) + ((b % 3600) \div 60) = b \div 60
  OBVIOUS
<1>7. Quotient(Remainder(b, n), 3600) = b \div 3600 /\ Quotient(Remainder(-b, n), 3600) = -(b \div 3600)
  BY <1>1, <1>4
<1>8. /\ Quotient(Remainder(b, 3600), 60) = (b % 3600) \div 60
      /\ Quotient(Remainder(-b, 3600), 60) = -((b % 3600) \div 60)
  BY <1>2, <1>3, <1>5
<1>9. QED
  BY <1>6, <1>7, <1>8 DEF SpanParted

\* A text in FORMAT2 is read as the date it shows.
LEMMA FullRead ==
    ASSUME NEW p \in Int, NEW s, s.form = FORMAT2, s.at = p
    PROVE  Parse(s, FORMAT2) = Date(p)
<1>1. Shows(FORMAT2) = FieldNames
  BY ShowsOf
<1>2. Shown(p, FORMAT2) = p
  BY <1>1, ShownAll
<1>3. FORMAT2 \in Forms
  BY DEF Forms
<1>4. FORMAT2 \in ReadBy(FORMAT2)
  BY <1>3, PatternItself
<1>5. QED
  BY <1>2, <1>4 DEF Parse

LEMMA TimeBetween ==
    ASSUME NEW p \in Int, NEW q \in Int,
           NEW s, s.form = FORMAT2, s.at = p, NEW e, e.form = FORMAT2, e.at = q
    PROVE  /\ compareTime(s, e, 1) = Quotient(Remainder(q - p, 24 * 36000), 3600)
           /\ compareTime(s, e, 2) = Quotient(Remainder(q - p, 3600), 60)
<1>1. e # NoText
  <2>1. NoText.form # FORMAT2
    BY DEF NoText, FORMAT2
  <2>2. QED
    BY <2>1
<1>2. Parse(s, FORMAT2) = Date(p) /\ Parse(e, FORMAT2) = Date(q)
  BY FullRead
<1>3. Date(p) # NoDate /\ Date(q) # NoDate /\ Date(p).at = p /\ Date(q).at = q
  BY NotNull
<1>4. QED
  BY <1>1, <1>2, <1>3 DEF compareTime

LEMMA SpanBound ==
    ASSUME NEW days \in {0, 1, 9}, NEW seconds \in {0, 3599, 86399}
    PROVE  /\ days * Day + seconds \in Int
           /\ days * Day + seconds >= 0 /\ days * Day + seconds < 24 * 36000
<1>1. days \in Int /\ days < 10 /\ days >= 0
  OBVIOUS
<1>2. seconds \in Int /\ seconds < 86400 /\ seconds >= 0
  OBVIOUS
<1>3. QED
  BY <1>1, <1>2 DEF Day

LEMMA SpanTwoWays ==
    ASSUME NEW t \in Int, NEW u \in Int, NEW n \in Int, t <= u, u - t < n
    PROVE  \E h, m \in Int :
              /\ Quotient(Remainder(u - t, n), 3600) = h /\ Quotient(Remainder(u - t, 3600), 60) = m
              /\ Quotient(Remainder(t - u, n), 3600) = -h /\ Quotient(Remainder(t - u, 3600), 60) = -m
              /\ 60 * h + m = (u - t) \div 60
<1>1. PICK b \in Int : b = u - t /\ t - u = -b /\ 0 <= b /\ b < n
  OBVIOUS
<1>2. /\ b \div 3600 \in Int /\ (b % 3600) \div 60 \in Int
  OBVIOUS
<1>3. SpanParted(b, n)
  BY <1>1, SpanParts
<1>4. QED
  BY <1>1, <1>2, <1>3 DEF SpanParted

LEMMA SpanHours ==
    ASSUME NEW t \in Int, NEW u \in Int, t <= u, u - t < 24 * 36000,
           NEW s, s.form = FORMAT2, s.at = t, NEW e, e.form = FORMAT2, e.at = u
    PROVE  /\ 60 * compareTime(s, e, 1) + compareTime(s, e, 2) = (e.at - s.at) \div 60
           /\ compareTime(e, s, 1) = -compareTime(s, e, 1)
           /\ compareTime(e, s, 2) = -compareTime(s, e, 2)
<1>1. PICK n \in Int : n = 24 * 36000
  OBVIOUS
<1>2. u - t < n
  BY <1>1
<1>3. /\ compareTime(s, e, 1) = Quotient(Remainder(u - t, n), 3600)
      /\ compareTime(s, e, 2) = Quotient(Remainder(u - t, 3600), 60)
      /\ compareTime(e, s, 1) = Quotient(Remainder(t - u, n), 3600)
      /\ compareTime(e, s, 2) = Quotient(Remainder(t - u, 3600), 60)
  BY <1>1, TimeBetween
<1>4. PICK h, m \in Int :
          /\ Quotient(Remainder(u - t, n), 3600) = h /\ Quotient(Remainder(u - t, 3600), 60) = m
          /\ Quotient(Remainder(t - u, n), 3600) = -h /\ Quotient(Remainder(t - u, 3600), 60) = -m
          /\ 60 * h + m = (u - t) \div 60
  BY <1>2, SpanTwoWays
<1>5. QED
  BY <1>3, <1>4

LEMMA Hours ==
    ASSUME day \in Int
    PROVE  HoursAndMinutes
<1>1. ASSUME NEW t \in Times, NEW days \in {0, 1, 9}, NEW seconds \in {0, 3599, 86399},
             NEW s, s = [form |-> FORMAT2, at |-> t],
             NEW e, e = [form |-> FORMAT2, at |-> t + days * Day + seconds]
      PROVE  /\ 60 * compareTime(s, e, 1) + compareTime(s, e, 2) = (e.at - s.at) \div 60
             /\ \A type \in 1 .. 2 : compareTime(e, s, type) = -compareTime(s, e, type)
  <2>1. t \in Int
    BY TimesInt
  <2>2. PICK c \in Int : c = days * Day /\ c + seconds \in Int /\ c + seconds >= 0
                        /\ c + seconds < 24 * 36000
    <3>1. days * Day \in Int
      BY DEF Day
    <3>2. QED
      BY <3>1, SpanBound
  <2>3. PICK u \in Int : u = t + c + seconds /\ t <= u /\ u - t < 24 * 36000
    <3>1. seconds \in Int
      OBVIOUS
    <3>2. QED
      BY <2>1, <2>2, <3>1
  <2>4. s.form = FORMAT2 /\ s.at = t /\ e.form = FORMAT2 /\ e.at = u
    BY <1>1, <2>2, <2>3
  <2>5. /\ 60 * compareTime(s, e, 1) + compareTime(s, e, 2) = (e.at - s.at) \div 60
        /\ compareTime(e, s, 1) = -compareTime(s, e, 1)
        /\ compareTime(e, s, 2) = -compareTime(s, e, 2)
    BY <2>1, <2>3, <2>4, SpanHours
  <2>6. QED
    BY <2>5
<1>2. QED
  BY <1>1 DEF HoursAndMinutes

(***************************************************************************)
(* Weeks.                                                                   *)
(***************************************************************************)
LEMMA DaysShift ==
    ASSUME NEW t \in Int, NEW c \in Int
    PROVE  t + c * Day \in Int /\ (t + c * Day) \div Day = (t \div Day) + c
BY DEF Day

LEMMA WeekEnds ==
    ASSUME NEW t \in Int, NEW w, w = DayOfWeek(t), NEW c \in Int, c < 8, c > 1
    PROVE  /\ w \in 1 .. 7
           /\ t + (c - w) * Day \in Int /\ DayOfWeek(t + (c - w) * Day) = c
           /\ DayOfWeek(t + (c - w + 6) * Day) = c - 1
<1>1. PICK n \in Int : n = t \div Day
  BY DEF Day
<1>2. w \in 1 .. 7 /\ w = ((n + 4) % 7) + 1
  BY <1>1 DEF DayOfWeek
<1>3. PICK k \in Int : k = c - w
  BY <1>2
<1>4. (t + k * Day) \in Int /\ (t + k * Day) \div Day = n + k /\ (t + (k + 6) * Day) \div Day = n + (k + 6)
  <2>1. PICK l \in Int : l = k + 6
    OBVIOUS
  <2>2. (t + k * Day) \in Int /\ (t + k * Day) \div Day = n + k /\ (t + l * Day) \div Day = n + l
    BY <1>1, DaysShift
  <2>3. QED
    BY <2>1, <2>2
<1>5. ((n + k + 4) % 7) + 1 = c /\ ((n + (k + 6) + 4) % 7) + 1 = c - 1
  BY <1>2, <1>3
<1>6. QED
  BY <1>2, <1>3, <1>4, <1>5 DEF DayOfWeek

LEMMA Weeks ==
    ASSUME day \in Int
    PROVE  WeekEncloses
<1>1. \A a : getCurrentWeek(Date(a)) = DayOfWeek(a) - 1
  BY NotNull DEF getCurrentWeek, getCalendar
<1>2. ASSUME NEW t \in Int, NEW p, p = t + (2 - DayOfWeek(t)) * Day,
             NEW q, q = t + (2 - DayOfWeek(t) + 6) * Day
      PROVE  /\ DayOfWeek(p) - 1 = 1 /\ DayOfWeek(q) - 1 = 0
             /\ q - p = 6 * Day
             /\ DayOfWeek(t) - 1 # 0 => p <= t /\ t <= q
  <2>1. PICK w \in 1 .. 7 : w = DayOfWeek(t)
    BY WeekEnds
  <2>2. DayOfWeek(p) = 2 /\ DayOfWeek(q) = 1
    BY <1>2, WeekEnds
  <2>3. q - p = 6 * Day /\ (w - 1 # 0 => p <= t /\ t <= q)
    BY <1>2, <2>1 DEF Day
  <2>4. QED
    BY <2>1, <2>2, <2>3
<1>3. ASSUME NEW t \in Times,
             NEW first, first = getWeekFirstDate(Date(t)),
             NEW last, last = geWeektLastDate(Date(t))
      PROVE  /\ getCurrentWeek(first) = 1 /\ getCurrentWeek(last) = 0
             /\ last.at - first.at = 6 * Day
             /\ getCurrentWeek(Date(t)) # 0 => first.at <= t /\ t <= last.at
  <2>1. t \in Int
    BY TimesInt
  <2>2. PICK p, q : /\ p = t + (2 - DayOfWeek(t)) * Day
                    /\ q = t + (2 - DayOfWeek(t) + 6) * Day
    OBVIOUS
  <2>3. first = Date(p) /\ last = Date(q)
    BY <1>3, <2>2, NotNull DEF getWeekFirstDate, geWeektLastDate
  <2>4. first.at = p /\ last.at = q
    BY <2>3, NotNull
  <2>5. QED
    BY <1>1, <1>2, <2>1, <2>2, <2>3, <2>4
<1>4. QED
  BY <1>3 DEF WeekEncloses

(***************************************************************************)
(* Months, numbered through the years.                                      *)
(***************************************************************************)
Index(t) == Fields(t).year * 12 + Fields(t).month - 1
MonthDay(m) == YearStart(m \div 12) + MonthStart(m \div 12, (m % 12) + 1)
MonthLen(m) == MonthLength(m \div 12, (m % 12) + 1)
MonthDate(m, d) == [year |-> m \div 12, month |-> (m % 12) + 1, day |-> d,
                    hour |-> 0, minute |-> 0, second |-> 0]

LEMMA IndexParts ==
    ASSUME NEW m \in Int
    PROVE  m \div 12 \in Int /\ (m % 12) + 1 \in 1 .. 12 /\ m = (m \div 12) * 12 + (m % 12)
OBVIOUS

LEMMA IndexWhole ==
    ASSUME NEW y \in Int, NEW l \in 1 .. 12
    PROVE  (y * 12 + l - 1) \div 12 = y /\ ((y * 12 + l - 1) % 12) + 1 = l
OBVIOUS

LEMMA IndexFields ==
    ASSUME NEW t \in Int
    PROVE  /\ Index(t) \in Int
           /\ Fields(t).year = Index(t) \div 12 /\ Fields(t).month = (Index(t) % 12) + 1
<1>1. PICK y \in Int, l \in 1 .. 12 : y = Fields(t).year /\ l = Fields(t).month
  BY FieldsValid DEF IsDate
<1>2. QED
  BY <1>1, IndexWhole DEF Index

LEMMA StartsKnown ==
    ASSUME NEW y \in Int, NEW m \in 1 .. 12
    PROVE  YearStart(y) \in Int /\ MonthStart(y, m) \in Int
<1>1. YearStart(y) \in Int
  BY YearStep
<1>2. MonthStart(y, m) \in 0 .. 335
  BY MonthTable
<1>3. QED
  BY <1>1, <1>2

LEMMA MonthKnown ==
    ASSUME NEW m \in Int
    PROVE  MonthDay(m) \in Int /\ MonthLen(m) \in 28 .. 31
<1>1. PICK y \in Int, l \in 1 .. 12 : y = m \div 12 /\ l = (m % 12) + 1
  BY IndexParts
<1>2. YearStart(y) \in Int /\ MonthStart(y, l) \in Int
  BY StartsKnown
<1>3. MonthLength(y, l) \in 28 .. 31
  BY MonthTable
<1>4. MonthDay(m) = YearStart(y) + MonthStart(y, l) /\ MonthLen(m) = MonthLength(y, l)
  BY <1>1 DEF MonthDay, MonthLen
<1>5. QED
  BY <1>2, <1>3, <1>4

\* The days of a month.
LEMMA DayOfMonth ==
    ASSUME NEW m \in Int, NEW e \in Int, 0 <= e, e < MonthLen(m)
    PROVE  Fields((MonthDay(m) + e) * Day) = MonthDate(m, e + 1)
<1> DEFINE f == MonthDate(m, e + 1)
<1>1. PICK y \in Int, l \in 1 .. 12 : y = m \div 12 /\ l = (m % 12) + 1
  BY IndexParts
<1>2. f = [year |-> y, month |-> l, day |-> e + 1, hour |-> 0, minute |-> 0, second |-> 0]
  BY <1>1 DEF MonthDate
<1>3. MonthLen(m) = MonthLength(y, l) /\ MonthLength(y, l) \in 28 .. 31
  BY <1>1, MonthKnown DEF MonthLen
<1>4. e + 1 \in 1 .. 31 /\ e + 1 <= MonthLength(y, l)
  BY <1>3
<1> HIDE DEF f
<1>5. IsDate(f)
  BY <1>2, <1>4 DEF IsDate
<1>6. Seconds(f) = (YearStart(y) + MonthStart(y, l) + (e + 1) - 1) * Day + 0 * 3600 + 0 * 60 + 0
  BY <1>2 DEF Seconds
<1>7. YearStart(y) + MonthStart(y, l) = MonthDay(m)
  BY <1>1 DEF MonthDay
<1>8. YearStart(y) \in Int /\ MonthStart(y, l) \in Int
  BY StartsKnown
<1>9. Seconds(f) = (MonthDay(m) + e) * Day
  <2>1. PICK n \in Int : n = MonthDay(m) + e /\ n = YearStart(y) + MonthStart(y, l) + (e + 1) - 1
    BY <1>7, <1>8
  <2>2. QED
    BY <1>6, <2>1 DEF Day
<1>10. QED
  BY <1>5, <1>9, SecondsFields DEF f

LEMMA DayIndex ==
    ASSUME NEW m \in Int, NEW e \in Int, 0 <= e, e < MonthLen(m)
    PROVE  (MonthDay(m) + e) * Day \in Int /\ Index((MonthDay(m) + e) * Day) = m
<1>1. (MonthDay(m) + e) * Day \in Int
  <2>1. PICK n \in Int : n = MonthDay(m) + e
    BY MonthKnown
  <2>2. QED
    BY <2>1 DEF Day
<1>2. Fields((MonthDay(m) + e) * Day) = MonthDate(m, e + 1)
  BY DayOfMonth
<1>3. MonthDate(m, e + 1).year = m \div 12 /\ MonthDate(m, e + 1).month = (m % 12) + 1
  BY DEF MonthDate
<1>4. Index((MonthDay(m) + e) * Day) = (m \div 12) * 12 + ((m % 12) + 1) - 1
  BY <1>2, <1>3 DEF Index
<1>5. QED
  BY <1>1, <1>4, IndexParts

\* Without its day, a date is the first of its month.
LEMMA MonthShown ==
    ASSUME NEW t \in Int
    PROVE  Shown(t, "yyyy-MM") = MonthDay(Index(t)) * Day
<1>1. PICK y \in Int, m \in 1 .. 12, d \in 1 .. 31, h \in 0 .. 23, mi \in 0 .. 59, s \in 0 .. 59 :
          Fields(t) = [year |-> y, month |-> m, day |-> d, hour |-> h, minute |-> mi, second |-> s]
  BY FieldsValid DEF IsDate
<1>2. Masked(Fields(t), {"year", "month"})
      = [year |-> y, month |-> m, day |-> 1, hour |-> 0, minute |-> 0, second |-> 0]
  BY <1>1 DEF Masked, FieldNames, Epoch
<1>3. Seconds(Masked(Fields(t), {"year", "month"}))
      = (YearStart(y) + MonthStart(y, m) + 1 - 1) * Day + 0 * 3600 + 0 * 60 + 0
  BY <1>2 DEF Seconds
<1>4. y = Index(t) \div 12 /\ m = (Index(t) % 12) + 1
  BY <1>1, IndexFields
<1>5. MonthDay(Index(t)) = YearStart(y) + MonthStart(y, m)
  BY <1>4 DEF MonthDay
<1>6. YearStart(y) \in Int /\ MonthStart(y, m) \in Int
  BY StartsKnown
<1>7. Seconds(Masked(Fields(t), {"year", "month"})) = MonthDay(Index(t)) * Day
  <2>1. PICK n \in Int : n = MonthDay(Index(t)) /\ n = YearStart(y) + MonthStart(y, m) + 1 - 1
    BY <1>5, <1>6
  <2>2. QED
    BY <1>3, <2>1 DEF Day
<1>8. QED
  BY <1>7, ShownMasked, ShowsOf

\* Without its month, the first of its year.
LEMMA YearShown ==
    ASSUME NEW t \in Int
    PROVE  Shown(t, "yyyy") = YearStart(Fields(t).year) * Day
<1>1. PICK y \in Int, m \in 1 .. 12, d \in 1 .. 31, h \in 0 .. 23, mi \in 0 .. 59, s \in 0 .. 59 :
          Fields(t) = [year |-> y, month |-> m, day |-> d, hour |-> h, minute |-> mi, second |-> s]
  BY FieldsValid DEF IsDate
<1>2. Masked(Fields(t), {"year"})
      = [year |-> y, month |-> 1, day |-> 1, hour |-> 0, minute |-> 0, second |-> 0]
  BY <1>1 DEF Masked, FieldNames, Epoch
<1>3. Seconds(Masked(Fields(t), {"year"}))
      = (YearStart(y) + MonthStart(y, 1) + 1 - 1) * Day + 0 * 3600 + 0 * 60 + 0
  BY <1>2 DEF Seconds
<1>4. YearStart(y) \in Int /\ MonthStart(y, 1) = 0
  <2>1. YearStart(y) \in Int
    BY YearStep
  <2>2. MonthStart(y, 1) = 0
    BY <1>1, MonthTable
  <2>3. QED
    BY <2>1, <2>2
<1>5. Seconds(Masked(Fields(t), {"year"})) = YearStart(y) * Day
  <2>1. PICK n \in Int : n = YearStart(y) /\ n = YearStart(y) + MonthStart(y, 1) + 1 - 1
    BY <1>4
  <2>2. QED
    BY <1>3, <2>1 DEF Day
<1>6. Fields(t).year = y
  BY <1>1
<1>7. Shows("yyyy") = {"year"}
  BY ShowsOf
<1>8. QED
  BY <1>5, <1>6, <1>7, ShownMasked

Moved(f, z, n, c) == [f EXCEPT !.year = z, !.month = n, !.day = c]

LEMMA DateMoved ==
    ASSUME NEW y, NEW l, NEW d, NEW h, NEW mi, NEW s, NEW f,
           f = [year |-> y, month |-> l, day |-> d, hour |-> h, minute |-> mi, second |-> s],
           NEW z, NEW n, NEW c
    PROVE  Moved(f, z, n, c)
           = [year |-> z, month |-> n, day |-> c, hour |-> h, minute |-> mi, second |-> s]
<1>1. PICK f1 : f1 = [year |-> z, month |-> l, day |-> d, hour |-> h, minute |-> mi, second |-> s]
  OBVIOUS
<1>2. PICK f2 : f2 = [year |-> z, month |-> n, day |-> d, hour |-> h, minute |-> mi, second |-> s]
  OBVIOUS
<1>3. [f EXCEPT !.year = z] = f1
  BY <1>1
<1>4. [f1 EXCEPT !.month = n] = f2
  BY <1>1, <1>2
<1>5. [f2 EXCEPT !.day = c]
      = [year |-> z, month |-> n, day |-> c, hour |-> h, minute |-> mi, second |-> s]
  BY <1>2
<1>6. QED
  BY <1>3, <1>4, <1>5 DEF Moved

LEMMA AddedMoved ==
    ASSUME NEW t, NEW k, NEW f, f = Fields(t), NEW m, m = f.year * 12 + f.month - 1 + k,
           NEW z, z = m \div 12, NEW n, n = (m % 12) + 1, NEW last, last = MonthLength(z, n)
    PROVE  MonthsAdded(t, k) = Seconds(Moved(f, z, n, IF f.day > last THEN last ELSE f.day))
BY DEF MonthsAdded, Moved

\* Calendar.add of months counts them.
LEMMA MonthsCounted ==
    ASSUME NEW t \in Int, NEW k \in Int
    PROVE  MonthsAdded(t, k) \in Int /\ Index(MonthsAdded(t, k)) = Index(t) + k
<1>1. PICK y \in Int, l \in 1 .. 12, d \in 1 .. 31, h \in 0 .. 23, mi \in 0 .. 59, s \in 0 .. 59 :
          Fields(t) = [year |-> y, month |-> l, day |-> d, hour |-> h, minute |-> mi, second |-> s]
  BY FieldsValid DEF IsDate
<1> DEFINE m == y * 12 + l - 1 + k
           last == MonthLength(m \div 12, (m % 12) + 1)
           g == [year |-> m \div 12, month |-> (m % 12) + 1, day |-> IF d > last THEN last ELSE d,
                 hour |-> h, minute |-> mi, second |-> s]
<1>2. m \in Int /\ m = Index(t) + k
  BY <1>1 DEF Index
<1>3. MonthsAdded(t, k) = Seconds(g)
  <2>1. PICK f : f = Fields(t) /\ f.year * 12 + f.month - 1 + k = m /\ f.day = d
    BY <1>1
  <2> HIDE DEF m
  <2>2. PICK z, n : z = m \div 12 /\ n = (m % 12) + 1 /\ last = MonthLength(z, n)
    OBVIOUS
  <2> HIDE DEF last
  <2>3. MonthsAdded(t, k) = Seconds(Moved(f, z, n, IF d > last THEN last ELSE d))
    BY <2>1, <2>2, AddedMoved
  <2>4. Moved(f, z, n, IF d > last THEN last ELSE d) = g
    BY <1>1, <2>1, <2>2, DateMoved
  <2>5. QED
    BY <2>3, <2>4
<1> HIDE DEF m
<1>4. last \in 28 .. 31
  BY <1>2, MonthKnown DEF MonthLen
<1>5. PICK z \in Int, n \in 1 .. 12 : z = m \div 12 /\ n = (m % 12) + 1 /\ m = z * 12 + n - 1
  BY <1>2, IndexParts
<1>6. PICK c \in 1 .. 31 : c = (IF d > last THEN last ELSE d) /\ c <= MonthLength(z, n)
  BY <1>4, <1>5
<1>7. g = [year |-> z, month |-> n, day |-> c, hour |-> h, minute |-> mi, second |-> s]
  BY <1>5, <1>6
<1> HIDE DEF g, last
<1>8. IsDate(g)
  BY <1>6, <1>7 DEF IsDate
<1>9. MonthsAdded(t, k) \in Int /\ Fields(MonthsAdded(t, k)) = g
  BY <1>3, <1>8, SecondsFields
<1>10. QED
  BY <1>2, <1>5, <1>7, <1>9 DEF Index

LEMMA FirstsAdded ==
    ASSUME NEW m \in Int, NEW k \in Int
    PROVE  MonthsAdded(MonthDay(m) * Day, k) = MonthDay(m + k) * Day
<1> DEFINE t == MonthDay(m) * Day
<1>1. PICK n \in Int : n = MonthDay(m) /\ n + 0 = n
  BY MonthKnown
<1>2. 0 <= 0 /\ 0 < MonthLen(m) /\ 0 + 1 = 1
  BY MonthKnown
<1>3. Fields(t) = MonthDate(m, 1)
  <2>1. Fields((MonthDay(m) + 0) * Day) = MonthDate(m, 0 + 1)
    BY <1>2, DayOfMonth
  <2>2. QED
    BY <1>1, <1>2, <2>1
<1> HIDE DEF t
<1>4. PICK y \in Int, l \in 1 .. 12 : y = m \div 12 /\ l = (m % 12) + 1 /\ y * 12 + l - 1 + k = m + k
  BY IndexParts
<1>5. PICK j \in Int : j = m + k
  OBVIOUS
<1>6. PICK z \in Int, r \in 1 .. 12 : z = j \div 12 /\ r = (j % 12) + 1
  BY IndexParts
<1>7. MonthLength(z, r) \in 28 .. 31
  BY MonthTable
<1>8. MonthsAdded(t, k) = Seconds([year |-> z, month |-> r, day |-> 1,
                                   hour |-> 0, minute |-> 0, second |-> 0])
  <2>1. PICK f : f = Fields(t)
                 /\ f = [year |-> y, month |-> l, day |-> 1, hour |-> 0, minute |-> 0, second |-> 0]
    BY <1>3, <1>4 DEF MonthDate
  <2>2. f.year * 12 + f.month - 1 + k = j /\ f.day = 1
    BY <2>1, <1>4, <1>5
  <2>3. PICK last : last = MonthLength(z, r) /\ ~(1 > last)
    BY <1>7
  <2>4. MonthsAdded(t, k) = Seconds(Moved(f, z, r, IF f.day > last THEN last ELSE f.day))
    <3>1. f = Fields(t) /\ j = f.year * 12 + f.month - 1 + k /\ last = MonthLength(z, r)
      BY <2>1, <2>2, <2>3
    <3>2. QED
      BY <3>1, <1>6, AddedMoved
  <2>5. (IF f.day > last THEN last ELSE f.day) = 1
    BY <2>2, <2>3
  <2>6. Moved(f, z, r, 1)
        = [year |-> z, month |-> r, day |-> 1, hour |-> 0, minute |-> 0, second |-> 0]
    BY <2>1, DateMoved
  <2>7. QED
    BY <2>4, <2>5, <2>6
<1>9. MonthsAdded(t, k) = (YearStart(z) + MonthStart(z, r) + 1 - 1) * Day + 0 * 3600 + 0 * 60 + 0
  BY <1>8 DEF Seconds
<1>10. MonthDay(j) = YearStart(z) + MonthStart(z, r) /\ MonthDay(j) \in Int
       /\ YearStart(z) \in Int /\ MonthStart(z, r) \in 0 .. 335
  <2>1. MonthDay(j) = YearStart(z) + MonthStart(z, r)
    BY <1>6 DEF MonthDay
  <2>2. MonthDay(j) \in Int
    BY <1>5, MonthKnown
  <2>3. YearStart(z) \in Int
    BY <1>6, YearStep
  <2>4. MonthStart(z, r) \in 0 .. 335
    BY <1>6, MonthTable
  <2>5. QED
    BY <2>1, <2>2, <2>3, <2>4
<1>11. MonthsAdded(t, k) = MonthDay(j) * Day
  <2>1. PICK i \in Int : i = MonthDay(j) /\ i = YearStart(z) + MonthStart(z, r) + 1 - 1
    BY <1>10
  <2>2. QED
    BY <1>9, <2>1 DEF Day
<1>12. QED
  BY <1>5, <1>11 DEF t

LEMMA MonthNext ==
    ASSUME NEW m \in Int
    PROVE  MonthDay(m + 1) = MonthDay(m) + MonthLen(m)
<1>1. PICK y \in Int, l \in 1 .. 12 : y = m \div 12 /\ l = (m % 12) + 1 /\ m = y * 12 + l - 1
  BY IndexParts
<1>2. MonthDay(m) = YearStart(y) + MonthStart(y, l) /\ MonthLen(m) = MonthLength(y, l)
  BY <1>1 DEF MonthDay, MonthLen
<1>3. YearStart(y) \in Int /\ YearStart(y + 1) = YearStart(y) + 365 + LeapDays(y)
      /\ LeapDays(y) \in 0 .. 1
      /\ MonthStart(y, l) \in 0 .. 335 /\ MonthLength(y, l) \in 28 .. 31
  <2>1. LeapDays(y) \in 0 .. 1
    BY DEF LeapDays
  <2>2. YearStart(y) \in Int /\ YearStart(y + 1) = YearStart(y) + 365 + LeapDays(y)
    BY YearStep
  <2>3. MonthStart(y, l) \in 0 .. 335 /\ MonthLength(y, l) \in 28 .. 31
    BY MonthTable
  <2>4. QED
    BY <2>1, <2>2, <2>3
<1>4. CASE l = 12
  <2>1. (m + 1) \div 12 = y + 1 /\ ((m + 1) % 12) + 1 = 1
    BY <1>1, <1>4
  <2>2. MonthDay(m + 1) = YearStart(y + 1) + MonthStart(y + 1, 1)
    BY <2>1 DEF MonthDay
  <2>3. MonthStart(y + 1, 1) = 0
    BY <1>1, MonthTable
  <2>4. MonthStart(y, l) + MonthLength(y, l) = 365 + LeapDays(y)
    BY <1>4, MonthTable
  <2>5. QED
    BY <1>2, <1>3, <2>2, <2>3, <2>4
<1>5. CASE l # 12
  <2>1. (m + 1) \div 12 = y /\ ((m + 1) % 12) + 1 = l + 1
    BY <1>1, <1>5
  <2>2. MonthDay(m + 1) = YearStart(y) + MonthStart(y, l + 1)
    BY <2>1 DEF MonthDay
  <2>3. MonthStart(y, l + 1) = MonthStart(y, l) + MonthLength(y, l)
    BY <1>5, MonthTable
  <2>4. QED
    BY <1>2, <1>3, <2>2, <2>3
<1>6. QED
  BY <1>4, <1>5

\* A month has a day at least.
LEMMA MonthSpan ==
    ASSUME NEW y, NEW l \in 1 .. 12
    PROVE  /\ 28 * (l - 1) <= MonthStart(y, l) /\ MonthStart(y, l) <= 31 * (l - 1)
           /\ \A m \in 1 .. 12 : l < m => MonthStart(y, l) + (m - l) <= MonthStart(y, m)
<1>1. /\ 28 * (l - 1) <= MonthStart(y, l) /\ MonthStart(y, l) <= 31 * (l - 1)
  BY DEF MonthStart, MonthStarts
<1>2. ASSUME NEW m \in 1 .. 12, l < m
      PROVE  MonthStart(y, l) + (m - l) <= MonthStart(y, m)
  BY <1>2 DEF MonthStart, MonthStarts
<1>3. QED
  BY <1>1, <1>2

LEMMA MonthGap ==
    ASSUME NEW m \in Int, NEW n \in Int, m < n
    PROVE  MonthDay(m) + (n - m) <= MonthDay(n)
<1>1. PICK y \in Int, l \in 1 .. 12 : y = m \div 12 /\ l = (m % 12) + 1 /\ m = y * 12 + l - 1
  BY IndexParts
<1>2. PICK z \in Int, k \in 1 .. 12 : z = n \div 12 /\ k = (n % 12) + 1 /\ n = z * 12 + k - 1
  BY IndexParts
<1>3. MonthDay(m) = YearStart(y) + MonthStart(y, l) /\ MonthDay(n) = YearStart(z) + MonthStart(z, k)
  BY <1>1, <1>2 DEF MonthDay
<1>4. /\ YearStart(y) \in Int /\ YearStart(z) \in Int
      /\ MonthStart(y, l) \in Int /\ MonthStart(z, k) \in Int
      /\ MonthStart(y, l) <= 31 * (l - 1) /\ 28 * (k - 1) <= MonthStart(z, k)
  <2>1. MonthStart(y, l) \in 0 .. 335 /\ MonthStart(z, k) \in 0 .. 335
    BY MonthTable
  <2>2. MonthStart(y, l) <= 31 * (l - 1) /\ 28 * (k - 1) <= MonthStart(z, k)
    BY MonthSpan
  <2>3. YearStart(y) \in Int /\ YearStart(z) \in Int
    BY YearStep
  <2>4. QED
    BY <2>1, <2>2, <2>3
<1>5. CASE y = z
  <2>1. l < k /\ n - m = k - l
    BY <1>1, <1>2, <1>5
  <2>2. MonthStart(y, l) + (k - l) <= MonthStart(y, k)
    BY <2>1, MonthSpan
  <2>3. QED
    BY <1>3, <1>4, <1>5, <2>1, <2>2
<1>6. CASE y # z
  <2>1. y < z /\ n - m = 12 * (z - y) + (k - l)
    BY <1>1, <1>2, <1>6
  <2>2. YearStart(y) + 365 * (z - y) <= YearStart(z)
    BY <2>1, YearGap
  <2>3. QED
    BY <1>3, <1>4, <2>1, <2>2
<1>7. QED
  BY <1>5, <1>6

(***************************************************************************)
(* What compareDate counts.                                                 *)
(***************************************************************************)
LEMMA StepsDays ==
    ASSUME NEW d \in Int, NEW n \in Nat
    PROVE  Steps("DATE", d * Day, (d + n) * Day) = n
<1> DEFINE s == d * Day
           t == (d + n) * Day
           Stops(k) == Added("DATE", k + 1, s) > t /\ (k = -1 \/ Added("DATE", k, s) <= t)
<1>1. \A k \in Int : Added("DATE", k, s) = s + k * Day
  BY DEF Added, Units
<1>2. s \in Int /\ t \in Int /\ (IF t > s THEN (t - s) \div Day ELSE 0) = n
  BY DEF Day
<1>3. \A k \in Int : k >= -1 => (Stops(k) <=> k = n)
  <2>1. SUFFICES ASSUME NEW k \in Int, k >= -1
                 PROVE  s + (k + 1) * Day > t /\ (k = -1 \/ s + k * Day <= t) <=> k = n
    BY <1>1
  <2>2. QED
    BY <2>1 DEF Day
<1>4. Steps("DATE", s, t) = CHOOSE k \in -1 .. n : Stops(k)
  <2> HIDE DEF s, t
  <2>1. QED
    BY <1>2 DEF Steps
<1> HIDE DEF Stops, s, t
<1>5. n \in -1 .. n /\ \A k \in -1 .. n : k \in Int /\ k >= -1
  OBVIOUS
<1>6. Stops(n) /\ \A k \in -1 .. n : Stops(k) => k = n
  BY <1>3, <1>5
<1>7. (CHOOSE k \in -1 .. n : Stops(k)) = n
  BY <1>5, <1>6
<1>8. QED
  BY <1>4, <1>7 DEF s, t

LEMMA StepsMonths ==
    ASSUME NEW m \in Int, NEW n \in Nat
    PROVE  Steps("MONTH", MonthDay(m) * Day, MonthDay(m + n) * Day) = n
<1> DEFINE s == MonthDay(m) * Day
           t == MonthDay(m + n) * Day
           Stops(k) == Added("MONTH", k + 1, s) > t /\ (k = -1 \/ Added("MONTH", k, s) <= t)
           top == IF t > s THEN (t - s) \div Day ELSE 0
<1>1. \A k \in Int : Added("MONTH", k, s) = MonthDay(m + k) * Day
  BY FirstsAdded DEF Added
<1>2. ASSUME NEW j \in Int, NEW k \in Int
      PROVE  MonthDay(j) * Day < MonthDay(k) * Day <=> j < k
  <2>1. MonthDay(j) \in Int /\ MonthDay(k) \in Int
    BY MonthKnown
  <2>2. j < k => MonthDay(j) < MonthDay(k)
    <3>1. SUFFICES ASSUME j < k PROVE MonthDay(j) < MonthDay(k)
      OBVIOUS
    <3>2. MonthDay(j) + (k - j) <= MonthDay(k)
      BY <3>1, MonthGap
    <3>3. QED
      BY <2>1, <3>1, <3>2
  <2>3. k < j => MonthDay(k) < MonthDay(j)
    <3>1. SUFFICES ASSUME k < j PROVE MonthDay(k) < MonthDay(j)
      OBVIOUS
    <3>2. MonthDay(k) + (j - k) <= MonthDay(j)
      BY <3>1, MonthGap
    <3>3. QED
      BY <2>1, <3>1, <3>2
  <2>4. MonthDay(j) < MonthDay(k) <=> j < k
    BY <2>1, <2>2, <2>3
  <2>5. QED
    BY <2>1, <2>4 DEF Day
<1>3. \A k \in Int : MonthDay(k) * Day \in Int
  BY MonthKnown DEF Day
<1>4. ASSUME NEW k \in Int, k >= -1
      PROVE  Stops(k) <=> k = n
  <2>1. m + (k + 1) \in Int /\ m + k \in Int /\ m + n \in Int
    OBVIOUS
  <2>2. PICK u \in Int, v \in Int, w \in Int :
            u = MonthDay(m + (k + 1)) * Day /\ v = MonthDay(m + k) * Day /\ w = t
    BY <2>1, <1>3
  <2>3. (w < u <=> m + n < m + (k + 1)) /\ (w < v <=> m + n < m + k)
    BY <2>1, <2>2, <1>2
  <2>4. Added("MONTH", k + 1, s) = u /\ Added("MONTH", k, s) = v
    <3>1. k + 1 \in Int
      OBVIOUS
    <3>2. QED
      BY <3>1, <2>2, <1>1
  <2>5. Stops(k) <=> u > w /\ (k = -1 \/ v <= w)
    BY <2>2, <2>4
  <2> HIDE DEF Stops
  <2>6. QED
    BY <2>3, <2>5, <1>4
<1>5. top \in Nat /\ n <= top
  <2>1. PICK i \in Int, j \in Int : i = MonthDay(m) /\ j = MonthDay(m + n)
    BY MonthKnown
  <2>2. n # 0 => i + n <= j
    <3>1. SUFFICES ASSUME n # 0 PROVE i + n <= j
      OBVIOUS
    <3>2. m < m + n /\ m + n \in Int /\ (m + n) - m = n
      BY <3>1
    <3>3. QED
      BY <2>1, <3>2, MonthGap
  <2>3. s = i * Day /\ t = j * Day
    BY <2>1
  <2>4. n = 0 => i = j
    BY <2>1
  <2> HIDE DEF s, t
  <2>5. QED
    BY <2>2, <2>3, <2>4 DEF Day
<1>6. Steps("MONTH", s, t) = CHOOSE k \in -1 .. top : Stops(k)
  BY DEF Steps
<1> HIDE DEF Stops, s, t, top
<1>7. n \in -1 .. top /\ \A k \in -1 .. top : k \in Int /\ k >= -1
  BY <1>5
<1>8. Stops(n) /\ \A k \in -1 .. top : Stops(k) => k = n
  BY <1>4, <1>7
<1>9. (CHOOSE k \in -1 .. top : Stops(k)) = n
  BY <1>7, <1>8
<1>10. QED
  BY <1>6, <1>9 DEF s, t

\* How it reads two dates alone.
LEMMA StylesRead ==
    ASSUME NEW p \in Int, NEW style \in {FORMAT1, "yyyy-MM", "yyyy"}
    PROVE  Parse(formatDate([form |-> FORMAT1, at |-> p], FORMAT1), style) = Date(Shown(p, style))
<1> DEFINE text == [form |-> FORMAT1, at |-> p]
           out == [form |-> FORMAT1, at |-> Shown(p, FORMAT1)]
<1>1. FORMAT1 \in Forms /\ style \in Forms
  BY DEF Forms
<1>2. Compact(FORMAT1) = "yyyyMMdd" /\ FORMAT1 # "" /\ FORMAT1 \in ReadBy(style)
  BY DEF Compact, ReadBy, FORMAT1, FORMAT2
<1>3. text.form = FORMAT1 /\ text.at = p /\ out.form = FORMAT1 /\ out.at = Shown(p, FORMAT1)
  OBVIOUS
<1> HIDE DEF text
<1>4. formatDate(text, FORMAT1) = out
  BY <1>2, <1>3 DEF formatDate
<1> HIDE DEF out
<1>5. Parse(out, style) = Date(Shown(Shown(p, FORMAT1), style))
  BY <1>2, <1>3 DEF Parse
<1>6. Shows(style) \subseteq Shows(FORMAT1)
  BY ShowsOf DEF YMD
<1>7. QED
  BY <1>1, <1>4, <1>5, <1>6, ShownTwice DEF text

LEMMA DatesCompared ==
    ASSUME NEW p \in Int, NEW q \in Int,
           NEW a, a = [form |-> FORMAT1, at |-> p], NEW b, b = [form |-> FORMAT1, at |-> q]
    PROVE  /\ compareDate(a, b, 0) = Steps("DATE", Shown(p, FORMAT1), Shown(q, FORMAT1))
           /\ compareDate(a, b, 1) = Steps("MONTH", Shown(p, "yyyy-MM"), Shown(q, "yyyy-MM"))
           /\ compareDate(a, b, 2) = Quotient(Steps("DATE", Shown(p, "yyyy"), Shown(q, "yyyy")), 365)
<1>1. \A style \in {FORMAT1, "yyyy-MM", "yyyy"} :
          /\ Parse(formatDate(a, FORMAT1), style) = Date(Shown(p, style))
          /\ Parse(formatDate(b, FORMAT1), style) = Date(Shown(q, style))
  BY StylesRead
<1>2. /\ <<FORMAT1, "yyyy-MM", "yyyy">>[0 + 1] = FORMAT1
      /\ <<FORMAT1, "yyyy-MM", "yyyy">>[1 + 1] = "yyyy-MM"
      /\ <<FORMAT1, "yyyy-MM", "yyyy">>[2 + 1] = "yyyy"
  OBVIOUS
<1>3. \A t : Date(t) # NoDate /\ Date(t).at = t
  BY NotNull
<1>4. QED
  BY <1>1, <1>2, <1>3 DEF compareDate

\* How it adds to one.
LEMMA AddedText ==
    ASSUME NEW p \in Int, Shown(p, FORMAT1) = p, NEW a, a = [form |-> FORMAT1, at |-> p],
           NEW field, NEW n
    PROVE  AddToDate(field, n, a, FORMAT1)
           = [form |-> FORMAT1, at |-> Shown(Added(field, n, p), FORMAT1)]
<1>1. FORMAT1 \in Forms /\ FORMAT1 \in InDigits
  BY DEF Forms, InDigits
<1>2. string2Date(a, FORMAT1) = Date(p)
  BY <1>1, DigitsRead
<1>3. a.form = FORMAT1 /\ FORMAT1 \notin {"Date", NoDate.form} /\ NoText.form # FORMAT1
  BY DEF NoDate, NoText, FORMAT1
<1>4. a # NoText
  BY <1>3
<1>5. AddToDate(field, n, a, FORMAT1)
      = date2String(Date(Added(field, n, getCalendar(Date(p), FORMAT1))), FORMAT1)
  BY <1>2, <1>3, <1>4 DEF AddToDate
<1>6. getCalendar(Date(p), FORMAT1) = p
  BY NotNull DEF getCalendar
<1>7. QED
  BY <1>1, <1>5, <1>6, NotNull, PatternItself DEF date2String

LEMMA ShownMidnight ==
    ASSUME NEW d \in Int
    PROVE  d * Day \in Int /\ Shown(d * Day, FORMAT1) = d * Day
<1>1. PICK t \in Int : t = d * Day /\ t \div Day = d
  BY DEF Day
<1>2. Shown(t, FORMAT1) = (t \div Day) * Day
  BY ShownDay, ShowsOf
<1>3. QED
  BY <1>1, <1>2

\* compareDate counts the days that addDayToDate has added, however many.
THEOREM DaysCounted ==
    ASSUME NEW d \in Int, NEW n \in Nat, NEW a, a = [form |-> FORMAT1, at |-> d * Day]
    PROVE  /\ addDayToDate(n, a, FORMAT1) = [form |-> FORMAT1, at |-> (d + n) * Day]
           /\ compareDate(a, addDayToDate(n, a, FORMAT1), 0) = n
<1>1. PICK p \in Int, q \in Int, e \in Int : p = d * Day /\ e = d + n /\ q = e * Day /\ p + n * Day = q
  BY DEF Day
<1>2. Shown(p, FORMAT1) = p /\ Shown(q, FORMAT1) = q
  BY <1>1, ShownMidnight
<1>3. addDayToDate(n, a, FORMAT1) = [form |-> FORMAT1, at |-> Shown(Added("DATE", n, p), FORMAT1)]
  BY <1>1, <1>2, AddedText DEF addDayToDate
<1>4. Added("DATE", n, p) = q
  BY <1>1 DEF Added, Units
<1>5. addDayToDate(n, a, FORMAT1) = [form |-> FORMAT1, at |-> q]
  BY <1>2, <1>3, <1>4
<1>6. compareDate(a, addDayToDate(n, a, FORMAT1), 0) = Steps("DATE", p, q)
  BY <1>1, <1>2, <1>5, DatesCompared
<1>7. Steps("DATE", p, q) = n
  BY <1>1, StepsDays
<1>8. QED
  BY <1>1, <1>5, <1>6, <1>7

\* Months, and the years that twelve of them are.
LEMMA MonthsBetween ==
    ASSUME NEW p \in Int, NEW n \in Nat, NEW q \in Int, Index(q) = Index(p) + n,
           NEW a, a = [form |-> FORMAT1, at |-> p], NEW b, b = [form |-> FORMAT1, at |-> q]
    PROVE  compareDate(a, b, 1) = n
<1>1. compareDate(a, b, 1) = Steps("MONTH", Shown(p, "yyyy-MM"), Shown(q, "yyyy-MM"))
  BY DatesCompared
<1>2. PICK m \in Int : m = Index(p) /\ Index(q) = m + n
  BY IndexFields
<1>3. Shown(p, "yyyy-MM") = MonthDay(m) * Day /\ Shown(q, "yyyy-MM") = MonthDay(m + n) * Day
  BY <1>2, MonthShown
<1>4. QED
  BY <1>1, <1>3, StepsMonths

LEMMA ShownIndex ==
    ASSUME NEW t \in Int
    PROVE  Shown(t, FORMAT1) \in Int /\ Index(Shown(t, FORMAT1)) = Index(t)
<1>1. FORMAT1 \in Forms /\ Shows(FORMAT1) = YMD
  BY ShowsOf DEF Forms
<1>2. Shown(t, FORMAT1) \in Int /\ Fields(Shown(t, FORMAT1)) = Masked(Fields(t), YMD)
  BY <1>1, ShownFields
<1>3. Masked(Fields(t), YMD).year = Fields(t).year /\ Masked(Fields(t), YMD).month = Fields(t).month
  BY DEF Masked, YMD, FieldNames
<1>4. QED
  BY <1>2, <1>3 DEF Index

\* compareDate counts the months that addMothToDate has added, however many and
\* also where the day had to be pushed back.
THEOREM MonthsCountedBack ==
    ASSUME NEW d \in Int, NEW n \in Nat, NEW a, a = [form |-> FORMAT1, at |-> d * Day]
    PROVE  compareDate(a, addMothToDate(n, a, FORMAT1), 1) = n
<1>1. PICK p \in Int : p = d * Day /\ Shown(p, FORMAT1) = p
  BY ShownMidnight
<1>2. Added("MONTH", n, p) = MonthsAdded(p, n)
  BY DEF Added
<1>3. PICK t \in Int : t = MonthsAdded(p, n) /\ Index(t) = Index(p) + n
  <2>1. n \in Int
    OBVIOUS
  <2>2. QED
    BY <2>1, MonthsCounted
<1>4. PICK q \in Int : q = Shown(t, FORMAT1) /\ Index(q) = Index(p) + n
  BY <1>3, ShownIndex
<1>5. addMothToDate(n, a, FORMAT1) = [form |-> FORMAT1, at |-> q]
  BY <1>1, <1>2, <1>3, <1>4, AddedText DEF addMothToDate
<1>6. QED
  BY <1>1, <1>4, <1>5, MonthsBetween

LEMMA YearsCountedBack ==
    ASSUME NEW d \in Int, NEW n \in 0 .. 4, NEW a, a = [form |-> FORMAT1, at |-> d * Day]
    PROVE  compareDate(a, addYearToDate(n, a, FORMAT1), 2) = n
<1>1. PICK p \in Int : p = d * Day /\ Shown(p, FORMAT1) = p
  BY ShownMidnight
<1>2. PICK k \in Int : k = 12 * n /\ Added("YEAR", n, p) = MonthsAdded(p, k)
  BY DEF Added
<1>3. PICK t \in Int : t = MonthsAdded(p, k) /\ Index(t) = Index(p) + k
  BY MonthsCounted
<1>4. PICK q \in Int : q = Shown(t, FORMAT1) /\ Index(q) = Index(p) + k
  BY <1>3, ShownIndex
<1>5. addYearToDate(n, a, FORMAT1) = [form |-> FORMAT1, at |-> q]
  BY <1>1, <1>2, <1>3, <1>4, AddedText DEF addYearToDate
<1>6. compareDate(a, addYearToDate(n, a, FORMAT1), 2)
      = Quotient(Steps("DATE", Shown(p, "yyyy"), Shown(q, "yyyy")), 365)
  BY <1>1, <1>5, DatesCompared
<1>7. PICK y \in Int, z \in Int : y = Fields(p).year /\ z = Fields(q).year /\ z = y + n
  <2>1. PICK m \in Int : m = Index(p) /\ Index(q) = m + k
    BY <1>4, IndexFields
  <2>2. Fields(p).year = m \div 12 /\ Fields(q).year = (m + k) \div 12
    BY <2>1, IndexFields
  <2>3. (m + k) \div 12 = (m \div 12) + n /\ m \div 12 \in Int
    BY <1>2
  <2>4. QED
    BY <2>2, <2>3
<1>8. Shown(p, "yyyy") = YearStart(y) * Day /\ Shown(q, "yyyy") = YearStart(z) * Day
  BY <1>7, YearShown
<1>9. PICK e \in Int, l \in Nat : /\ YearStart(y) = e /\ YearStart(z) = e + l
                               /\ 365 * n <= l /\ l <= 366 * n
  <2>1. YearStart(y) \in Int /\ YearStart(z) \in Int
    BY YearStep
  <2>2. CASE n = 0
    BY <2>1, <2>2, <1>7
  <2>3. CASE n # 0
    <3>1. y < z /\ z - y = n
      BY <2>3, <1>7
    <3>2. YearStart(y) + 365 * n <= YearStart(z) /\ YearStart(z) <= YearStart(y) + 366 * n
      BY <3>1, YearGap
    <3>3. PICK e \in Int, f \in Int : e = YearStart(y) /\ f = YearStart(z)
      BY <2>1
    <3>4. f - e \in Nat /\ f = e + (f - e) /\ 365 * n <= f - e /\ f - e <= 366 * n
      BY <3>2, <3>3
    <3>5. QED
      BY <3>3, <3>4
  <2>4. QED
    BY <2>2, <2>3
<1>10. Steps("DATE", e * Day, (e + l) * Day) = l
  BY StepsDays
<1>11. Quotient(l, 365) = n
  BY <1>9 DEF Quotient
<1>12. QED
  BY <1>6, <1>8, <1>9, <1>10, <1>11

\* From a first of a month, by the days of the month or one less.
LEMMA MonthLengthCounted ==
    ASSUME NEW d \in Int, NEW a, a = [form |-> FORMAT1, at |-> d * Day], NEW days \in {0, 1},
           NEW first, first = [form |-> FORMAT1, at |-> Shown(a.at, "yyyy-MM")]
    PROVE  compareDate(first, addDayToDate(getDaysOfMonth(a) + days - 1, first, FORMAT1), 1) = days
<1>1. PICK p \in Int : p = d * Day /\ Shown(p, FORMAT1) = p /\ a.at = p /\ a.form = FORMAT1
  BY ShownMidnight
<1>2. PICK m \in Int : m = Index(p) /\ Fields(p).year = m \div 12 /\ Fields(p).month = (m % 12) + 1
  BY IndexFields
<1>3. PICK b \in Int, l \in 28 .. 31 : b = MonthDay(m) /\ l = MonthLen(m)
  BY MonthKnown
<1>4. getDaysOfMonth(a) = l
  <2>1. Parse(a, FORMAT1) = Date(p)
    BY <1>1, PatternItself DEF Parse, Forms
  <2>2. QED
    BY <2>1, <1>2, <1>3, NotNull DEF getDaysOfMonth, MonthLen
<1>5. first = [form |-> FORMAT1, at |-> b * Day]
  BY <1>1, <1>2, <1>3, MonthShown
<1>6. PICK n \in Nat : n = l + days - 1
  BY <1>3
<1>7. addDayToDate(n, first, FORMAT1) = [form |-> FORMAT1, at |-> (b + n) * Day]
  BY <1>5, DaysCounted
<1>8. (b + n) * Day \in Int /\ Index((b + n) * Day) = m + days
  <2>1. CASE days = 0
    <3>1. 0 <= n /\ n < MonthLen(m) /\ m + days = m
      BY <2>1, <1>3, <1>6
    <3>2. QED
      BY <3>1, <1>3, DayIndex
  <2>2. CASE days = 1
    <3>1. PICK k \in Int : k = m + 1 /\ MonthDay(k) = b + n
      <4>1. MonthDay(m + 1) = b + l
        BY <1>3, MonthNext
      <4>2. QED
        BY <4>1, <2>2, <1>6
    <3>2. 0 <= 0 /\ 0 < MonthLen(k) /\ (b + n) + 0 = b + n
      BY MonthKnown, <1>3
    <3>3. (MonthDay(k) + 0) * Day \in Int /\ Index((MonthDay(k) + 0) * Day) = k
      BY <3>2, DayIndex
    <3>4. QED
      BY <3>1, <3>2, <3>3, <2>2
  <2>3. QED
    BY <2>1, <2>2
<1>9. b * Day \in Int /\ Index(b * Day) = m
  <2>1. 0 <= 0 /\ 0 < MonthLen(m) /\ b + 0 = b
    BY <1>3
  <2>2. (MonthDay(m) + 0) * Day \in Int /\ Index((MonthDay(m) + 0) * Day) = m
    BY <2>1, DayIndex
  <2>3. QED
    BY <2>1, <2>2, <1>3
<1>10. PICK q \in Int, r \in Int : q = b * Day /\ r = (b + n) * Day
  BY <1>8, <1>9
<1>11. compareDate(first, addDayToDate(n, first, FORMAT1), 1) = days
  <2>1. days \in Nat /\ Index(r) = Index(q) + days
    BY <1>8, <1>9, <1>10
  <2>2. first = [form |-> FORMAT1, at |-> q]
        /\ addDayToDate(n, first, FORMAT1) = [form |-> FORMAT1, at |-> r]
    BY <1>5, <1>7, <1>10
  <2>3. QED
    BY <2>1, <2>2, MonthsBetween
<1>12. QED
  BY <1>4, <1>6, <1>11

LEMMA Counting ==
    ASSUME day \in Int
    PROVE  CountsWhatWasAdded
<1>1. ASSUME NEW today \in Midnights, NEW n \in {0, 1, 2, 4, 13, 48}
      PROVE  /\ compareDate(today, addDayToDate(n, today, FORMAT1), 0) = n
             /\ compareDate(today, addMothToDate(n, today, FORMAT1), 1) = n
             /\ n < 5 => compareDate(today, addYearToDate(n, today, FORMAT1), 2) = n
  <2>1. PICK d \in Int : today = [form |-> FORMAT1, at |-> d * Day]
    BY DEF Midnights, Days
  <2>2. n \in Nat /\ (n < 5 => n \in 0 .. 4)
    OBVIOUS
  <2>3. QED
    BY <2>1, <2>2, DaysCounted, MonthsCountedBack, YearsCountedBack
<1>2. ASSUME NEW today \in Midnights, NEW days \in {0, 1},
             NEW first, first = [form |-> FORMAT1, at |-> Shown(today.at, "yyyy-MM")]
      PROVE  compareDate(first, addDayToDate(getDaysOfMonth(today) + days - 1, first, FORMAT1), 1) = days
  <2>1. PICK d \in Int : today = [form |-> FORMAT1, at |-> d * Day]
    BY DEF Midnights, Days
  <2>2. QED
    BY <2>1, <1>2, MonthLengthCounted
<1>3. QED
  BY <1>1, <1>2 DEF CountsWhatWasAdded

(***************************************************************************)
(* The sort.                                                                *)
(***************************************************************************)
\* What dateSort compares by: the date alone.
Readable == [form : {FORMAT1, FORMAT2}, at : Int]
Key(x) == Parse(x, FORMAT1).at

LEMMA CompareKeys ==
    ASSUME NEW x \in Readable, NEW y \in Readable
    PROVE  /\ Key(x) \in Int /\ Key(y) \in Int
           /\ compare(x, y, FORMAT1) = IF Key(x) = Key(y) THEN 0
                                       ELSE IF Key(x) > Key(y) THEN 1 ELSE -1
<1>1. ASSUME NEW z \in Readable
      PROVE  Key(z) \in Int /\ Parse(z, FORMAT1) = Date(Key(z))
  <2>1. z.form \in ReadBy(FORMAT1) /\ z.at \in Int
    BY DEF Readable, ReadBy, FORMAT1, FORMAT2
  <2>2. FORMAT1 \in Forms
    BY DEF Forms
  <2>3. Parse(z, FORMAT1) = Date(Shown(z.at, FORMAT1)) /\ Shown(z.at, FORMAT1) \in Int
    BY <2>1, <2>2, ShownFields DEF Parse
  <2>4. QED
    BY <2>3, NotNull DEF Key
<1>2. Pattern(FORMAT1) = FORMAT1
  BY DEF Pattern, FORMAT1
<1>3. \A z : NoDate # Date(z) /\ Date(z).at = z
  BY NotNull
<1>4. QED
  BY <1>1, <1>2, <1>3 DEF compare

\* Which of an array's dates belongs before which.
Before(a, i, j) == Key(a[i]) < Key(a[j]) \/ (Key(a[i]) = Key(a[j]) /\ i < j)

\* The first n dates of a stand in s, each where p says, in their order.
Placed(a, n, s, p) ==
    /\ s \in Seq(Readable) /\ Len(s) = n
    /\ \A j \in 1 .. n : p[j] \in 1 .. n /\ s[p[j]] = a[j]
    /\ \A k \in 1 .. n : \E j \in 1 .. n : p[j] = k
    /\ \A i, j \in 1 .. n : p[i] = p[j] => i = j
    /\ \A i, j \in 1 .. n : Before(a, i, j) => p[i] < p[j]

\* A place in s from which on every date is later than x.
LEMMA LastStay ==
    ASSUME NEW n \in Nat, NEW stay \in SUBSET (1 .. n)
    PROVE  \E last \in 0 .. n :
              /\ last = IF stay = {} THEN 0 ELSE CHOOSE i \in stay : \A j \in stay : j <= i
              /\ stay # {} => last \in stay
              /\ \A j \in stay : j <= last
<1>1. CASE stay = {}
  BY <1>1
<1>2. CASE stay # {}
  <2> DEFINE Off == {n - i : i \in stay}
  <2>1. Off \in SUBSET Nat /\ Off # {}
    BY <1>2
  <2>2. PICK d \in Off : \A m \in Off : d <= m
    BY <2>1, Sorts!Least
  <2>3. PICK i \in stay : d = n - i
    OBVIOUS
  <2>4. ASSUME NEW j \in stay PROVE j <= i
    <3>1. n - j \in Off
      OBVIOUS
    <3>2. n - i <= n - j
      BY <2>2, <2>3, <3>1
    <3>3. QED
      BY <3>2
  <2>5. QED
    BY <1>2, <2>4
<1>3. QED
  BY <1>1, <1>2

LEMMA PlaceOne ==
    ASSUME NEW a, NEW n \in Nat, \A j \in 1 .. n + 1 : a[j] \in Readable,
           NEW s, NEW p, Placed(a, n, s, p)
    PROVE  \E q : Placed(a, n + 1, Inserted(s, a[n + 1]), q)
<1> DEFINE x == a[n + 1]
           stay == {i \in DOMAIN s : compare(x, s[i], FORMAT1) # -1}
           new == Inserted(s, x)
<1>1. /\ s \in Seq(Readable) /\ Len(s) = n /\ DOMAIN s = 1 .. n
      /\ \A j \in 1 .. n : p[j] \in 1 .. n /\ s[p[j]] = a[j]
      /\ \A k \in 1 .. n : \E j \in 1 .. n : p[j] = k
      /\ \A i, j \in 1 .. n : p[i] = p[j] => i = j
      /\ \A i, j \in 1 .. n : Before(a, i, j) => p[i] < p[j]
  <2> HIDE DEF x, stay, new
  <2>1. s \in Seq(Readable) /\ Len(s) = n
    BY DEF Placed
  <2>2. DOMAIN s = 1 .. n
    BY <2>1
  <2>3. QED
    BY <2>1, <2>2 DEF Placed
<1>2. x \in Readable /\ Key(x) \in Int
      /\ \A i \in 1 .. n : s[i] \in Readable /\ Key(s[i]) \in Int
  <2>1. x \in Readable /\ \A i \in 1 .. n : s[i] \in Readable
    <3>1. n + 1 \in 1 .. n + 1
      OBVIOUS
    <3>2. x \in Readable
      BY <3>1
    <3> HIDE DEF x
    <3>3. QED
      BY <1>1, <3>2
  <2> HIDE DEF x
  <2>2. QED
    BY <2>1, CompareKeys
<1>3. \A i : i \in stay <=> i \in 1 .. n /\ Key(s[i]) <= Key(x)
  <2>1. ASSUME NEW i \in 1 .. n
        PROVE  compare(x, s[i], FORMAT1) # -1 <=> Key(s[i]) <= Key(x)
    <3>1. PICK y \in Readable, k \in Int, l \in Int : y = s[i] /\ k = Key(x) /\ l = Key(y)
      BY <1>2
    <3>2. compare(x, y, FORMAT1) = IF k = l THEN 0 ELSE IF k > l THEN 1 ELSE -1
      BY <3>1, <1>2, CompareKeys
    <3>3. compare(x, y, FORMAT1) # -1 <=> l <= k
      BY <3>2
    <3>4. QED
      BY <3>1, <3>3
  <2>2. DOMAIN s = 1 .. n
    BY <1>1
  <2>3. QED
    BY <2>1, <2>2
<1>4. stay \in SUBSET (1 .. n)
  BY <1>1
<1>5. PICK last \in 0 .. n :
          /\ last = IF stay = {} THEN 0 ELSE CHOOSE i \in stay : \A j \in stay : j <= i
          /\ stay # {} => last \in stay
          /\ \A j \in stay : j <= last
  BY <1>4, LastStay
<1>6. new = [i \in 1 .. n + 1 |-> IF i <= last THEN s[i]
                                  ELSE IF i = last + 1 THEN x ELSE s[i - 1]]
  BY <1>1, <1>5 DEF Inserted
<1> HIDE DEF new, stay
\* s is sorted, so that the dates up to last are those x is not before.
<1>7. ASSUME NEW j \in 1 .. n, p[j] <= last
      PROVE  Key(a[j]) <= Key(x)
  <2>1. PICK l \in 1 .. n : l = last /\ Key(s[l]) <= Key(x)
    <3>1. p[j] \in 1 .. n
      BY <1>1
    <3>2. last # 0
      BY <1>7, <3>1
    <3>3. last \in stay
      BY <1>5, <3>2
    <3>4. QED
      BY <1>3, <3>3
  <2>2. PICK i \in 1 .. n : p[i] = l
    BY <1>1, <2>1
  <2>3. s[p[j]] = a[j] /\ s[l] = a[i] /\ Key(a[i]) \in Int /\ Key(a[j]) \in Int
    BY <1>1, <1>2, <2>2
  <2>4. ~Before(a, i, j) \/ p[i] < p[j]
    BY <1>1
  <2>5. ~(p[i] < p[j])
    <3>1. p[j] \in 1 .. n /\ p[i] = last
      BY <1>1, <2>1, <2>2
    <3>2. QED
      BY <3>1, <1>7
  <2>6. ~(Key(a[i]) < Key(a[j]))
    BY <2>4, <2>5 DEF Before
  <2>7. QED
    BY <2>1, <2>3, <2>6, <1>2
<1>8. ASSUME NEW j \in 1 .. n, last < p[j]
      PROVE  Key(x) < Key(a[j])
  <2>1. p[j] \in 1 .. n /\ s[p[j]] = a[j] /\ Key(a[j]) \in Int
    BY <1>1, <1>2
  <2>2. p[j] \notin stay
    BY <1>5, <1>8, <2>1
  <2>3. QED
    BY <1>2, <1>3, <2>1, <2>2
<1> DEFINE q == [j \in 1 .. n + 1 |-> IF j = n + 1 THEN last + 1
                                      ELSE IF p[j] <= last THEN p[j] ELSE p[j] + 1]
<1>9. \A j \in 1 .. n + 1 : j = n + 1 \/ j \in 1 .. n
  OBVIOUS
<1>10. /\ q[n + 1] = last + 1
       /\ \A j \in 1 .. n : /\ p[j] <= last => q[j] = p[j]
                            /\ ~(p[j] <= last) => q[j] = p[j] + 1
  OBVIOUS
<1>11. \A j \in 1 .. n : p[j] \in 1 .. n
  BY <1>1
<1> HIDE DEF q, x
<1>12. new \in Seq(Readable) /\ Len(new) = n + 1
  <2>1. ASSUME NEW i \in 1 .. n + 1
        PROVE  (IF i <= last THEN s[i] ELSE IF i = last + 1 THEN x ELSE s[i - 1]) \in Readable
    <3>1. CASE i <= last
      BY <3>1, <1>2
    <3>2. CASE ~(i <= last) /\ i # last + 1
      <4>1. i - 1 \in 1 .. n
        BY <3>2
      <4>2. QED
        BY <3>2, <4>1, <1>2
    <3>3. QED
      BY <3>1, <3>2, <1>2
  <2>2. \A i \in 1 .. n + 1 : new[i] \in Readable
    BY <2>1, <1>6
  <2>3. n + 1 \in Nat /\ DOMAIN new = 1 .. n + 1 /\ new = [i \in 1 .. n + 1 |-> new[i]]
    BY <1>6
  <2>4. QED
    BY <2>2, <2>3
<1>13. ASSUME NEW j \in 1 .. n + 1
       PROVE  q[j] \in 1 .. n + 1 /\ new[q[j]] = a[j]
  <2>1. CASE j = n + 1
    BY <2>1, <1>5, <1>6, <1>10 DEF x
  <2>2. CASE j \in 1 .. n
    <3>1. PICK k \in 1 .. n : k = p[j] /\ s[k] = a[j]
      BY <2>2, <1>1
    <3>2. CASE k <= last
      BY <2>2, <3>1, <3>2, <1>6, <1>10
    <3>3. CASE ~(k <= last)
      <4>1. q[j] = k + 1
        BY <2>2, <3>1, <3>3, <1>10
      <4>2. k + 1 \in 1 .. n + 1 /\ ~(k + 1 <= last) /\ k + 1 # last + 1 /\ (k + 1) - 1 = k
        BY <3>3
      <4>3. new[k + 1] = s[k]
        BY <4>2, <1>6
      <4>4. QED
        BY <4>1, <4>2, <4>3, <3>1
    <3>4. QED
      BY <3>2, <3>3
  <2>3. QED
    BY <2>1, <2>2, <1>9
<1>14. ASSUME NEW k \in 1 .. n + 1
       PROVE  \E j \in 1 .. n + 1 : q[j] = k
  <2>1. CASE k = last + 1
    BY <2>1, <1>10
  <2>2. CASE k <= last
    <3>1. PICK j \in 1 .. n : p[j] = k
      BY <1>1, <1>5, <2>2
    <3>2. QED
      BY <3>1, <2>2, <1>10
  <2>3. CASE k > last + 1
    <3>1. k - 1 \in 1 .. n /\ ~(k - 1 <= last) /\ (k - 1) + 1 = k
      BY <2>3
    <3>2. PICK j \in 1 .. n : p[j] = k - 1
      BY <3>1, <1>1
    <3>3. q[j] = k
      BY <3>1, <3>2, <1>10
    <3>4. QED
      BY <3>3
  <2>4. QED
    BY <2>1, <2>2, <2>3
<1>15. ASSUME NEW i \in 1 .. n + 1, NEW j \in 1 .. n + 1, q[i] = q[j]
       PROVE  i = j
  <2>1. \A k \in 1 .. n : q[k] # last + 1
    BY <1>10, <1>11
  <2>2. CASE i = n + 1 \/ j = n + 1
    BY <2>1, <2>2, <1>9, <1>10, <1>15
  <2>3. CASE i \in 1 .. n /\ j \in 1 .. n
    <3>1. p[i] = p[j]
      BY <2>3, <1>10, <1>11, <1>15
    <3>2. QED
      BY <2>3, <3>1, <1>1
  <2>4. QED
    BY <2>2, <2>3, <1>9
<1>16. ASSUME NEW i \in 1 .. n + 1, NEW j \in 1 .. n + 1, Before(a, i, j)
       PROVE  q[i] < q[j]
  <2>1. Key(a[i]) \in Int /\ Key(a[j]) \in Int
    BY CompareKeys
  <2>2. CASE i \in 1 .. n /\ j \in 1 .. n
    <3>1. p[i] < p[j]
      BY <2>2, <1>1, <1>16
    <3>2. QED
      BY <2>2, <3>1, <1>10, <1>11
  <2>3. CASE i \in 1 .. n /\ j = n + 1
    <3>1. ~(Key(x) < Key(a[i]))
      BY <2>1, <2>3, <1>16 DEF Before, x
    <3>2. p[i] <= last
      BY <2>3, <3>1, <1>8, <1>11
    <3>3. QED
      BY <2>3, <3>2, <1>10, <1>11
  <2>4. CASE i = n + 1 /\ j \in 1 .. n
    <3>1. ~(Key(a[j]) <= Key(x))
      BY <2>1, <2>4, <1>16 DEF Before, x
    <3>2. ~(p[j] <= last)
      BY <2>4, <3>1, <1>7, <1>11
    <3>3. QED
      BY <2>4, <3>2, <1>10, <1>11
  <2>5. CASE i = n + 1 /\ j = n + 1
    BY <2>1, <2>5, <1>16 DEF Before
  <2>6. QED
    BY <2>2, <2>3, <2>4, <2>5, <1>9
<1>17. Placed(a, n + 1, new, q)
  BY <1>12, <1>13, <1>14, <1>15, <1>16 DEF Placed
<1>18. QED
  BY <1>17 DEF new, x

\* dateSort puts every date of an array, however long, in its place.
LEMMA AllPlaced ==
    ASSUME NEW a \in Seq(Readable)
    PROVE  \E p : Placed(a, Len(a), dateSort(a), p)
<1> DEFINE I == [n \in 0 .. Len(a) |-> {s \in Seq(Readable) : \E p : Placed(a, n, s, p)}]
<1>1. Len(a) \in Nat /\ \A j \in 1 .. Len(a) : a[j] \in Readable
  OBVIOUS
<1>2. <<>> \in I[0]
  <2>1. Placed(a, 0, <<>>, <<>>)
    BY DEF Placed
  <2>2. <<>> \in Seq(Readable) /\ 0 \in 0 .. Len(a)
    BY <1>1
  <2>3. QED
    BY <2>1, <2>2
<1>3. ASSUME NEW i \in 1 .. Len(a), NEW s \in I[i - 1]
      PROVE  Inserted(s, a[i]) \in I[i]
  <2>1. i - 1 \in Nat /\ (i - 1) + 1 = i /\ i - 1 \in 0 .. Len(a) /\ i \in 0 .. Len(a)
    BY <1>1
  <2>2. PICK p : Placed(a, i - 1, s, p)
    BY <2>1
  <2>3. \A j \in 1 .. (i - 1) + 1 : a[j] \in Readable
    BY <1>1, <2>1
  <2>4. \E q : Placed(a, (i - 1) + 1, Inserted(s, a[(i - 1) + 1]), q)
    BY <2>1, <2>2, <2>3, PlaceOne
  <2>5. \E q : Placed(a, i, Inserted(s, a[i]), q)
    BY <2>1, <2>4
  <2>6. Inserted(s, a[i]) \in Seq(Readable)
    BY <2>5 DEF Placed
  <2>7. QED
    BY <2>1, <2>5, <2>6
<1>4. Sorts!Fire(<<>>, a) \in I[Len(a)]
  <2> HIDE DEF I
  <2>1. QED
    BY <1>1, <1>2, <1>3, Sorts!FireThrough
<1>5. Len(a) \in 0 .. Len(a)
  BY <1>1
<1>6. QED
  BY <1>4, <1>5 DEF dateSort

\* dateSort is stable, for an array of any length: a date's place is one more than
\* the number of those that are earlier, or equal and before it in the array.
THEOREM SortIsStable ==
    ASSUME NEW a \in Seq(Readable), NEW j \in 1 .. Len(a)
    PROVE  dateSort(a)[Cardinality({i \in 1 .. Len(a) : Before(a, i, j)}) + 1] = a[j]
<1> DEFINE n == Len(a)
           S == {i \in 1 .. n : Before(a, i, j)}
<1>1. n \in Nat /\ \A i \in 1 .. n : a[i] \in Readable /\ Key(a[i]) \in Int
  BY CompareKeys
<1>2. PICK p : /\ \A i \in 1 .. n : p[i] \in 1 .. n /\ dateSort(a)[p[i]] = a[i]
               /\ \A k \in 1 .. n : \E i \in 1 .. n : p[i] = k
               /\ \A h, i \in 1 .. n : p[h] = p[i] => h = i
               /\ \A h, i \in 1 .. n : Before(a, h, i) => p[h] < p[i]
  BY AllPlaced DEF Placed
<1>3. PICK r \in 1 .. n : r = p[j] /\ dateSort(a)[r] = a[j]
  BY <1>2
<1> HIDE DEF n
<1>4. ASSUME NEW i \in 1 .. n
      PROVE  Before(a, i, j) <=> p[i] < r
  <2>1. CASE i = j
    <3>1. ~Before(a, i, j)
      BY <1>1, <2>1 DEF Before, n
    <3>2. QED
      BY <3>1, <2>1, <1>3
  <2>2. CASE i # j
    <3>1. Before(a, i, j) \/ Before(a, j, i)
      <4>1. Key(a[i]) \in Int /\ Key(a[j]) \in Int /\ i \in Int /\ j \in Int
        BY <1>1 DEF n
      <4>2. QED
        BY <4>1, <2>2 DEF Before
    <3>2. Before(a, j, i) => p[j] < p[i]
      BY <1>2 DEF n
    <3>3. Before(a, i, j) => p[i] < p[j]
      BY <1>2 DEF n
    <3>4. p[i] \in 1 .. n
      BY <1>2
    <3>5. QED
      BY <3>1, <3>2, <3>3, <3>4, <1>3
  <2>3. QED
    BY <2>1, <2>2
<1> DEFINE f == [i \in S |-> p[i]]
<1>5. S \subseteq 1 .. n /\ \A i \in S : p[i] \in 1 .. n /\ p[i] < r
  BY <1>2, <1>4
<1>6. ASSUME NEW k \in 1 .. r - 1
      PROVE  \E i \in S : p[i] = k
  <2>1. k \in 1 .. n /\ k < r
    BY <1>1, <1>3
  <2>2. PICK i \in 1 .. n : p[i] = k
    BY <1>2, <2>1
  <2>3. QED
    BY <1>4, <2>1, <2>2
<1>7. f \in Bijection(S, 1 .. r - 1)
  <2>1. f \in [S -> 1 .. r - 1]
    BY <1>1, <1>3, <1>5
  <2>2. \A h, i \in S : f[h] = f[i] => h = i
    BY <1>2, <1>5
  <2>3. \A k \in 1 .. r - 1 : \E i \in S : f[i] = k
    BY <1>6
  <2> HIDE DEF f, S
  <2>4. QED
    BY <2>1, <2>2, <2>3, Fun_IsBij
<1>8. Cardinality(S) = r - 1
  <2>1. IsFiniteSet(1 .. r - 1) /\ Cardinality(1 .. r - 1) = r - 1
    <3>1. r - 1 \in Int /\ 1 \in Int /\ r \in Int /\ r >= 1
      BY <1>1, <1>3
    <3>2. QED
      BY <3>1, FS_Interval
  <2> HIDE DEF S
  <2>2. ExistsBijection(1 .. r - 1, S)
    BY <1>7, Fun_ExistsBijSymmetric DEF ExistsBijection
  <2>3. QED
    BY <2>1, <2>2, FS_Bijection
<1>9. Cardinality(S) + 1 = r
  BY <1>8, <1>1, <1>3
<1>10. QED
  BY <1>9, <1>3 DEF n

LEMMA AroundReadable ==
    ASSUME day \in Int, NEW today \in Midnights
    PROVE  Around(today) \subseteq Readable
<1>1. PICK t \in Int : today = [form |-> FORMAT1, at |-> t] /\ Shown(t, FORMAT1) = t
  <2>1. PICK n \in Int : today = [form |-> FORMAT1, at |-> n * Day]
    BY DEF Midnights, Days
  <2>2. n * Day \in Int /\ Shown(n * Day, FORMAT1) = n * Day
    BY ShownMidnight
  <2>3. QED
    BY <2>1, <2>2
<1>2. t + 45296 \in Int
  OBVIOUS
<1>3. today \in Readable /\ today.at = t
  BY <1>1 DEF Readable
<1>4. [form |-> FORMAT2, at |-> today.at + 45296] \in Readable
  BY <1>2, <1>3 DEF Readable
<1>5. addDayToDate(-1, today, FORMAT1) \in Readable
  <2>1. Shown(t, FORMAT1) = t
    BY <1>1
  <2>2. Added("DATE", -1, t) = t + (-1) * Day
    BY DEF Added, Units
  <2>3. PICK l \in Int : l = t + (-1) * Day
    BY DEF Day
  <2>4. addDayToDate(-1, today, FORMAT1) = [form |-> FORMAT1, at |-> Shown(l, FORMAT1)]
    BY <1>1, <2>1, <2>2, <2>3, AddedText DEF addDayToDate
  <2>5. Shown(l, FORMAT1) \in Int
    BY ShownFields DEF Forms
  <2>6. QED
    BY <2>4, <2>5 DEF Readable
<1>6. QED
  BY <1>3, <1>4, <1>5 DEF Around

LEMMA ArraySeq ==
    ASSUME NEW T, NEW a \in [1 .. 3 -> T]
    PROVE  a \in Seq(T) /\ Len(a) = 3
<1>1. a = [i \in 1 .. 3 |-> a[i]] /\ \A i \in 1 .. 3 : a[i] \in T
  OBVIOUS
<1>2. 3 \in Nat
  OBVIOUS
<1>3. [i \in 1 .. 3 |-> a[i]] \in Seq(T) /\ Len([i \in 1 .. 3 |-> a[i]]) = 3
  BY <1>1, <1>2
<1>4. QED
  BY <1>1, <1>3

LEMMA Sorting ==
    ASSUME day \in Int
    PROVE  SortsStably
<1> DEFINE before(a, i, j) == \/ compare(a[i], a[j], FORMAT1) = -1
                              \/ compare(a[i], a[j], FORMAT1) = 0 /\ i < j
<1>1. ASSUME NEW today \in Midnights, NEW a \in [Sorted -> Around(today)], NEW j \in Sorted
      PROVE  dateSort(a)[Cardinality({i \in Sorted : before(a, i, j)}) + 1] = a[j]
  <2>1. a \in Seq(Readable) /\ Len(a) = 3 /\ Sorted = 1 .. Len(a)
    <3>1. a \in [1 .. 3 -> Readable]
      BY AroundReadable DEF Sorted
    <3>2. a \in Seq(Readable) /\ Len(a) = 3
      BY <3>1, ArraySeq
    <3>3. QED
      BY <3>2 DEF Sorted
  <2>2. ASSUME NEW i \in Sorted
        PROVE  before(a, i, j) <=> Before(a, i, j)
    <3>1. PICK x \in Readable, y \in Readable : x = a[i] /\ y = a[j]
      BY AroundReadable
    <3>2. PICK k \in Int, l \in Int : k = Key(x) /\ l = Key(y)
                                    /\ compare(x, y, FORMAT1) = IF k = l THEN 0 ELSE IF k > l THEN 1 ELSE -1
      BY CompareKeys
    <3>3. (compare(x, y, FORMAT1) = -1 <=> k < l) /\ (compare(x, y, FORMAT1) = 0 <=> k = l)
      BY <3>2
    <3>4. QED
      BY <3>1, <3>2, <3>3 DEF Before
  <2>3. {i \in Sorted : before(a, i, j)} = {i \in 1 .. Len(a) : Before(a, i, j)}
    BY <2>1, <2>2
  <2>4. j \in 1 .. Len(a)
    BY <2>1
  <2> HIDE DEF before
  <2>5. QED
    BY <2>1, <2>3, <2>4, SortIsStable
<1>2. QED
  BY <1>1 DEF SortsStably

\* The days looked at are days.
DayKnown == day \in Int

LEMMA DaysPass == Spec => []DayKnown
<1>1. Init => DayKnown
  <2>1. FirstDays \subseteq FourDigits
    BY DaysAssumption
  <2>2. QED
    BY <2>1 DEF Init, FourDigits, DayKnown
<1>2. DayKnown /\ [NextDay \/ NextToken]_vars => DayKnown'
  BY DEF NextDay, NextToken, vars, DayKnown
<1>3. QED
  BY <1>1, <1>2, PTL DEF Spec

\* What the server does with dates agrees, on every day: an operation given a text
\* and given the date it shows, what is added and what is counted, the span of two
\* times, the sort, the week and the way to a text and back.
THEOREM DatesAgreeAlways == Spec => []DatesAgree
<1>1. DayKnown => DatesAgree
  BY Overloads, ReadBack, Counting, Hours, Sorting, Weeks DEF DatesAgree, DayKnown
<1>2. QED
  BY <1>1, DaysPass, PTL
=============================================================================
