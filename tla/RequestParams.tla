----------------------------- MODULE RequestParams -----------------------------
(***************************************************************************)
(* RequestParamUtil: how the connect handler takes the userId out of the     *)
(* (already URL-decoded) request URI.  A text is a sequence of tokens: the   *)
(* three separators and words without one.                                   *)
(***************************************************************************)
EXTENDS Integers, Sequences

\* The next token: a separator ends the last part, any other one belongs to it.
Cut(parts, x) == IF x.separates THEN Append(parts, <<>>)
                 ELSE [parts EXCEPT ![Len(parts)] = Append(@, x.token)]

Scan == INSTANCE CallbackList WITH Op <- Cut

Parts(text, separator) ==
    Scan!Fire(<< <<>> >>, [i \in DOMAIN text |-> [token |-> text[i],
                                                  separates |-> text[i] = separator]])

\* String.split: the parts between separators, without the empty ones at the
\* end; a text without the separator is its only part, empty or not.
Split(text, separator) ==
    LET parts == Parts(text, separator)
    IN  IF \A i \in DOMAIN text : text[i] # separator THEN <<text>>
        ELSE SubSeq(parts, 1, CHOOSE n \in 0 .. Len(parts) :
                                  /\ n = 0 \/ parts[n] # <<>>
                                  /\ \A i \in n + 1 .. Len(parts) : parts[i] = <<>>)

\* The loop keeps the last part, whatever question marks a value holds.
HasPage(url) == Len(Split(url, "?")) > 1
truncateUrlPage(url) == LET parts == Split(url, "?") IN parts[Len(parts)]

\* A value ends at the next "=".
Value(pair) == IF Len(pair) > 1 THEN pair[2] ELSE <<>>

\* Variant: the first parameter of a name stays.
putFirst(params, pair) ==
    [name \in DOMAIN params \cup {pair[1]} |->
        IF name \in DOMAIN params THEN params[name] ELSE Value(pair)]

\* A later parameter replaces an earlier one of its name.  (The test
\* arrSplitEqual[0] != "" compares references and holds.)
put(params, pair) ==
    [name \in DOMAIN params \cup {pair[1]} |->
        IF name = pair[1] THEN Value(pair) ELSE params[name]]

Puts == INSTANCE CallbackList WITH Op <- put

Pairs(url) == LET parts == Split(truncateUrlPage(url), "&")
              IN  [i \in DOMAIN parts |-> Split(parts[i], "=")]

\* ArrayIndexOutOfBoundsException: a part made of "=" only has no arrSplitEqual[0].
Throws(url) == HasPage(url) /\ \E i \in DOMAIN Pairs(url) : Pairs(url)[i] = <<>>

\* The map of the parameters, unless it throws.
NoParams == [name \in {} |-> <<>>]
urlSplit(url) == IF HasPage(url) THEN Puts!Fire(NoParams, Pairs(url)) ELSE NoParams
=============================================================================
