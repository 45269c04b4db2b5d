---------------------------- MODULE MCJsonParse -----------------------------
(* JsonParse for TLC: short texts of all tokens, longer ones of the tokens   *)
(* of arrays and of objects, and payloads with one token missing, replaced  *)
(* or nothing behind it; and the grammar the parser is compared with.       *)
EXTENDS JsonParse, SequencesExt

MCStrings == {"data", "a"}
MCNumbers == {"1", "digits"}
MCRest == {"digits"}
Tokens == MCStrings \cup MCNumbers \cup Literals \cup
          {"[", "]", "{", "}", ",", ":", "ws", "BOM", "-", "other", "open quote", BadString}

Payloads ==
    { <<"{", "data", ":", "[", "1", "digits", "]", "}">>,
      <<"{", "data", ":", "{", "a", ":", "1", ",", "a", ":", "data", "}", "}">>,
      <<"ws", "{", "ws", "a", ":", "[", "1", ",", "{", "}", "]", ",", "data", ":", "[", "null", "]", "}">>,
      <<"[", "[", "[", "1", "]", "]", ",", "[", "[", "[", "]", "]", "]", "]">>,
      <<"BOM", "[", "true", ",", "[", "]", "ws", ",", "[", "false", "]", ",", "[", "]", "]", "other">> }

(* What a text can look like: an open quote swallows what follows it, and a *)
(* "-" belongs to a number that follows it, as what is left of a number to  *)
(* the one before.                                                          *)
Possible(t) ==
    /\ \A k \in 1..(Len(t) - 1) : /\ t[k] # "open quote"
                                 /\ ~(t[k] = "-" /\ t[k + 1] \in MCNumbers)
    /\ \A k \in DOMAIN t : t[k] \in MCRest => k > 1 /\ t[k - 1] \in MCNumbers \ MCRest
Damaged(t) == {SubSeq(t, 1, k) : k \in DOMAIN t} \cup {RemoveAt(t, k) : k \in DOMAIN t}
                \cup {ReplaceAt(t, k, x) : k \in DOMAIN t, x \in Tokens}

MCTexts ==
    {Append(t, "NUL") : t \in {t \in UNION {[1..n -> Tokens] : n \in 0..3}
                                 \cup UNION {[1..n -> {"[", "]", ",", "1", "digits"}] : n \in 4..5}
                                 \cup UNION {[1..n -> {"{", "}", ",", ":", "data"}] : n \in 4..5}
                                 \cup UNION {Damaged(t) : t \in Payloads} : Possible(t)}}

-----------------------------------------------------------------------------
(* The grammar's ends, computed. *)
RECURSIVE ValueEnd(_, _, _), ListEnd(_, _, _, _)
ValueEnd(t, o, d) ==
    LET opener == TokenOf(t, o)
        first == NextToken(t, o + 1)
        e == ListEnd(t, first, d + 1, opener)
    IN  IF opener \notin DOMAIN Closer THEN (IF opener \in Others \ Literals THEN NULL ELSE ScalarEnd(t, o))
        ELSE IF d = NESTING_LIMIT THEN NULL
        ELSE IF TokenOf(t, first) = Closer[opener] THEN first + 1
        ELSE IF e = NULL THEN NULL ELSE e + 1
ListEnd(t, o, d, opener) ==
    LET end == ValueEnd(t, ElementAt(t, o, opener), d)
        e == NextToken(t, end)
    IN  IF (opener = "{" /\ ~HasName(t, o)) \/ end = NULL THEN NULL
        ELSE IF TokenOf(t, e) = "," THEN ListEnd(t, NextToken(t, e + 1), d, opener)
        ELSE IF TokenOf(t, e) = Closer[opener] THEN e ELSE NULL

MCGrammar == [t \in MCTexts |->
    [value |-> [o \in 0..(Len(t) - 1), d \in 0..NESTING_LIMIT |-> ValueEnd(t, o, d)],
     list |-> [o \in 0..(Len(t) - 1), d \in 0..NESTING_LIMIT, opener \in DOMAIN Closer |->
                  ListEnd(t, o, d, opener)]]]
=============================================================================
