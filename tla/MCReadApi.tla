----------------------------- MODULE MCReadApi ------------------------------
(***************************************************************************)
(* An instance of ReadApi and Filter over one store: two traces and room   *)
(* for about one, so that traces are evicted and come back.  There is one  *)
(* key and one service more than the interners hold, one span carries its  *)
(* key twice, and one service has the name of a span, so that the string   *)
(* table is shared.  u64 goes up to 20, integers are exact in f64 up to 4  *)
(* and doubles are halves.                                                 *)
(***************************************************************************)
EXTENDS ReadApi, Filter

CONSTANTS t1, t2, s1, s2, k1, k2, b1, b2

MCNameLen == b1 :> 1 @@ b2 :> 1

\* b1 lasts 10, b2 ends before it starts.
MCStartOf         == b1 :> 4 @@ b2 :> 9
MCEndOf           == b1 :> 14 @@ b2 :> 2
MCNameOf          == b1 :> "cart" @@ b2 :> "b2"
MCStatusMessageOf == b1 :> "" @@ b2 :> "cart"
MCStatusCodeOf    == b1 :> 2 @@ b2 :> 0
MCStrings         == {"cart", "shop", "b2", ""}

MCAttrValues == {[int |-> 5], [double |-> 3], [str |-> "5"], [bool |-> TRUE]}

MCRawValues    == {"5", "4", "1.5", "true", "error", "1us", "3us", "cart"}
MCParseI64     == [raw \in MCRawValues |-> CASE raw = "5" -> 5 [] raw = "4" -> 4 [] OTHER -> None]
MCParseReal    == [raw \in MCRawValues |->
                     CASE raw = "5" -> 10 [] raw = "4" -> 8 [] raw = "1.5" -> 3 [] OTHER -> None]
MCDurationNum  == [raw \in MCRawValues |->
                     CASE raw = "5" -> 5 [] raw = "4" -> 4 [] raw = "1us" -> 1 [] raw = "3us" -> 3 [] OTHER -> None]
MCDurationUnit == [raw \in MCRawValues |-> IF raw \in {"1us", "3us"} THEN 8 ELSE 1]

MCTexts    == {"text"}
MCContains == "text" :> {b2, [bool |-> TRUE]}

Token(key, op, value) ==
  [text |-> "text", key |-> key, op |-> op, value |-> value,
   unterminated |-> FALSE, startsQuoted |-> FALSE]

\* Every operator on numbers that f64 holds and does not hold, and each other kind of token.
MCTokens ==
  {Token(k1, op, "5") : op \in Ops \ {"<="}}
    \cup {Token(k1, ">", "4"), Token(k1, "<=", "1.5"), Token(k1, "=", "true"),
          Token(k2, "!=", "5"), Token(k2, ">=", "1.5")}
    \cup {Token("duration", ">", "1us"), Token("duration", "<", "3us"), Token("duration", ">=", "5")}
    \cup {Token("service", "!=", "cart"), Token("status", "=", "error"), Token("status", "<", "error")}
    \cup {Token(k1, None, "5"), [Token(k1, "=", "5") EXCEPT !.unterminated = TRUE]}

Span(t, s, b, n, attrs) ==
  [trace |-> t, id |-> s, parent |-> None, body |-> b, service |-> n,
   attrs |-> [j \in 1..Len(attrs) |-> [key |-> attrs[j][1], value |-> attrs[j][2]]]]

MCSpans ==
  {Span(t1, s1, b1, "cart", <<>>),
   Span(t1, s2, b2, None, << <<k1, [int |-> 5]>>, <<k1, [str |-> "5"]>> >>),
   Span(t2, s1, b1, "shop", << <<k2, [double |-> 3]>> >>),
   Span(t2, s1, b2, None, << <<k1, [bool |-> TRUE]>> >>)}

MCBatches == {[spans |-> <<x>>, malformed |-> 0] : x \in MCSpans}
=============================================================================
