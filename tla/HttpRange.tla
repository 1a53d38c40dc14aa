------------------------------- MODULE HttpRange -------------------------------
(* HttpRequest::parse_range as a function of the header and the size of the    *)
(* file. The digits are abstracted to the number they spell; a number that     *)
(* off_t cannot hold is outside this module.                                   *)
EXTENDS Integers

RangeHeader(form, a, b) == [form |-> form, a |-> a, b |-> b]

\* A header that is absent or that parse_range does not understand.
NoHeader == RangeHeader("none", 0, 0)

\* The headers "bytes=-a", "bytes=a-" and "bytes=a-b".
RangeHeaders(numbers) ==
  {NoHeader}
    \union {RangeHeader(form, a, 0) : form \in {"suffix", "from"}, a \in numbers}
    \union {RangeHeader("span", a, b) : a, b \in numbers}

NoRange == [set |-> FALSE, first |-> 0, last |-> 0]

\* parse_range(size): the closed interval to send, or nullopt.
ParseRange(h, size) ==
  LET first == IF h.form = "suffix" THEN (IF size < h.a THEN 0 ELSE size - h.a) ELSE h.a
      last  == IF h.form = "span" THEN h.b ELSE size - 1
  IN IF \/ h.form = "none"
        \/ h.form = "suffix" /\ h.a = 0
        \/ first >= size
        \/ first > last
     THEN NoRange
     ELSE [set |-> TRUE, first |-> first, last |-> IF last >= size THEN size - 1 ELSE last]

\* What prepare_response sends of a file: the range, or all of it. An empty file
\* has the interval [0, -1].
Interval(h, size) ==
  LET r == ParseRange(h, size)
  IN IF r.set THEN r ELSE [set |-> FALSE, first |-> 0, last |-> size - 1]
================================================================================
