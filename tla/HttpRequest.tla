------------------------------ MODULE HttpRequest -------------------------------
(* HttpRequest::parse and the questions prepare_response asks of the header    *)
(* lines. A line is a name with the value its text stands for; a name occurs   *)
(* at most once, and lines without a colon are left out.                       *)
EXTENDS HttpRange, SequencesExt

CONSTANT OFF_MAX  \* the largest off_t

ASSUME OffAssumption == OFF_MAX \in Nat

Line(name, value) == [name |-> name, value |-> value]

\* The lines a request may have.
LineOK(line) ==
  /\ line = Line(line.name, line.value)
  /\ line.name = "if-modified-since" => line.value \in Nat
  /\ line.name = "range" =>
       line.value \in [form : {"suffix", "from", "span"}, a : Nat, b : Nat]

LinesOK(lines) ==
  /\ lines \in Seq(ToSet(lines))
  /\ \A i \in DOMAIN lines : LineOK(lines[i])
  /\ \A i, j \in DOMAIN lines : lines[i].name = lines[j].name => i = j

\* The block of header lines is cut before its last CRLF, and the loop stops at
\* a line that has none: the last line is lost, and a request without any line
\* is not understood.
Parse(lines) == [ok |-> lines # <<>>, headers |-> IF lines = <<>> THEN <<>> ELSE Front(lines)]

Header(headers, name, absent) ==
  LET found == {line \in ToSet(headers) : line.name = name}
  IN IF found = {} THEN absent ELSE (CHOOSE line \in found : TRUE).value

\* Mutant: HTTP/1.0 keeps the connection unless told otherwise.
KeepAliveByDefault(version, headers) == Header(headers, "connection", "") # "close"

\* is_keep_alive.
IsKeepAlive(version, headers) ==
  LET connection == Header(headers, "connection", "")
  IN IF version = "HTTP/1.1" THEN connection # "close" ELSE connection = "keep-alive"

\* parse_if_modified_since: -1 when there is no date.
IfModifiedSince(headers) == Header(headers, "if-modified-since", -1)

\* What the digits of a number come to in an off_t. Signed overflow is undefined:
\* any value may come out.
Accumulated(number) == IF number <= OFF_MAX THEN {number} ELSE -OFF_MAX - 1 .. OFF_MAX

\* The Range header as parse_range may read it.
RangesRead(headers) ==
  LET range == Header(headers, "range", NoHeader)
  IN {RangeHeader(range.form, a, b) : a \in Accumulated(range.a), b \in Accumulated(range.b)}

\* Every number in the Range header is one that off_t can hold.
RangeFits(headers) ==
  LET range == Header(headers, "range", NoHeader)
  IN range.a <= OFF_MAX /\ range.b <= OFF_MAX
================================================================================
