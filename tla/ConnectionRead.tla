---------------------------- MODULE ConnectionRead -----------------------------
(* The read side of one connection: do_read with its buffer, the limit of a    *)
(* request head, OpenSSL between the socket and the buffer, the event that     *)
(* wakes it, and the clock that the keep-alive timeout looks at.               *)
(* A byte is its position in the stream of request heads that the client       *)
(* writes; what the socket, OpenSSL and read_buf_ hold are intervals of it:    *)
(*                                                                             *)
(*   0 .. base : dropped      base .. got : read_buf_                          *)
(*   got .. inside : decrypted, inside OpenSSL      inside .. sent : socket    *)
(*                                                                             *)
(* The client does not pipeline: it waits for an answer before it asks again.  *)
EXTENDS Integers, Sequences, FiniteSets

CONSTANTS
  READ_SIZE,     \* bytes asked for by one read or SSL_read (4096)
  BUF_LIMIT,     \* the largest head that may still be incomplete (65536)
  BLANK,         \* bytes of the blank line that ends a head (4)
  HeadSizes,     \* lengths of request heads, blank line included
  PIECE,         \* the most a client sends at once; on TLS, in one record (16384)
  TIMEOUT,       \* keep_alive_timeout_, in ticks
  REQUESTS       \* bound: requests of one connection

ASSUME ReadAssumption ==
  /\ {READ_SIZE, BUF_LIMIT, BLANK, PIECE, REQUESTS} \subseteq Nat \ {0}
  /\ HeadSizes \subseteq {n \in Nat : n > BLANK}
  /\ TIMEOUT \in Nat

VARIABLES
  state,     \* state_, as far as reading tells it apart
  base,      \* where read_buf_ starts
  got,       \* where read_buf_ ends
  inside,    \* what the socket has handed over
  idle,      \* ticks since last_active_
  sent,      \* what has arrived at the socket
  records,   \* where the TLS records in the socket end
  eof,       \* the client has closed its side
  tls,       \* the client speaks TLS
  heads,     \* the requests asked for: where each head ends, and its kind
  replies,   \* how many of them were answered
  parsed,    \* ghost: the interval handed to parse() for each answer
  split,     \* ghost: a reused connection got part of a head from a read
  unheard    \* ghost: ticks since a byte was read

serverVars == <<state, base, got, inside, idle>>
clientVars == <<sent, records, eof, tls, heads, replies>>
vars == <<serverVars, clientVars, parsed, split, unheard>>

--------------------------------------------------------------------------------
Kinds == {"proper", "unsupported"}   \* GET or HEAD; another method

Init ==
  /\ state = "PROTO_DETECT"
  /\ base = 0 /\ got = 0 /\ inside = 0 /\ idle = 0
  /\ sent = 0 /\ records = <<>> /\ eof = FALSE
  /\ tls \in BOOLEAN
  /\ heads = <<>> /\ replies = 0
  /\ parsed = <<>> /\ split = FALSE /\ unheard = 0

Start(k) == IF k = 1 THEN 0 ELSE heads[k - 1].end
Top == Start(Len(heads) + 1)
Least(m, n) == IF m < n THEN m ELSE n

--------------------------------------------------------------------------------
(* The client and the clock.                                                   *)

\* The client decides on its next request.
Ask(n, kind) ==
  /\ state # "CLOSED" /\ ~eof
  /\ tls => state # "PROTO_DETECT"
  /\ Len(heads) = replies /\ replies < REQUESTS
  /\ heads' = Append(heads, [end |-> Top + n, kind |-> kind])
  /\ UNCHANGED <<serverVars, sent, records, eof, tls, replies, parsed, split, unheard>>

\* Some more bytes of it arrive; on TLS as one record.
Arrive(n) ==
  /\ state # "CLOSED" /\ ~eof
  /\ sent + n <= Top
  /\ sent' = sent + n
  /\ records' = IF tls THEN Append(records, sent + n) ELSE records
  /\ UNCHANGED <<serverVars, eof, tls, heads, replies, parsed, split, unheard>>

HangUp ==
  /\ state # "CLOSED" /\ ~eof
  /\ eof' = TRUE
  /\ UNCHANGED <<serverVars, sent, records, tls, heads, replies, parsed, split, unheard>>

\* Ages beyond the timeout are alike.
Older(age) == Least(age + 1, TIMEOUT + 1)

Tick ==
  /\ state # "CLOSED"
  /\ idle' = Older(idle) /\ unheard' = Older(unheard)
  /\ UNCHANGED <<state, base, got, inside, clientVars, parsed, split>>

--------------------------------------------------------------------------------
(* The server.                                                                 *)

\* do_proto_detect, and on TLS the handshake that follows it.
Detect ==
  /\ state = "PROTO_DETECT"
  /\ tls \/ sent > 0
  /\ state' = "READING"
  /\ idle' = 0
  /\ UNCHANGED <<base, got, inside, clientVars, parsed, split, unheard>>

\* What a read can take from: the socket, or the rest of the record that OpenSSL
\* has decrypted, or else the next record.
Available ==
  CASE ~tls -> sent
    [] tls /\ inside > got -> inside
    [] OTHER -> IF records = <<>> THEN got ELSE Head(records)

\* The new end of read_buf_, and its start: in KEEP_ALIVE reset() empties it first.
ReadTo == Least(got + READ_SIZE, Available)

\* Mutant: the buffer is not emptied between two requests.
FromKept == base

From == IF state = "KEEP_ALIVE" THEN got ELSE base

\* Mutant: only the bytes of this read are searched for the blank line.
BlankLinesInRead(from, to) ==
  {k \in 1 .. Len(heads) : got <= heads[k].end - BLANK /\ heads[k].end <= to}

\* The heads whose blank line lies between from and to.
BlankLines(from, to) ==
  {k \in 1 .. Len(heads) : from <= heads[k].end - BLANK /\ heads[k].end <= to}

\* Mutant: reading does not count as activity.
TakeBytesUnnoticed ==
  /\ base' = From /\ got' = ReadTo
  /\ inside' = IF tls /\ inside > got THEN inside ELSE IF tls THEN Available ELSE ReadTo
  /\ records' = IF tls /\ inside = got THEN Tail(records) ELSE records
  /\ unheard' = 0
  /\ UNCHANGED <<idle, sent, eof, tls, heads, replies>>

\* The level-triggered EVFILT_READ event looks at the socket alone. do_read
\* refreshes last_active_ and appends at most READ_SIZE bytes.
TakeBytes ==
  /\ base' = From /\ got' = ReadTo
  /\ inside' = IF tls /\ inside > got THEN inside ELSE IF tls THEN Available ELSE ReadTo
  /\ records' = IF tls /\ inside = got THEN Tail(records) ELSE records
  /\ idle' = 0 /\ unheard' = 0
  /\ UNCHANGED <<sent, eof, tls, heads, replies>>

Reading == state \in {"READING", "KEEP_ALIVE"} /\ sent > inside

\* Mutant: the limit is compared with the bytes of this read.
TooLargeByRead(from, to) == to - got > BUF_LIMIT

\* The head is longer than 64 KB and still has no end.
TooLarge(from, to) == to - from > BUF_LIMIT

\* do_read without a blank line in the buffer: the state stays as it is, so in
\* KEEP_ALIVE the next event starts with reset() again.
ReadPart ==
  /\ Reading
  /\ BlankLines(From, ReadTo) = {}
  /\ ~TooLarge(From, ReadTo)
  /\ TakeBytes
  /\ split' = (split \/ state = "KEEP_ALIVE")
  /\ UNCHANGED <<state, parsed>>

\* ... and more than BUF_LIMIT bytes: close.
ReadTooLarge ==
  /\ Reading
  /\ BlankLines(From, ReadTo) = {}
  /\ TooLarge(From, ReadTo)
  /\ TakeBytes
  /\ state' = "CLOSED"
  /\ UNCHANGED <<parsed, split>>

\* do_read with a blank line in the buffer, and do_parse at once. A whole head
\* is answered (SENDING stands for the states of the answer), or with another
\* method than GET and HEAD sits in PARSING. What is left of a head that lost
\* its beginning may be taken for either.
ReadHead ==
  /\ Reading
  /\ BlankLines(From, ReadTo) # {}
  /\ TakeBytes
  /\ LET k == CHOOSE k \in BlankLines(From, ReadTo) :
                \A m \in BlankLines(From, ReadTo) : k <= m
         whole == From = Start(k)
     IN \/ /\ whole => heads[k].kind = "proper"
           /\ state' = "SENDING"
           /\ parsed' = Append(parsed, <<From, heads[k].end>>)
        \/ /\ whole => heads[k].kind = "unsupported"
           /\ state' = "PARSING"
           /\ UNCHANGED parsed
  /\ UNCHANGED split

\* SSL_read meets part of a record, or one without data: SSL_ERROR_WANT_READ.
ReadNothing ==
  /\ state \in {"READING", "KEEP_ALIVE"}
  /\ tls /\ records = <<>> /\ inside = got
  /\ base' = From
  /\ idle' = 0
  /\ UNCHANGED <<state, got, inside, clientVars, parsed, split, unheard>>

\* The last byte of the answer is out (do_send_headers, do_send_body). Sending
\* does not touch last_active_.
Answered ==
  /\ state = "SENDING"
  /\ state' = "KEEP_ALIVE"
  /\ replies' = replies + 1
  /\ UNCHANGED <<base, got, inside, idle, sent, records, eof, tls, heads, parsed, split, unheard>>

Close ==
  /\ state' = "CLOSED"
  /\ UNCHANGED <<base, got, inside, idle, clientVars, parsed, split, unheard>>

\* EV_EOF, or a read that returns 0: whatever is still in the socket is lost.
PeerGone == eof /\ state # "CLOSED" /\ Close

\* handle_timer finds the connection in its list and is_expired says yes.
Reap == state = "KEEP_ALIVE" /\ idle > TIMEOUT /\ Close

\* The slot is free again.
Closed == state = "CLOSED" /\ UNCHANGED vars

Client ==
  \/ \E n \in HeadSizes, kind \in Kinds : Ask(n, kind)
  \/ \E n \in 1 .. PIECE : Arrive(n)
  \/ HangUp

Read == ReadPart \/ ReadTooLarge \/ ReadHead

Next ==
  Client \/ Tick \/ Detect \/ Read \/ ReadNothing \/ Answered \/ PeerGone \/ Reap \/ Closed

\* Events are returned again until they are served, the client takes its answer,
\* and the end of the stream is noticed. Nothing else need happen.
Spec == Init /\ [][Next]_vars
FairSpec == Spec /\ WF_vars(Detect) /\ WF_vars(Read) /\ WF_vars(Answered) /\ WF_vars(PeerGone)

--------------------------------------------------------------------------------
(* Properties.                                                                 *)

\* Types; the intervals are in order and read_buf_ stays bounded: the limit is
\* tested after the blank line, so one read may go beyond it, and a buffer that
\* still waits is within it (do_read).
ReadTypeOK ==
  /\ state \in {"PROTO_DETECT", "READING", "PARSING", "SENDING", "KEEP_ALIVE", "CLOSED"}
  /\ 0 <= base /\ base <= got /\ got <= inside /\ inside <= sent /\ sent <= Top
  /\ got - base <= BUF_LIMIT + READ_SIZE
  /\ state = "READING" => got - base <= BUF_LIMIT
  /\ replies \in 0 .. Len(heads)
  /\ {idle, unheard} \subseteq 0 .. TIMEOUT + 1

\* A connection that waits in READING has no whole head in its buffer, however
\* the blank line was cut between reads (do_read).
WaitsOnlyForMore ==
  state = "READING" =>
    ~ \E k \in 1 .. Len(heads) : base <= heads[k].end - BLANK /\ heads[k].end <= got

\* Every answer is the answer to one whole request, in the order the client
\* asked, and none is answered twice.
AnswersAreRequests ==
  \A i \in 1 .. Len(parsed) :
    i <= Len(heads) /\ parsed[i] = <<Start(i), heads[i].end>>

\* ... as long as each request on a reused connection came with one read; the
\* first request may come in any pieces.
WholeUnlessSplit == split \/ AnswersAreRequests

\* The sweep never closes a connection from which a byte was read within the
\* timeout (is_expired, handle_timer).
ReapSparesTheHeard ==
  [][state = "KEEP_ALIVE" /\ state' = "CLOSED" /\ ~eof /\ got' = got => unheard > TIMEOUT]_vars

\* The socket is empty and the rest of a record waits inside OpenSSL: no event
\* will come for it.
HeldInside == state \in {"READING", "KEEP_ALIVE"} /\ inside > got /\ sent = inside

\* A request that has arrived is answered or the connection ends, unless its
\* method is not supported, it was split on a reused connection, or OpenSSL
\* holds the end of it for ever.
EveryRequestEnds ==
  \A k \in 1 .. REQUESTS :
    (Len(heads) = k /\ sent = Top /\ heads[k].kind = "proper")
      ~> (replies >= k \/ state = "CLOSED" \/ split \/ []HeldInside)
================================================================================
