--------------------------- MODULE ConnectionControl ---------------------------
(* core/connection.cpp as the event loop sees it: what one call of a do_*()    *)
(* method may do to the control state of a connection and which event it asks  *)
(* for next. The bytes are abstracted away; a method is the SET of outcomes    *)
(* that recv, read, write, sendfile and OpenSSL may lead it to. The module has *)
(* no state: EventLoop applies ProcessConnection to the connection of an event.*)
EXTENDS Naturals

CONSTANTS
  TlsAvailable,       \* main() loaded a certificate (tls_ctx_ # nullptr)
  InlineSendMayFail   \* the write that process_connection does right after
                      \* parsing may meet a dead socket

ASSUME ControlAssumption == TlsAvailable \in BOOLEAN /\ InlineSendMayFail \in BOOLEAN

--------------------------------------------------------------------------------
States == {"CLOSED", "PROTO_DETECT", "TLS_ACCEPT", "READING", "PARSING",
           "SENDING_HEADERS", "SENDING_BODY", "KEEP_ALIVE"}

Wants == {"NONE", "READ", "WRITE"}

\* What read_buf_ holds once the blank line arrived: a request line that parse()
\* refuses, one with another method than GET and HEAD, or one it accepts.
Requests == {"malformed", "unsupported", "proper"}

\* state_; ssl_ # nullptr; the class of the complete request in read_buf_;
\* request_.method() # UNKNOWN; last_active_ is older than the keep-alive
\* timeout. Nothing but the PARSING step reads the buffer and the method before
\* reset() clears them, so they are dropped on leaving PARSING.
ConnRecords ==
  [state : States, ssl : BOOLEAN, buf : Requests \union {"none"},
   parsed : BOOLEAN, idle : BOOLEAN]

\* A slot that nobody uses. init() overwrites the dead members before they are
\* read again, so a closed connection has one representation.
ClosedConn == [state |-> "CLOSED", ssl |-> FALSE, buf |-> "none",
               parsed |-> FALSE, idle |-> FALSE]

\* Connection::init.
AcceptedConn == [ClosedConn EXCEPT !.state = "PROTO_DETECT"]

\* Connection::is_expired.
IsExpired(k) == k.idle

--------------------------------------------------------------------------------
\* The result of a call: the connection and the Want it returns.
Out(k, want) == [conn |-> k, want |-> want]

\* close() inside a do_*() method.
Dropped == Out(ClosedConn, "NONE")

\* last_active_ = Clock::now().
Refresh(k) == [k EXCEPT !.idle = FALSE]

Enter(k, state) == [k EXCEPT !.state = state, !.buf = "none", !.parsed = FALSE]

\* An error page is ready in header_buf_.
Refuse(k) == Out(Enter(k, "SENDING_HEADERS"), "WRITE")

\* The socket is not ready; OpenSSL may also want the other direction.
Blocked(k, want) == {Out(k, w) : w \in IF k.ssl THEN {"READ", "WRITE"} ELSE {want}}

\* Connection::do_proto_detect: recv(MSG_PEEK) of one byte.
DoProtoDetect(k) ==
  { Dropped, Out(k, "READ"), Out(Enter(Refresh(k), "READING"), "READ"),
    IF TlsAvailable THEN Out(Enter(k, "TLS_ACCEPT"), "NONE") ELSE Refuse(k) }

\* Connection::do_tls_accept. Without an SSL object the call is SSL_accept(nullptr):
\* this is the outcome with an OpenSSL that reports an error, see HandsOverNull.
DoTlsAccept(k) ==
  IF k.ssl
  THEN Blocked(k, "READ")
         \union {Out(Enter(Refresh(k), "READING"), "READ"), Refuse(k)}
  ELSE {Refuse(k)}

\* Connection::do_read: nothing there, end of file or too large a header, part
\* of a header, or the blank line.
DoRead(k) ==
  LET r == Refresh(k)
  IN Blocked(r, "READ") \union {Dropped, Out(r, "READ")}
       \union {Out([r EXCEPT !.state = "PARSING", !.buf = b], "NONE") : b \in Requests}

\* Connection::do_parse: 400, a method that is neither GET nor HEAD, or a
\* request to answer.
DoParse(k) ==
  CASE k.buf = "malformed"   -> {Refuse(k)}
    [] k.buf = "unsupported" -> {Out([k EXCEPT !.parsed = FALSE], "NONE")}
    [] OTHER                 -> {Out([k EXCEPT !.parsed = TRUE], "NONE")}

\* Connection::do_send_body with its two file variants: blocked, part of the
\* body, the end of the body, or an error when mayFail. Sending does not refresh
\* last_active_.
DoSendBody(k, mayFail) ==
  Blocked(k, "WRITE")
    \union {Out(k, "WRITE"), Out(Enter(k, "KEEP_ALIVE"), "READ")}
    \union (IF mayFail THEN {Dropped} ELSE {})

\* Mutant: the end of a response asks for no event.
DoSendHeadersDeaf(k, mayFail) ==
  Blocked(k, "WRITE")
    \union {Out(k, "WRITE"), Out(Enter(k, "KEEP_ALIVE"), "NONE")}
    \union DoSendBody(Enter(k, "SENDING_BODY"), mayFail)
    \union (IF mayFail THEN {Dropped} ELSE {})

\* Connection::do_send_headers: blocked, part of the header, all of it without a
\* body, or all of it and at once the first piece of the body.
DoSendHeaders(k, mayFail) ==
  Blocked(k, "WRITE")
    \union {Out(k, "WRITE"), Out(Enter(k, "KEEP_ALIVE"), "READ")}
    \union DoSendBody(Enter(k, "SENDING_BODY"), mayFail)
    \union (IF mayFail THEN {Dropped} ELSE {})

\* Mutant: reset() also drops the SSL object.
ResetDroppingSsl(k) == [Enter(k, k.state) EXCEPT !.ssl = FALSE]

\* Connection::reset, between two requests of a connection.
Reset(k) == Enter(k, k.state)

--------------------------------------------------------------------------------
\* The switch of EventLoop::process_connection.
RunState(k) ==
  CASE k.state = "PROTO_DETECT"    -> DoProtoDetect(k)
    [] k.state = "TLS_ACCEPT"      -> DoTlsAccept(k)
    [] k.state = "READING"         -> DoRead(k)
    [] k.state = "PARSING"         -> DoParse(k)
    [] k.state = "SENDING_HEADERS" -> DoSendHeaders(k, TRUE)
    [] k.state = "SENDING_BODY"    -> DoSendBody(k, TRUE)
    [] k.state = "KEEP_ALIVE"      -> DoRead(Reset(k))

\* A connection that turned out to be TLS gets its SSL object (SSL_new may
\* fail) and starts the handshake at once.
InjectSsl(o) ==
  IF o.conn.state = "TLS_ACCEPT" /\ ~o.conn.ssl
  THEN UNION {DoTlsAccept([o.conn EXCEPT !.ssl = b]) : b \in BOOLEAN}
  ELSE {o}

\* One of the ways on is do_tls_accept without an SSL object, right after SSL_new
\* failed: undefined behaviour, which OpenSSL before 3.2 turns into a crash.
HandsOverNull(k) == \E o \in RunState(k) : o.conn.state = "TLS_ACCEPT" /\ ~o.conn.ssl

\* A request that has just been read is parsed without waiting for an event.
InlineParse(o) ==
  IF o.conn.state = "PARSING" /\ ~o.conn.parsed THEN DoParse(o.conn) ELSE {o}

\* A request that is parsed is answered at once: prepare_response fills the
\* response (see ConnectionSend) and leaves the control state as it is.
Respond(o) ==
  IF o.conn.state \in {"PARSING", "READING"} /\ o.conn.parsed
  THEN DoSendHeaders(o.conn, InlineSendMayFail)
  ELSE {o}

\* EventLoop::process_connection up to its bookkeeping: the outcomes in which
\* the connection died before its request was answered (the caller destroys it)
\* and the outcomes of the whole chain.
Died(k) == {o \in UNION {InjectSsl(o) : o \in RunState(k)} : o.conn.state = "CLOSED"}

Carried(k) ==
  LET alive == (UNION {InjectSsl(o) : o \in RunState(k)}) \ Died(k)
  IN UNION {Respond(p) : p \in UNION {InlineParse(o) : o \in alive}}
================================================================================
