---------------------------- MODULE ConnectionSend -----------------------------
(* The responses of one connection, byte by byte: prepare_response fills the   *)
(* members of Connection, do_send_headers and do_send_body push them to the    *)
(* socket in pieces of any size, reset() clears them for the next request.     *)
(* A body byte is the offset it has in its file or page; `wire` collects what  *)
(* the client receives for the current request.                                *)
EXTENDS HttpRange, Sequences

CONSTANTS
  HEADER_SIZE,         \* length of the header text
  CHUNK_SIZE,          \* do_send_body_tls: bytes read from the file at once
  PageSizes,           \* lengths of generated pages (errors, listings)
  FileSizes,           \* lengths of files when they are opened
  RangeNumbers,        \* numbers in Range headers
  FilesShrink,         \* a file may be truncated while it is being sent
  RESTART_BOUND        \* bound of the model: how often an answer starts again

ASSUME SendAssumption ==
  /\ HEADER_SIZE \in Nat \ {0}
  /\ CHUNK_SIZE \in Nat \ {0}
  /\ PageSizes \subseteq Nat \ {0}
  /\ FileSizes \subseteq Nat
  /\ RangeNumbers \subseteq Nat
  /\ FilesShrink \in BOOLEAN
  /\ RESTART_BOUND \in Nat

VARIABLES
  state,           \* Connection::state_
  pc,              \* where process_connection is with this connection
  ssl,             \* ssl_ # nullptr
  req,             \* the request in read_buf_, and what open found for it last
  keep_alive,      \* response_.keep_alive_
  content_length,  \* response_.content_length_ (0 when the header has none)
  body_size,       \* response_.body().size()
  is_head,         \* is_head_
  attempt,         \* ghost: "first" answer to the request, or started "again";
                   \* "stale" when a page or a 304 met the file of an earlier one
  header_sent,     \* header_sent_
  body_sent,       \* body_sent_
  file_fd,         \* file_fd_ >= 0
  send_offset,     \* send_offset_
  send_remaining,  \* send_remaining_
  chunk_used,      \* chunk_used_
  chunk_sent,      \* chunk_sent_
  file_end,        \* kernel: the length of the open file now
  open_files,      \* kernel: files this slot has opened and not closed
  restarts,        \* ghost: how often an answer of this slot was started again
  header_wire,     \* ghost: header bytes the client received for this request
  wire             \* ghost: body bytes the client received for this request

respVars == <<keep_alive, content_length, body_size, is_head, attempt>>
fileVars == <<file_fd, send_offset, send_remaining, open_files>>
chunkVars == <<chunk_used, chunk_sent>>
wireVars == <<header_wire, wire>>
vars == <<state, pc, ssl, restarts, req, respVars, header_sent, body_sent, fileVars,
          chunkVars, file_end, wireVars>>

--------------------------------------------------------------------------------
\* A request, with what the server finds: a refusal, a generated page,
\* a file that has not changed, or a file to send.
Requests ==
  [kind : {"malformed"}, size : PageSizes, head : {FALSE}, keep : {FALSE},
   range : {NoHeader}]
    \union
  [kind : {"page"}, size : PageSizes, head : BOOLEAN, keep : BOOLEAN,
   range : RangeHeaders(RangeNumbers)]
    \union
  [kind : {"unchanged", "file"}, size : FileSizes, head : BOOLEAN, keep : BOOLEAN,
   range : RangeHeaders(RangeNumbers)]

\* The same request, whatever open finds for it now.
SameRequest(r, s) ==
  /\ r.kind # "malformed" /\ s.kind # "malformed"
  /\ r.head = s.head /\ r.keep = s.keep /\ r.range = s.range

NoRequest == [kind |-> "none"]

Span == Interval(req.range, req.size)

\* The offsets first, ..., first + n - 1.
Bytes(first, n) == [i \in 1 .. n |-> first + i - 1]

Least(m, n) == IF m < n THEN m ELSE n

Init ==
  /\ state = "READING" /\ pc = "rest" /\ ssl \in BOOLEAN
  /\ req = NoRequest
  /\ keep_alive = TRUE /\ content_length = 0 /\ body_size = 0 /\ is_head = FALSE
  /\ attempt = "first" /\ restarts = 0
  /\ header_sent = 0 /\ body_sent = 0
  /\ file_fd = FALSE /\ send_offset = 0 /\ send_remaining = 0 /\ open_files = 0
  /\ chunk_used = 0 /\ chunk_sent = 0
  /\ file_end = 0
  /\ header_wire = 0 /\ wire = <<>>

\* if (file_fd_ >= 0) { ::close(file_fd_); file_fd_ = -1; }
CloseFile ==
  /\ file_fd' = FALSE
  /\ open_files' = IF file_fd THEN open_files - 1 ELSE open_files

\* Connection::close.
Close ==
  /\ state' = "CLOSED" /\ pc' = "rest"
  /\ CloseFile
  /\ UNCHANGED <<ssl, restarts, req, respVars, header_sent, body_sent, send_offset,
                 send_remaining, chunkVars, file_end, wireVars>>

\* Mutant: the file of the last response stays open.
ResetKeepingFile ==
  /\ body_sent' = 0
  /\ file_fd' = FALSE
  /\ send_offset' = 0 /\ send_remaining' = 0
  /\ chunk_used' = 0 /\ chunk_sent' = 0
  /\ UNCHANGED open_files

\* The send state that Connection::reset clears.
Reset ==
  /\ body_sent' = 0
  /\ CloseFile
  /\ send_offset' = 0 /\ send_remaining' = 0
  /\ chunk_used' = 0 /\ chunk_sent' = 0

--------------------------------------------------------------------------------
(* process_connection up to the response.                                      *)

\* What KEEP_ALIVE does before it reads; READING reads on what init() left.
ResetIfKeptAlive ==
  IF state = "KEEP_ALIVE" THEN Reset
  ELSE UNCHANGED <<body_sent, fileVars, chunkVars>>

\* do_read completes a request that do_parse accepts.
ReceiveRequest(r) ==
  /\ pc = "rest" /\ state \in {"READING", "KEEP_ALIVE"}
  /\ r.kind # "malformed"
  /\ state' = "PARSING" /\ pc' = "prepare" /\ req' = r
  /\ ResetIfKeptAlive
  /\ keep_alive' = TRUE /\ content_length' = 0 /\ body_size' = 0 /\ is_head' = FALSE
  /\ attempt' = "first"
  /\ header_sent' = 0 /\ header_wire' = 0 /\ wire' = <<>>
  /\ UNCHANGED <<ssl, restarts, file_end>>

\* A request that do_parse refuses, or before the first one a client that
\* do_proto_detect or do_tls_accept refuses: an error page and "Connection:
\* close". READING stands for the states before the first request, too.
RefuseRequest(r) ==
  /\ pc = "rest" /\ state \in {"READING", "KEEP_ALIVE"}
  /\ r.kind = "malformed"
  /\ state' = "SENDING_HEADERS" /\ pc' = "rest" /\ req' = r
  /\ ResetIfKeptAlive
  /\ keep_alive' = FALSE /\ content_length' = r.size /\ body_size' = r.size
  /\ is_head' = FALSE /\ attempt' = "first"
  /\ header_sent' = 0 /\ header_wire' = 0 /\ wire' = <<>>
  /\ UNCHANGED <<ssl, restarts, file_end>>

\* KEEP_ALIVE clears the last response even if do_read has no complete request.
ReceivePart ==
  /\ pc = "rest" /\ state = "KEEP_ALIVE"
  /\ Reset
  /\ req' = NoRequest
  /\ keep_alive' = TRUE /\ content_length' = 0 /\ body_size' = 0 /\ is_head' = FALSE
  /\ attempt' = "first"
  /\ header_sent' = 0 /\ header_wire' = 0 /\ wire' = <<>>
  /\ UNCHANGED <<state, pc, ssl, restarts, file_end>>

\* An event finds the connection still PARSING: the first write was short. The
\* same buffer is parsed again and open asked again, and it may find something
\* else by now. Every time the header starts anew, without end: the model stops
\* at RESTART_BOUND.
ParseAgain ==
  /\ pc = "rest" /\ state = "PARSING"
  /\ restarts < RESTART_BOUND /\ restarts' = restarts + 1
  /\ pc' = "prepare"
  /\ \E r \in Requests : SameRequest(r, req) /\ req' = r
  /\ attempt' = "again"
  /\ UNCHANGED <<state, ssl, keep_alive, content_length, body_size, is_head, header_sent,
                 body_sent, fileVars, chunkVars, file_end, wireVars>>

\* The common part of prepare_response and prepare_headers. Nothing here closes
\* a file that an earlier attempt left in file_fd_.
Prepare(kind) ==
  /\ pc = "prepare" /\ req.kind = kind
  /\ pc' = "headers"
  /\ keep_alive' = req.keep
  /\ is_head' = req.head
  /\ header_sent' = 0
  /\ attempt' = IF file_fd /\ kind # "file" THEN "stale" ELSE attempt
  /\ UNCHANGED <<state, ssl, restarts, req, body_sent, chunkVars, wireVars>>

\* An error page or a directory listing.
PreparePage ==
  /\ Prepare("page")
  /\ body_size' = req.size /\ content_length' = req.size
  /\ UNCHANGED <<fileVars, file_end>>

\* 304: the file just opened is closed again, there is no body.
PrepareNotModified ==
  /\ Prepare("unchanged")
  /\ body_size' = 0 /\ content_length' = 0
  /\ UNCHANGED <<fileVars, file_end>>

\* Mutant: the length of the closed interval is off by one.
PrepareFileHalfOpen ==
  /\ Prepare("file")
  /\ body_size' = 0
  /\ content_length' = IF req.size > 0 THEN Span.last - Span.first ELSE 0
  /\ file_fd' = TRUE
  /\ open_files' = open_files + 1
  /\ send_offset' = Span.first
  /\ send_remaining' = IF Span.last >= Span.first THEN Span.last - Span.first + 1 ELSE 0
  /\ file_end' = req.size

\* 200 or 206 with set_send_file, which overwrites a file that is still open.
PrepareFile ==
  /\ Prepare("file")
  /\ body_size' = 0
  /\ content_length' = IF req.size > 0 THEN Span.last - Span.first + 1 ELSE 0
  /\ file_fd' = TRUE
  /\ open_files' = open_files + 1
  /\ send_offset' = Span.first
  /\ send_remaining' = IF Span.last >= Span.first THEN Span.last - Span.first + 1 ELSE 0
  /\ file_end' = req.size

--------------------------------------------------------------------------------
(* Connection::do_send_headers: inline after prepare_response, or on an event. *)

HeaderTurn == pc = "headers" \/ (pc = "rest" /\ state = "SENDING_HEADERS")

\* Mutant: a short write is not counted.
WriteHeaderUncounted(n) ==
  /\ header_sent' = IF header_sent + n = HEADER_SIZE THEN HEADER_SIZE ELSE header_sent
  /\ header_wire' = header_wire + n
  /\ UNCHANGED <<ssl, restarts, req, respVars, body_sent, fileVars, chunkVars, file_end, wire>>

\* write or SSL_write takes n bytes of header_buf_.
WriteHeader(n) ==
  /\ header_sent' = header_sent + n
  /\ header_wire' = header_wire + n
  /\ UNCHANGED <<ssl, restarts, req, respVars, body_sent, fileVars, chunkVars, file_end, wire>>

\* The write is short, or the socket is full (n = 0). The state stays what it was.
SendHeadersPart ==
  /\ HeaderTurn
  /\ \E n \in 0 .. HEADER_SIZE - header_sent - 1 : WriteHeader(n)
  /\ pc' = "rest"
  /\ UNCHANGED state

NoBodyToSend == is_head \/ (body_size = 0 /\ ~file_fd)

\* The header is out and nothing follows.
SendHeadersOnly ==
  /\ HeaderTurn /\ NoBodyToSend
  /\ WriteHeader(HEADER_SIZE - header_sent)
  /\ state' = "KEEP_ALIVE" /\ pc' = "rest"

\* The header is out, do_send_body is called at once.
SendHeadersThenBody ==
  /\ HeaderTurn /\ ~NoBodyToSend
  /\ WriteHeader(HEADER_SIZE - header_sent)
  /\ state' = "SENDING_BODY" /\ pc' = "body"

--------------------------------------------------------------------------------
(* Connection::do_send_body.                                                   *)

BodyTurn == pc = "body" \/ (pc = "rest" /\ state = "SENDING_BODY")

FromPage == body_size > 0 /\ ~file_fd

Deliver(first, n) == wire' = wire \o Bytes(first, n)

\* A page: write or SSL_write of any part of what is left.
SendPage ==
  /\ BodyTurn /\ FromPage
  /\ \E n \in 0 .. body_size - body_sent :
       /\ body_sent' = body_sent + n
       /\ Deliver(body_sent, n)
       /\ state' = IF body_sent + n = body_size THEN "KEEP_ALIVE" ELSE state
  /\ pc' = "rest"
  /\ UNCHANGED <<ssl, restarts, req, respVars, header_sent, fileVars, chunkVars, file_end, header_wire>>

\* do_send_body_plain and do_send_body_tls: nothing is left to send.
FileDone ==
  /\ BodyTurn /\ ~FromPage /\ send_remaining <= 0
  /\ ssl => chunk_sent >= chunk_used
  /\ state' = "KEEP_ALIVE" /\ pc' = "rest"
  /\ CloseFile
  /\ UNCHANGED <<ssl, restarts, req, respVars, header_sent, body_sent, send_offset,
                 send_remaining, chunkVars, file_end, wireVars>>

\* The bytes of the file from send_offset on, at most n.
InFile(n) == Least(n, IF file_end > send_offset THEN file_end - send_offset ELSE 0)

\* sendfile returns 0: everything was sent, or the file ended before.
SendFileAll ==
  /\ BodyTurn /\ ~FromPage /\ ~ssl /\ send_remaining > 0
  /\ Deliver(send_offset, InFile(send_remaining))
  /\ send_remaining' = 0
  /\ state' = "KEEP_ALIVE" /\ pc' = "rest"
  /\ CloseFile
  /\ UNCHANGED <<ssl, restarts, req, respVars, header_sent, body_sent, send_offset,
                 chunkVars, file_end, header_wire>>

\* sendfile returns EAGAIN after n bytes.
SendFilePart ==
  /\ BodyTurn /\ ~FromPage /\ ~ssl /\ send_remaining > 0
  /\ \E n \in 0 .. InFile(send_remaining) :
       /\ Deliver(send_offset, n)
       /\ send_offset' = send_offset + n
       /\ send_remaining' = send_remaining - n
  /\ pc' = "rest"
  /\ UNCHANGED <<state, ssl, restarts, req, respVars, header_sent, body_sent, file_fd,
                 open_files, chunkVars, file_end, header_wire>>

\* The chunk at hand: the one being sent, or the next one that pread returns.
NeedChunk == chunk_sent >= chunk_used

\* Mutant: pread always asks for a full chunk.
LoadedWhole == InFile(CHUNK_SIZE)

Loaded == InFile(Least(send_remaining, CHUNK_SIZE))

\* pread finds no byte although some are due: close.
ChunkMissing ==
  /\ BodyTurn /\ ~FromPage /\ ssl
  /\ NeedChunk /\ send_remaining > 0 /\ Loaded = 0
  /\ Close

\* Mutant: the file offset advances by what SSL_write took, chunk or not.
SendChunkEager ==
  /\ BodyTurn /\ ~FromPage /\ ssl
  /\ NeedChunk => send_remaining > 0 /\ Loaded > 0
  /\ LET used == IF NeedChunk THEN Loaded ELSE chunk_used
         sent == IF NeedChunk THEN 0 ELSE chunk_sent
     IN \E n \in 0 .. used - sent :
          /\ Deliver(send_offset + sent, n)
          /\ chunk_used' = used /\ chunk_sent' = sent + n
          /\ send_offset' = send_offset + n
          /\ send_remaining' = send_remaining - n
  /\ pc' = "rest"
  /\ UNCHANGED <<state, ssl, restarts, req, respVars, header_sent, body_sent, file_fd,
                 open_files, file_end, header_wire>>

\* SSL_write takes n bytes of the chunk (none when it must be tried again); the
\* offset and the rest move when the chunk is through.
SendChunk ==
  /\ BodyTurn /\ ~FromPage /\ ssl
  /\ NeedChunk => send_remaining > 0 /\ Loaded > 0
  /\ LET used == IF NeedChunk THEN Loaded ELSE chunk_used
         sent == IF NeedChunk THEN 0 ELSE chunk_sent
     IN \E n \in 0 .. used - sent :
          /\ Deliver(send_offset + sent, n)
          /\ chunk_used' = used /\ chunk_sent' = sent + n
          /\ send_offset' = IF sent + n = used THEN send_offset + used ELSE send_offset
          /\ send_remaining' = IF sent + n = used THEN send_remaining - used ELSE send_remaining
  /\ pc' = "rest"
  /\ UNCHANGED <<state, ssl, restarts, req, respVars, header_sent, body_sent, file_fd,
                 open_files, file_end, header_wire>>

--------------------------------------------------------------------------------
(* The rest of the world.                                                      *)

\* A write or sendfile fails, the peer leaves or the timeout strikes.
ConnectionLost ==
  /\ state # "CLOSED" /\ pc # "prepare"
  /\ Close

\* Another process truncates the file that is being sent.
FileShrinks ==
  /\ FilesShrink /\ file_fd /\ pc = "rest"
  /\ \E n \in 0 .. file_end - 1 : file_end' = n
  /\ UNCHANGED <<state, pc, ssl, restarts, req, respVars, header_sent, body_sent, fileVars,
                 chunkVars, wireVars>>

\* Connection::init for the next client of the slot.
Reopen ==
  /\ state = "CLOSED"
  /\ state' = "READING" /\ pc' = "rest" /\ ssl' \in BOOLEAN
  /\ req' = NoRequest
  /\ keep_alive' = TRUE /\ content_length' = 0 /\ body_size' = 0 /\ is_head' = FALSE
  /\ attempt' = "first"
  /\ header_sent' = 0 /\ body_sent' = 0
  /\ file_fd' = FALSE /\ send_offset' = 0 /\ send_remaining' = 0
  /\ chunk_used' = 0 /\ chunk_sent' = 0
  /\ file_end' = 0 /\ header_wire' = 0 /\ wire' = <<>>
  /\ UNCHANGED <<open_files, restarts>>

Next ==
  \/ \E r \in Requests : ReceiveRequest(r) \/ RefuseRequest(r)
  \/ ReceivePart \/ ParseAgain \/ PreparePage \/ PrepareNotModified \/ PrepareFile
  \/ SendHeadersPart \/ SendHeadersOnly \/ SendHeadersThenBody
  \/ SendPage \/ FileDone \/ SendFileAll \/ SendFilePart \/ ChunkMissing \/ SendChunk
  \/ ConnectionLost \/ FileShrinks \/ Reopen

Spec == Init /\ [][Next]_vars

--------------------------------------------------------------------------------
(* Properties.                                                                 *)

\* Types and the ranges of the counters.
SendTypeOK ==
  /\ state \in {"CLOSED", "READING", "PARSING", "SENDING_HEADERS", "SENDING_BODY", "KEEP_ALIVE"}
  /\ pc \in {"rest", "prepare", "headers", "body"}
  /\ ssl \in BOOLEAN /\ keep_alive \in BOOLEAN /\ is_head \in BOOLEAN /\ file_fd \in BOOLEAN
  /\ req \in Requests \union {NoRequest}
  /\ content_length \in Nat /\ body_size \in Nat
  /\ header_sent \in 0 .. HEADER_SIZE /\ body_sent \in 0 .. body_size
  /\ send_offset \in Nat /\ send_remaining \in Nat
  /\ chunk_used \in 0 .. CHUNK_SIZE /\ chunk_sent \in 0 .. chunk_used
  /\ file_end \in Nat /\ open_files \in Nat
  /\ attempt \in {"first", "again", "stale"} /\ restarts \in 0 .. RESTART_BOUND
  /\ header_wire \in Nat /\ wire \in Seq(Nat)

\* The offset of the first byte of the body of the current response.
Origin == IF req.kind = "file" THEN Span.first ELSE 0

\* What follows a header is the body it announces: the bytes of the page or of
\* the range in order, without a gap or a repetition, and never more of them than
\* Content-Length says.
BodyIsOfTheHeader ==
  /\ wire = Bytes(Origin, Len(wire))
  /\ Len(wire) <= content_length

\* That holds whatever the pieces in which the socket, sendfile and SSL_write take
\* the bytes, also when the first write was short and the answer was prepared
\* anew, from another file or a changed one (do_send_body, do_send_body_plain,
\* do_send_body_tls); but not if what is prepared anew is a page or a 304 while
\* file_fd_ still holds the file of the attempt before. HEAD never has a body.
BodyInOrder ==
  /\ attempt # "stale" => BodyIsOfTheHeader
  /\ is_head => wire = <<>>

\* The client has the response to the request, or there was no request yet.
Complete ==
  req # NoRequest =>
    /\ header_sent = HEADER_SIZE
    /\ Len(wire) = IF is_head THEN 0 ELSE content_length

\* A connection goes back to waiting for a request only when the client has the
\* whole response: exactly Content-Length bytes follow the header. The exceptions
\* are a page or a 304 that met a file still open, and a file that shrank while
\* sendfile was sending it: sendfile then returns 0 before the announced end. On
\* TLS the missing bytes close the connection (do_send_body_plain,
\* do_send_body_tls, do_send_body).
ShortOnlyBySendfile ==
  state = "KEEP_ALIVE" /\ attempt # "stale" /\ ~Complete
    => ~ssl /\ req.kind = "file" /\ file_end < req.size

\* The connection holds exactly the file it has to send: none leaks when a
\* response ends, fails, is a HEAD, or is followed by another one, except that
\* every new start of an answer may lose one (set_send_file overwrites file_fd_).
FilesAccountedFor ==
  LET held == IF file_fd THEN 1 ELSE 0
  IN open_files \in held .. held + restarts

\* The client receives no byte of a header twice, unless the answer was started
\* again after a short first write.
HeaderSentOnce == attempt = "first" => header_wire = header_sent

\* A response that announces "Connection: close" is not followed by another
\* request on the connection.
CloseIsHonoured == state = "KEEP_ALIVE" => keep_alive
================================================================================
