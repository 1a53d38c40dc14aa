------------------------- MODULE ConnectionSendProofs --------------------------
(* Proofs about ConnectionSend, for every length of header, chunk, page and    *)
(* file, every range, and every way in which the socket takes the bytes.       *)
EXTENDS ConnectionSend, SequenceTheorems, TLAPS

\* The response is prepared: what prepare_response (or a refusal) left behind.
Answered ==
  /\ req.kind \in {"malformed", "page"} =>
       body_size = req.size /\ content_length = req.size
  /\ req.kind = "malformed" => ~file_fd
  /\ req.kind = "unchanged" => body_size = 0 /\ content_length = 0
  /\ req.kind \in {"page", "unchanged"} /\ file_fd => attempt = "stale"
  /\ req.kind = "file" =>
       body_size = 0 /\ content_length = Span.last - Span.first + 1

\* Nothing of the body is out yet.
Untouched ==
  /\ wire = <<>> /\ body_sent = 0 /\ chunk_used = 0 /\ chunk_sent = 0

\* The counters of a file agree with each other and with what the client got.
\* The bytes of a chunk under way are out, although send_offset does not count
\* them: this is why BodyInOrder is not inductive.
FileAccounts ==
  /\ file_fd
  /\ send_offset >= Span.first
  /\ send_offset + send_remaining = Span.last + 1
  /\ IF ssl /\ chunk_sent < chunk_used
     THEN /\ Len(wire) = send_offset - Span.first + chunk_sent
          /\ chunk_used <= send_remaining
     ELSE Len(wire) = send_offset - Span.first

\* A chunk under way is part of what remains of the file, whatever the header said.
ChunkFits == ssl /\ chunk_sent < chunk_used => chunk_used <= send_remaining

\* What holds at each place of process_connection and in each state.
Places ==
  /\ pc \in {"prepare", "headers"} => state = "PARSING"
  /\ pc = "body" => state = "SENDING_BODY"
  /\ state \in {"PARSING", "SENDING_HEADERS", "SENDING_BODY"} => req \in Requests
  /\ state = "READING" => Untouched /\ ~file_fd
  /\ file_fd => open_files > 0
  /\ state = "PARSING" => Untouched /\ req.kind # "malformed"
  /\ state = "SENDING_HEADERS" => Untouched /\ req.kind = "malformed" /\ ~is_head

\* What a response that is prepared keeps until it is out.
Progress ==
  /\ pc = "headers" \/ state \in {"SENDING_HEADERS", "SENDING_BODY"} => Answered
  /\ pc = "headers" /\ req.kind = "file" => FileAccounts
  /\ state = "SENDING_BODY" =>
       /\ ~is_head /\ ChunkFits
       /\ req.kind = "unchanged" => file_fd
       /\ req.kind = "file" => FileAccounts
       /\ req.kind # "file" /\ ~file_fd => Len(wire) = body_sent

SendInv == SendTypeOK /\ BodyInOrder /\ Places /\ Progress

--------------------------------------------------------------------------------
\* parse_range and prepare_response never leave the file: the interval starts
\* inside it (an empty file apart) and ends before its end.
LEMMA IntervalInFile ==
  ASSUME NEW h \in RangeHeaders(RangeNumbers), NEW size \in Nat
  PROVE  /\ Interval(h, size).first \in Nat
         /\ Interval(h, size).last \in Int
         /\ Interval(h, size).first <= Interval(h, size).last + 1
         /\ Interval(h, size).last < size
         /\ size > 0 => Interval(h, size).first <= Interval(h, size).last
<1>1. /\ h.a \in Nat /\ h.b \in Nat
      /\ h.form \in {"none", "suffix", "from", "span"}
  BY SendAssumption DEF SendAssumption, RangeHeaders, RangeHeader, NoHeader
<1> DEFINE first == IF h.form = "suffix" THEN (IF size < h.a THEN 0 ELSE size - h.a) ELSE h.a
           last  == IF h.form = "span" THEN h.b ELSE size - 1
<1>2. first \in Nat /\ last \in Int
  BY <1>1
<1>3. CASE ParseRange(h, size).set
  <2>1. ParseRange(h, size)
          = [set |-> TRUE, first |-> first, last |-> IF last >= size THEN size - 1 ELSE last]
    BY <1>3 DEF ParseRange, NoRange
  <2>2. first < size /\ first <= last
    BY <1>1, <1>2, <1>3 DEF ParseRange, NoRange
  <2> QED
    BY <1>2, <1>3, <2>1, <2>2 DEF Interval
<1>4. CASE ~ParseRange(h, size).set
  BY <1>4 DEF Interval
<1> QED
  BY <1>3, <1>4

\* The parts of a request.
LEMMA RequestParts ==
  ASSUME NEW r \in Requests
  PROVE  /\ r.kind \in {"malformed", "page", "unchanged", "file"}
         /\ r.size \in Nat
         /\ r.kind \in {"malformed", "page"} => r.size > 0
         /\ r.head \in BOOLEAN /\ r.keep \in BOOLEAN
         /\ r.range \in RangeHeaders(RangeNumbers)
         /\ r.kind = "malformed" => ~r.head
<1>1. CASE r \in [kind : {"malformed"}, size : PageSizes, head : {FALSE}, keep : {FALSE},
                  range : {NoHeader}]
  <2>1. r.size \in PageSizes /\ r.range = NoHeader /\ r.kind = "malformed"
        /\ r.head = FALSE /\ r.keep = FALSE
    BY <1>1
  <2>2. NoHeader \in RangeHeaders(RangeNumbers)
    BY DEF RangeHeaders
  <2>3. r.size \in Nat \ {0}
    BY <2>1, SendAssumption DEF SendAssumption
  <2>4. r.size \in Nat /\ r.size > 0
    BY <2>3
  <2>5. r.range \in RangeHeaders(RangeNumbers)
    BY <2>1, <2>2
  <2> QED
    BY <2>1, <2>4, <2>5
<1>2. CASE r \in [kind : {"page"}, size : PageSizes, head : BOOLEAN, keep : BOOLEAN,
                  range : RangeHeaders(RangeNumbers)]
  <2>1. r.size \in PageSizes /\ r.range \in RangeHeaders(RangeNumbers) /\ r.kind = "page"
        /\ r.head \in BOOLEAN /\ r.keep \in BOOLEAN
    BY <1>2
  <2>2. r.size \in Nat \ {0}
    BY <2>1, SendAssumption DEF SendAssumption
  <2>3. r.size \in Nat /\ r.size > 0
    BY <2>2
  <2> QED
    BY <2>1, <2>3
<1>3. CASE r \in [kind : {"unchanged", "file"}, size : FileSizes, head : BOOLEAN,
                  keep : BOOLEAN, range : RangeHeaders(RangeNumbers)]
  <2>1. r.size \in FileSizes /\ r.range \in RangeHeaders(RangeNumbers)
        /\ r.kind \in {"unchanged", "file"} /\ r.head \in BOOLEAN /\ r.keep \in BOOLEAN
    BY <1>3
  <2> QED
    BY <2>1, SendAssumption DEF SendAssumption
<1> QED
  BY <1>1, <1>2, <1>3 DEF Requests

\* The part of a file that a request asks for.
LEMMA SpanInFile ==
  ASSUME req \in Requests
  PROVE  /\ Span.first \in Nat /\ Span.last \in Int
         /\ Span.first <= Span.last + 1
         /\ Span.last < req.size
         /\ req.size > 0 => Span.first <= Span.last
BY RequestParts, IntervalInFile DEF Span

\* Bytes is a sequence of n offsets, and consecutive pieces make one piece.
LEMMA BytesSeq ==
  ASSUME NEW o \in Nat, NEW n \in Nat
  PROVE  Bytes(o, n) \in Seq(Nat) /\ Len(Bytes(o, n)) = n
BY DEF Bytes

LEMMA BytesNone ==
  ASSUME NEW o \in Nat
  PROVE  Bytes(o, 0) = <<>>
BY DEF Bytes

LEMMA BytesJoin ==
  ASSUME NEW o \in Nat, NEW m \in Nat, NEW n \in Nat
  PROVE  Bytes(o, m) \o Bytes(o + m, n) = Bytes(o, m + n)
<1>1. Bytes(o, m) \in Seq(Nat) /\ Len(Bytes(o, m)) = m
  BY BytesSeq
<1>2. Bytes(o + m, n) \in Seq(Nat) /\ Len(Bytes(o + m, n)) = n
  <2>1. o + m \in Nat
    OBVIOUS
  <2> QED
    BY <2>1, BytesSeq
<1>3. Bytes(o, m + n) \in Seq(Nat) /\ Len(Bytes(o, m + n)) = m + n
  <2>1. m + n \in Nat
    OBVIOUS
  <2> QED
    BY <2>1, BytesSeq
<1>4. /\ Bytes(o, m) \o Bytes(o + m, n) \in Seq(Nat)
      /\ Len(Bytes(o, m) \o Bytes(o + m, n)) = m + n
      /\ \A i \in 1 .. m + n :
           (Bytes(o, m) \o Bytes(o + m, n))[i]
             = IF i <= m THEN Bytes(o, m)[i] ELSE Bytes(o + m, n)[i - m]
  <2>1. /\ Bytes(o, m) \o Bytes(o + m, n) \in Seq(Nat)
        /\ Len(Bytes(o, m) \o Bytes(o + m, n)) = Len(Bytes(o, m)) + Len(Bytes(o + m, n))
        /\ \A i \in 1 .. Len(Bytes(o, m)) + Len(Bytes(o + m, n)) :
             (Bytes(o, m) \o Bytes(o + m, n))[i]
               = IF i <= Len(Bytes(o, m)) THEN Bytes(o, m)[i]
                 ELSE Bytes(o + m, n)[i - Len(Bytes(o, m))]
    BY <1>1, <1>2, ConcatProperties, Zenon
  <2> QED
    BY <1>1, <1>2, <2>1
<1>5. ASSUME NEW i \in 1 .. m + n
      PROVE  (Bytes(o, m) \o Bytes(o + m, n))[i] = Bytes(o, m + n)[i]
  <2>1. CASE i <= m
    BY <1>4, <2>1 DEF Bytes
  <2>2. CASE i > m
    <3>1. i - m \in 1 .. n
      BY <2>2
    <3>2. Bytes(o + m, n)[i - m] = o + m + (i - m) - 1
      BY <3>1 DEF Bytes
    <3>3. Bytes(o, m + n)[i] = o + i - 1
      BY DEF Bytes
    <3> QED
      <4>1. (Bytes(o, m) \o Bytes(o + m, n))[i] = Bytes(o + m, n)[i - m]
        BY <1>4, <2>2
      <4>2. o + m + (i - m) - 1 = o + i - 1
        OBVIOUS
      <4> QED
        BY <3>2, <3>3, <4>1, <4>2
  <2>3. i <= m \/ i > m
    OBVIOUS
  <2> QED
    BY <2>1, <2>2, <2>3, Zenon
<1> QED
  BY <1>3, <1>4, <1>5, SeqEqual

\* A piece that follows on what was sent keeps the body in order.
LEMMA DeliverInOrder ==
  ASSUME NEW o \in Nat, NEW n \in Nat, wire \in Seq(Nat),
         wire = Bytes(o, Len(wire)), Deliver(o + Len(wire), n)
  PROVE  wire' = Bytes(o, Len(wire')) /\ Len(wire') = Len(wire) + n /\ wire' \in Seq(Nat)
<1>1. Len(wire) \in Nat /\ Len(wire) + n \in Nat
  BY LenProperties
<1>2. wire' = Bytes(o, Len(wire)) \o Bytes(o + Len(wire), n)
  BY DEF Deliver
<1>3. wire' = Bytes(o, Len(wire) + n)
  BY <1>1, <1>2, BytesJoin
<1>4. Len(wire') = Len(wire) + n /\ wire' \in Seq(Nat)
  BY <1>1, <1>3, BytesSeq
<1> QED
  BY <1>3, <1>4

--------------------------------------------------------------------------------
\* The connection starts with nothing sent.
LEMMA InitEstablishes ==
  ASSUME Init
  PROVE  SendInv
<1>1. wire \in Seq(Nat) /\ Len(wire) = 0
  BY EmptySeq DEF Init
<1>2. SendTypeOK
  <2>1. 0 \in 0 .. HEADER_SIZE /\ 0 \in 0 .. CHUNK_SIZE /\ 0 \in 0 .. 0 /\ 0 \in 0 .. RESTART_BOUND
    BY SendAssumption DEF SendAssumption
  <2> QED
    BY <1>1, <2>1 DEF Init, SendTypeOK
<1>3. wire = Bytes(0, 0)
  BY BytesNone DEF Init
<1>4. BodyInOrder
  BY <1>1, <1>3 DEF Init, BodyInOrder, BodyIsOfTheHeader, Origin, NoRequest
<1> QED
  BY <1>2, <1>4 DEF Init, SendInv, Places, Progress, Untouched

\* The first byte of a request's answer has an offset, and it is 0 or the start
\* of the range.
LEMMA OriginIsOffset ==
  ASSUME NEW r \in Requests \union {NoRequest}
  PROVE  (IF r.kind = "file" THEN Interval(r.range, r.size).first ELSE 0) \in Nat
<1>1. CASE r \in Requests
  BY <1>1, RequestParts, IntervalInFile
<1>2. CASE r = NoRequest
  BY <1>2 DEF NoRequest
<1> QED
  BY <1>1, <1>2

\* After a step that leaves no byte of the body on the wire the body is in order.
LEMMA NothingSent ==
  ASSUME wire' = <<>>, req' \in Requests \union {NoRequest}, content_length' \in Nat
  PROVE  BodyInOrder' /\ wire' \in Seq(Nat)
<1>1. Origin' \in Nat
  BY OriginIsOffset DEF Origin, Span
<1>2. wire' = Bytes(Origin', 0) /\ Len(wire') = 0 /\ wire' \in Seq(Nat)
  BY <1>1, BytesNone, EmptySeq
<1> QED
  BY <1>2 DEF BodyInOrder, BodyIsOfTheHeader

\* close() and the closing of the file at the end of a response.
LEMMA CloseFileAccounts ==
  ASSUME SendInv, CloseFile
  PROVE  open_files' \in Nat /\ file_fd' = FALSE
<1>1. open_files \in Nat /\ (file_fd => open_files > 0) /\ file_fd \in BOOLEAN
  BY DEF SendInv, SendTypeOK, Places
<1> QED
  BY <1>1 DEF CloseFile

\* A new request finds the counters of the last response cleared.
LEMMA NewRequestKeepsInv ==
  ASSUME SendInv, NEW r \in Requests, ReceiveRequest(r) \/ RefuseRequest(r)
  PROVE  SendInv'
<1>1. Untouched' /\ ~file_fd' /\ send_offset' \in Nat /\ send_remaining' \in Nat
      /\ open_files' \in Nat /\ file_fd' \in BOOLEAN
  <2>1. wire' = <<>> /\ ResetIfKeptAlive /\ state \in {"READING", "KEEP_ALIVE"}
    BY DEF ReceiveRequest, RefuseRequest
  <2>2. CASE state = "KEEP_ALIVE"
    <3>1. Reset
      BY <2>1, <2>2 DEF ResetIfKeptAlive
    <3>2. open_files \in Nat /\ (file_fd => open_files > 0) /\ file_fd \in BOOLEAN
      BY DEF SendInv, SendTypeOK, Places
    <3>3. open_files' \in Nat
      BY <3>1, <3>2 DEF Reset, CloseFile
    <3>4. /\ body_sent' = 0 /\ chunk_used' = 0 /\ chunk_sent' = 0
          /\ file_fd' = FALSE /\ send_offset' = 0 /\ send_remaining' = 0
      BY <3>1 DEF Reset, CloseFile
    <3> QED
      BY <2>1, <3>3, <3>4 DEF Untouched
  <2>3. CASE state = "READING"
    <3>1. /\ body_sent = 0 /\ chunk_used = 0 /\ chunk_sent = 0 /\ ~file_fd
          /\ send_offset \in Nat /\ send_remaining \in Nat /\ open_files \in Nat
          /\ file_fd \in BOOLEAN
      BY <2>3 DEF SendInv, SendTypeOK, Places, Untouched
    <3> QED
      BY <2>1, <2>3, <3>1 DEF Untouched, ResetIfKeptAlive, fileVars, chunkVars
  <2> QED
    BY <2>1, <2>2, <2>3
<1>2. /\ req' = r /\ header_sent' = 0 /\ header_wire' = 0 /\ wire' = <<>>
      /\ ssl' = ssl /\ file_end' = file_end /\ restarts' = restarts /\ attempt' = "first"
      /\ is_head' = FALSE /\ keep_alive' \in BOOLEAN
      /\ IF r.kind = "malformed"
         THEN /\ state' = "SENDING_HEADERS" /\ pc' = "rest"
              /\ content_length' = r.size /\ body_size' = r.size
         ELSE /\ state' = "PARSING" /\ pc' = "prepare"
              /\ content_length' = 0 /\ body_size' = 0
  BY DEF ReceiveRequest, RefuseRequest
<1>3. r.size \in Nat
  BY RequestParts
<1>4. content_length' \in Nat /\ body_size' \in Nat
  BY <1>2, <1>3
<1>5. BodyInOrder' /\ wire' \in Seq(Nat)
  BY <1>2, <1>4, NothingSent
<1>6. SendTypeOK'
  <2>1. 0 \in 0 .. HEADER_SIZE /\ 0 \in 0 .. CHUNK_SIZE /\ 0 \in 0 .. 0 /\ 0 \in 0 .. body_size'
    BY <1>4, SendAssumption DEF SendAssumption
  <2> QED
    BY <1>1, <1>2, <1>4, <1>5, <2>1 DEF SendInv, SendTypeOK, Untouched
<1>7. Places'
  BY <1>1, <1>2 DEF Places
<1>8. Progress'
  BY <1>1, <1>2 DEF Progress, Answered
<1> QED
  BY <1>5, <1>6, <1>7, <1>8 DEF SendInv

\* So does a part of a request.
LEMMA PartKeepsInv ==
  ASSUME SendInv, ReceivePart
  PROVE  SendInv'
<1>1. /\ Reset /\ req' = NoRequest /\ state = "KEEP_ALIVE" /\ pc = "rest"
      /\ keep_alive' = TRUE /\ content_length' = 0 /\ body_size' = 0 /\ is_head' = FALSE
      /\ header_sent' = 0 /\ header_wire' = 0 /\ wire' = <<>>
      /\ attempt' = "first" /\ restarts' = restarts
      /\ state' = state /\ pc' = pc /\ ssl' = ssl /\ file_end' = file_end
  BY DEF ReceivePart
<1>2. /\ CloseFile /\ body_sent' = 0 /\ chunk_used' = 0 /\ chunk_sent' = 0
      /\ send_offset' = 0 /\ send_remaining' = 0
  BY <1>1 DEF Reset
<1>3. open_files' \in Nat /\ file_fd' = FALSE
  BY <1>2, CloseFileAccounts
<1>4. BodyInOrder' /\ wire' \in Seq(Nat)
  BY <1>1, NothingSent
<1>5. SendTypeOK'
  <2>1. 0 \in 0 .. HEADER_SIZE /\ 0 \in 0 .. CHUNK_SIZE /\ 0 \in 0 .. 0
    BY SendAssumption DEF SendAssumption
  <2> QED
    BY <1>1, <1>2, <1>3, <1>4, <2>1 DEF SendInv, SendTypeOK
<1>6. Places' /\ Progress'
  BY <1>1, <1>3 DEF Places, Progress
<1> QED
  BY <1>4, <1>5, <1>6 DEF SendInv

\* The fields of a request that is being answered.
LEMMA RequestUnderWay ==
  ASSUME SendInv, state \in {"PARSING", "SENDING_HEADERS", "SENDING_BODY"}
  PROVE  /\ req \in Requests
         /\ req.size \in Nat /\ req.keep \in BOOLEAN /\ req.head \in BOOLEAN
         /\ Span.first \in Nat /\ Span.last \in Int
         /\ Span.first <= Span.last + 1 /\ Span.last < req.size
         /\ req.size > 0 => Span.first <= Span.last
BY RequestParts, SpanInFile DEF SendInv, Places

\* prepare_response announces the length that it also hands to the send state.
LEMMA PrepareKeepsInv ==
  ASSUME SendInv, PreparePage \/ PrepareNotModified \/ PrepareFile
  PROVE  SendInv'
<1> DEFINE Length == Span.last - Span.first + 1
<1>1. state = "PARSING"
  BY DEF PreparePage, PrepareNotModified, PrepareFile, Prepare, SendInv, Places
<1>2. /\ req.size \in Nat /\ req.keep \in BOOLEAN /\ req.head \in BOOLEAN
      /\ Span.first \in Nat /\ Span.last \in Int
      /\ Length \in Nat /\ (req.size = 0 => Length = 0)
      /\ Span.first + Length = Span.last + 1
      /\ req \in Requests
  BY <1>1, RequestUnderWay
<1>3. /\ state' = "PARSING" /\ pc' = "headers" /\ req' = req /\ header_sent' = 0
      /\ ssl' = ssl /\ keep_alive' = req.keep /\ is_head' = req.head
      /\ body_sent' = body_sent /\ header_wire' = header_wire /\ wire' = wire
      /\ chunk_used' = chunk_used /\ chunk_sent' = chunk_sent
      /\ restarts' = restarts
      /\ attempt' = IF file_fd /\ req.kind # "file" THEN "stale" ELSE attempt
  BY <1>1 DEF PreparePage, PrepareNotModified, PrepareFile, Prepare, chunkVars, wireVars
<1>4. /\ wire = <<>> /\ body_sent = 0 /\ chunk_used = 0 /\ chunk_sent = 0
      /\ req.kind # "malformed"
      /\ file_fd => open_files > 0
  BY <1>1 DEF SendInv, Places, Untouched
<1>5. CASE PreparePage \/ PrepareNotModified
  <2>1. /\ req.kind \in {"page", "unchanged"}
        /\ body_size' = IF req.kind = "page" THEN req.size ELSE 0
        /\ content_length' = body_size'
        /\ file_fd' = file_fd /\ open_files' = open_files
        /\ send_offset' = send_offset /\ send_remaining' = send_remaining
        /\ file_end' = file_end
    BY <1>4, <1>5 DEF PreparePage, PrepareNotModified, Prepare, fileVars, SendInv, SendTypeOK
  <2>2. content_length' \in Nat /\ body_size' \in Nat
    BY <1>2, <2>1
  <2>3. BodyInOrder' /\ wire' \in Seq(Nat)
    BY <1>2, <1>3, <1>4, <2>2, NothingSent
  <2>4. SendTypeOK'
    <3>1. 0 \in 0 .. HEADER_SIZE /\ 0 \in 0 .. CHUNK_SIZE /\ 0 \in 0 .. 0 /\ 0 \in 0 .. body_size'
      BY <2>2, SendAssumption DEF SendAssumption
    <3> QED
      BY <1>2, <1>3, <1>4, <2>1, <2>2, <2>3, <3>1 DEF SendInv, SendTypeOK
  <2>5. Places'
    BY <1>2, <1>3, <1>4, <2>1 DEF Places, Untouched
  <2>6. Progress'
    BY <1>3, <2>1 DEF Progress, Answered
  <2> QED
    BY <2>3, <2>4, <2>5, <2>6 DEF SendInv
<1>6. CASE PrepareFile
  <2>1. /\ req.kind = "file" /\ body_size' = 0 /\ content_length' = Length
        /\ file_fd' = TRUE /\ open_files' = open_files + 1
        /\ send_offset' = Span.first /\ send_remaining' = Length
        /\ file_end' = req.size
    BY <1>2, <1>6 DEF PrepareFile, Prepare
  <2>2. content_length' \in Nat /\ body_size' \in Nat
    BY <1>2, <2>1
  <2>3. BodyInOrder' /\ wire' \in Seq(Nat)
    BY <1>2, <1>3, <1>4, <2>2, NothingSent
  <2>4. open_files \in Nat
    BY DEF SendInv, SendTypeOK
  <2>5. SendTypeOK'
    <3>1. 0 \in 0 .. HEADER_SIZE /\ 0 \in 0 .. CHUNK_SIZE /\ 0 \in 0 .. 0 /\ 0 \in 0 .. body_size'
      BY <2>2, SendAssumption DEF SendAssumption
    <3> QED
      BY <1>2, <1>3, <1>4, <2>1, <2>2, <2>3, <2>4, <3>1 DEF SendInv, SendTypeOK
  <2>6. Places'
    BY <1>2, <1>3, <1>4, <2>1, <2>4 DEF Places, Untouched
  <2>7. FileAccounts'
    <3>1. Span' = Span
      BY <1>3 DEF Span
    <3>2. Len(wire') = 0
      BY <1>3, <1>4, EmptySeq
    <3> QED
      BY <1>2, <1>3, <1>4, <2>1, <3>1, <3>2 DEF FileAccounts
  <2>8. Progress'
    BY <1>3, <2>1, <2>7 DEF Progress, Answered, Span
  <2> QED
    BY <2>3, <2>5, <2>6, <2>8 DEF SendInv
<1> QED
  BY <1>5, <1>6

\* A step that touches neither the wire nor the response keeps the body in order.
LEMMA SameBody ==
  ASSUME BodyInOrder, wire' = wire, req' = req, content_length' = content_length,
         is_head' = is_head, attempt' = attempt
  PROVE  BodyInOrder'
BY DEF BodyInOrder, BodyIsOfTheHeader, Origin, Span

\* close() from any state.
LEMMA CloseKeepsInv ==
  ASSUME SendInv, Close
  PROVE  SendInv'
<1>1. /\ state' = "CLOSED" /\ pc' = "rest" /\ CloseFile
      /\ ssl' = ssl /\ req' = req /\ keep_alive' = keep_alive
      /\ content_length' = content_length /\ body_size' = body_size /\ is_head' = is_head
      /\ attempt' = attempt /\ restarts' = restarts
      /\ header_sent' = header_sent /\ body_sent' = body_sent
      /\ send_offset' = send_offset /\ send_remaining' = send_remaining
      /\ chunk_used' = chunk_used /\ chunk_sent' = chunk_sent
      /\ file_end' = file_end /\ header_wire' = header_wire /\ wire' = wire
  BY DEF Close, respVars, chunkVars, wireVars
<1>2. open_files' \in Nat /\ file_fd' = FALSE
  BY <1>1, CloseFileAccounts
<1>3. SendTypeOK'
  BY <1>1, <1>2 DEF SendInv, SendTypeOK
<1>4. BodyInOrder'
  BY <1>1, SameBody DEF SendInv
<1>5. Places' /\ Progress'
  BY <1>1, <1>2 DEF Places, Progress
<1> QED
  BY <1>3, <1>4, <1>5 DEF SendInv

\* The request is parsed again and open asked again: nothing of the body is out.
LEMMA ParseAgainKeepsInv ==
  ASSUME SendInv, ParseAgain
  PROVE  SendInv'
<1>1. /\ state = "PARSING" /\ state' = state /\ pc' = "prepare" /\ attempt' = "again"
      /\ restarts' \in 0 .. RESTART_BOUND /\ req' \in Requests /\ req'.kind # "malformed"
      /\ ssl' = ssl /\ keep_alive' = keep_alive
      /\ content_length' = content_length /\ body_size' = body_size /\ is_head' = is_head
      /\ header_sent' = header_sent /\ body_sent' = body_sent
      /\ file_fd' = file_fd /\ open_files' = open_files
      /\ send_offset' = send_offset /\ send_remaining' = send_remaining
      /\ chunk_used' = chunk_used /\ chunk_sent' = chunk_sent
      /\ file_end' = file_end /\ header_wire' = header_wire /\ wire' = wire
  BY SendAssumption DEF ParseAgain, SameRequest, fileVars, chunkVars, wireVars, SendInv,
                        SendTypeOK, SendAssumption
<1>2. BodyInOrder' /\ wire' \in Seq(Nat)
  BY <1>1, NothingSent DEF SendInv, SendTypeOK, Places, Untouched
<1>3. SendTypeOK'
  BY <1>1, <1>2 DEF SendInv, SendTypeOK
<1>4. Places'
  BY <1>1 DEF SendInv, Places, Untouched
<1>5. Progress'
  BY <1>1 DEF Progress
<1> QED
  BY <1>2, <1>3, <1>4, <1>5 DEF SendInv

\* The file under way gets shorter: nothing that the invariant is about moves.
LEMMA ShrinkKeepsInv ==
  ASSUME SendInv, FileShrinks
  PROVE  SendInv'
<1>1. /\ state' = state /\ pc' = pc /\ ssl' = ssl /\ req' = req /\ keep_alive' = keep_alive
      /\ content_length' = content_length /\ body_size' = body_size /\ is_head' = is_head
      /\ attempt' = attempt /\ restarts' = restarts
      /\ header_sent' = header_sent /\ body_sent' = body_sent
      /\ file_fd' = file_fd /\ open_files' = open_files
      /\ send_offset' = send_offset /\ send_remaining' = send_remaining
      /\ chunk_used' = chunk_used /\ chunk_sent' = chunk_sent
      /\ header_wire' = header_wire /\ wire' = wire /\ file_end' \in Nat
  BY DEF FileShrinks, respVars, fileVars, chunkVars, wireVars
<1>2. SendTypeOK'
  BY <1>1 DEF SendInv, SendTypeOK
<1>3. BodyInOrder'
  BY <1>1, SameBody DEF SendInv
<1>4. Places'
  BY <1>1 DEF SendInv, Places, Untouched
<1>5. Progress'
  BY <1>1 DEF SendInv, Progress, Answered, FileAccounts, ChunkFits, Span
<1> QED
  BY <1>2, <1>3, <1>4, <1>5 DEF SendInv

\* init() for the next client.
LEMMA ReopenKeepsInv ==
  ASSUME SendInv, Reopen
  PROVE  SendInv'
<1>1. BodyInOrder' /\ wire' \in Seq(Nat)
  BY NothingSent DEF Reopen
<1>2. SendTypeOK'
  <2>1. 0 \in 0 .. HEADER_SIZE /\ 0 \in 0 .. CHUNK_SIZE /\ 0 \in 0 .. 0
    BY SendAssumption DEF SendAssumption
  <2>2. open_files \in Nat /\ restarts \in 0 .. RESTART_BOUND
    BY DEF SendInv, SendTypeOK
  <2> QED
    BY <1>1, <2>1, <2>2 DEF Reopen, SendTypeOK
<1>3. Places' /\ Progress'
  BY DEF Reopen, Places, Progress, Untouched
<1> QED
  BY <1>1, <1>2, <1>3 DEF SendInv

--------------------------------------------------------------------------------
\* A part of the header, or all of it, leaves the body untouched.
LEMMA HeadersKeepInv ==
  ASSUME SendInv, SendHeadersPart \/ SendHeadersOnly \/ SendHeadersThenBody
  PROVE  SendInv'
<1>1. /\ HeaderTurn
      /\ ssl' = ssl /\ req' = req /\ keep_alive' = keep_alive
      /\ content_length' = content_length /\ body_size' = body_size /\ is_head' = is_head
      /\ attempt' = attempt /\ restarts' = restarts
      /\ body_sent' = body_sent
      /\ file_fd' = file_fd /\ open_files' = open_files
      /\ send_offset' = send_offset /\ send_remaining' = send_remaining
      /\ chunk_used' = chunk_used /\ chunk_sent' = chunk_sent
      /\ file_end' = file_end /\ wire' = wire
  BY DEF SendHeadersPart, SendHeadersOnly, SendHeadersThenBody, WriteHeader, respVars,
         fileVars, chunkVars
<1>2. header_sent \in 0 .. HEADER_SIZE /\ header_wire \in Nat /\ HEADER_SIZE \in Nat
  BY SendAssumption DEF SendInv, SendTypeOK, SendAssumption
<1>3. header_sent' \in 0 .. HEADER_SIZE /\ header_wire' \in Nat
  <2>1. \E n \in 0 .. HEADER_SIZE - header_sent : WriteHeader(n)
    BY <1>2 DEF SendHeadersPart, SendHeadersOnly, SendHeadersThenBody
  <2>2. PICK n \in 0 .. HEADER_SIZE - header_sent : WriteHeader(n)
    BY <2>1
  <2>3. header_sent' = header_sent + n /\ header_wire' = header_wire + n
    BY <2>2 DEF WriteHeader
  <2> QED
    BY <1>2, <2>3
<1>4. state \in {"PARSING", "SENDING_HEADERS"} /\ Untouched /\ Answered
  BY <1>1 DEF HeaderTurn, SendInv, Places, Progress
<1>5. \/ state' = state /\ pc' = "rest"
      \/ state' = "KEEP_ALIVE" /\ pc' = "rest"
      \/ state' = "SENDING_BODY" /\ pc' = "body" /\ ~NoBodyToSend
  BY DEF SendHeadersPart, SendHeadersOnly, SendHeadersThenBody
<1>6. SendTypeOK'
  BY <1>1, <1>3, <1>4, <1>5 DEF SendInv, SendTypeOK
<1>7. BodyInOrder'
  BY <1>1, SameBody DEF SendInv
<1>8. Places'
  BY <1>1, <1>4, <1>5 DEF SendInv, Places, Untouched
<1>9. Progress'
  <2>1. Answered'
    BY <1>1, <1>4 DEF Answered, Span
  <2>2. CASE state' = "SENDING_BODY" /\ ~NoBodyToSend
    <3>1. ~is_head' /\ ChunkFits' /\ (req'.kind = "unchanged" => file_fd')
      BY <1>1, <1>4, <2>2 DEF NoBodyToSend, Answered, ChunkFits, Untouched
    <3>2. req.kind = "file" => FileAccounts
      BY <1>1, <1>4 DEF HeaderTurn, SendInv, Places, Progress
    <3>3. req.kind = "file" => FileAccounts'
      BY <1>1, <3>2 DEF FileAccounts, Span
    <3>4. Len(wire') = body_sent'
      BY <1>1, <1>4, EmptySeq DEF Untouched
    <3> QED
      BY <1>1, <1>5, <2>1, <2>2, <3>1, <3>3, <3>4 DEF Progress
  <2>3. CASE state' # "SENDING_BODY" /\ pc' = "rest"
    BY <2>1, <2>3 DEF Progress
  <2> QED
    BY <1>4, <1>5, <2>2, <2>3
<1> QED
  BY <1>6, <1>7, <1>8, <1>9 DEF SendInv

--------------------------------------------------------------------------------
\* do_send_body runs in SENDING_BODY, on a response that was prepared: it sends a
\* page, the file of the request, or the file of an earlier attempt.
LEMMA AtBody ==
  ASSUME SendInv, BodyTurn
  PROVE  /\ state = "SENDING_BODY" /\ req \in Requests
         /\ Answered /\ ~is_head /\ ChunkFits
         /\ FromPage => /\ req.kind \in {"malformed", "page"}
                        /\ Len(wire) = body_sent /\ content_length = body_size
         /\ ~FromPage => /\ file_fd
                         /\ req.kind = "file" => FileAccounts
                         /\ req.kind # "file" => attempt = "stale"
<1>1. /\ state = "SENDING_BODY" /\ req \in Requests /\ Answered /\ ~is_head /\ ChunkFits
      /\ req.kind = "unchanged" => file_fd
      /\ req.kind = "file" => FileAccounts
      /\ req.kind # "file" /\ ~file_fd => Len(wire) = body_sent
  BY DEF BodyTurn, SendInv, Places, Progress
<1>2. req.kind \in {"malformed", "page", "unchanged", "file"}
      /\ req.size \in Nat /\ (req.kind \in {"malformed", "page"} => req.size > 0)
  BY <1>1, RequestParts
<1>3. FromPage => req.kind \in {"malformed", "page"} /\ ~file_fd
  BY <1>1, <1>2 DEF FromPage, Answered, FileAccounts
<1>4. ~FromPage => file_fd
  BY <1>1, <1>2 DEF FromPage, Answered, FileAccounts
<1> QED
  BY <1>1, <1>2, <1>3, <1>4 DEF Answered

\* A piece of the body keeps the body in order if it starts where the client's
\* part ends and stays within the announced length; a stale one need not.
LEMMA PieceInOrder ==
  ASSUME SendInv, BodyTurn, NEW first \in Nat, NEW n \in Nat, Deliver(first, n),
         attempt # "stale" => first = Origin + Len(wire) /\ Len(wire) + n <= content_length,
         req' = req, content_length' = content_length, is_head' = is_head,
         attempt' = attempt
  PROVE  BodyInOrder' /\ Len(wire') = Len(wire) + n /\ wire' \in Seq(Nat)
<1>1. Origin \in Nat
  BY AtBody, OriginIsOffset DEF Origin, Span
<1>2. wire \in Seq(Nat)
  BY DEF SendInv, SendTypeOK
<1>3. Len(wire') = Len(wire) + n /\ wire' \in Seq(Nat)
  <2>1. Bytes(first, n) \in Seq(Nat) /\ Len(Bytes(first, n)) = n
    BY BytesSeq
  <2>2. /\ wire \o Bytes(first, n) \in Seq(Nat)
        /\ Len(wire \o Bytes(first, n)) = Len(wire) + Len(Bytes(first, n))
    BY <1>2, <2>1, ConcatProperties, Zenon
  <2> QED
    BY <2>1, <2>2 DEF Deliver
<1>4. ~is_head
  BY AtBody
<1>5. CASE attempt # "stale"
  <2>1. wire = Bytes(Origin, Len(wire))
    BY <1>5 DEF SendInv, BodyInOrder, BodyIsOfTheHeader
  <2>2. wire' = Bytes(Origin, Len(wire'))
    BY <1>1, <1>2, <1>5, <2>1, DeliverInOrder
  <2>3. Origin' = Origin
    BY DEF Origin, Span
  <2> QED
    BY <1>3, <1>4, <1>5, <2>2, <2>3 DEF BodyInOrder, BodyIsOfTheHeader
<1>6. CASE attempt = "stale"
  BY <1>3, <1>4, <1>6 DEF BodyInOrder
<1> QED
  BY <1>5, <1>6

\* A page.
LEMMA SendPageKeepsInv ==
  ASSUME SendInv, SendPage
  PROVE  SendInv'
<1>1. PICK n \in 0 .. body_size - body_sent :
        /\ body_sent' = body_sent + n
        /\ Deliver(body_sent, n)
        /\ state' = IF body_sent + n = body_size THEN "KEEP_ALIVE" ELSE state
  BY DEF SendPage
<1>2. /\ BodyTurn /\ FromPage /\ pc' = "rest"
      /\ ssl' = ssl /\ req' = req /\ keep_alive' = keep_alive
      /\ content_length' = content_length /\ body_size' = body_size /\ is_head' = is_head
      /\ attempt' = attempt /\ restarts' = restarts
      /\ header_sent' = header_sent
      /\ file_fd' = file_fd /\ open_files' = open_files
      /\ send_offset' = send_offset /\ send_remaining' = send_remaining
      /\ chunk_used' = chunk_used /\ chunk_sent' = chunk_sent
      /\ file_end' = file_end /\ header_wire' = header_wire
  BY DEF SendPage, respVars, fileVars, chunkVars
<1>3. /\ state = "SENDING_BODY" /\ req \in Requests /\ Answered /\ ~is_head /\ ChunkFits
      /\ req.kind \in {"malformed", "page"}
      /\ Len(wire) = body_sent /\ content_length = body_size
  BY <1>2, AtBody, Zenon
<1>4. body_size \in Nat /\ body_sent \in 0 .. body_size
  BY DEF SendInv, SendTypeOK
<1>5. n \in Nat /\ body_sent \in Nat /\ body_sent + n \in 0 .. body_size
  BY <1>1, <1>4
<1>6. Origin = 0
  BY <1>3 DEF Origin
<1>7. BodyInOrder' /\ Len(wire') = Len(wire) + n /\ wire' \in Seq(Nat)
  <2>1. body_sent = Origin + Len(wire) /\ Len(wire) + n <= content_length
    BY <1>3, <1>4, <1>5, <1>6
  <2> QED
    BY <1>1, <1>2, <1>5, <2>1, PieceInOrder
<1>8. state' \in {"SENDING_BODY", "KEEP_ALIVE"}
  BY <1>1, <1>3
<1>9. SendTypeOK'
  BY <1>1, <1>2, <1>5, <1>7, <1>8 DEF SendInv, SendTypeOK
<1>10. Places'
  BY <1>2, <1>3, <1>8 DEF SendInv, Places
<1>11. Progress'
  BY <1>1, <1>2, <1>3, <1>7, <1>8 DEF Progress, Answered, ChunkFits
<1> QED
  BY <1>7, <1>9, <1>10, <1>11 DEF SendInv

\* What remains of a file is never negative, and a read stays within it.
LEMMA FileNumbers ==
  ASSUME SendInv, NEW k \in Nat
  PROVE  /\ send_offset \in Nat /\ send_remaining \in Nat /\ file_end \in Nat
         /\ InFile(k) \in Nat /\ InFile(k) <= k
<1>1. send_offset \in Nat /\ send_remaining \in Nat /\ file_end \in Nat
  BY DEF SendInv, SendTypeOK
<1> QED
  BY <1>1 DEF InFile, Least

\* The end of a file: the connection waits for the next request.
LEMMA FileDoneKeepsInv ==
  ASSUME SendInv, FileDone
  PROVE  SendInv'
<1>1. /\ state' = "KEEP_ALIVE" /\ pc' = "rest" /\ CloseFile /\ BodyTurn
      /\ ssl' = ssl /\ req' = req /\ keep_alive' = keep_alive
      /\ content_length' = content_length /\ body_size' = body_size /\ is_head' = is_head
      /\ attempt' = attempt /\ restarts' = restarts
      /\ header_sent' = header_sent /\ body_sent' = body_sent
      /\ send_offset' = send_offset /\ send_remaining' = send_remaining
      /\ chunk_used' = chunk_used /\ chunk_sent' = chunk_sent
      /\ file_end' = file_end /\ header_wire' = header_wire /\ wire' = wire
  BY DEF FileDone, respVars, chunkVars, wireVars
<1>2. open_files' \in Nat /\ file_fd' = FALSE
  BY <1>1, CloseFileAccounts
<1>3. SendTypeOK'
  BY <1>1, <1>2 DEF SendInv, SendTypeOK
<1>4. BodyInOrder'
  BY <1>1, SameBody DEF SendInv
<1>5. Places' /\ Progress'
  BY <1>1, <1>2 DEF Places, Progress
<1> QED
  BY <1>3, <1>4, <1>5 DEF SendInv

\* A piece that is through moves the offset, not the end.
LEMMA EndStays ==
  ASSUME NEW offset \in Nat, NEW rest \in Nat, NEW last \in Int,
         offset + rest = last + 1, NEW used \in Nat
  PROVE  (offset + used) + (rest - used) = last + 1
OBVIOUS

\* What was sent of a chunk is counted from the first byte of the span.
LEMMA ChunkCounted ==
  ASSUME NEW offset \in Nat, NEW first \in Nat, NEW n \in Nat
  PROVE  offset - first + n = (offset + n) - first
OBVIOUS

\* A piece that is still due stays within what was announced.
LEMMA StillDue ==
  ASSUME NEW offset \in Nat, NEW rest \in Nat, NEW first \in Nat, NEW last \in Int,
         offset + rest = last + 1, NEW sent \in Nat, NEW n \in Nat, sent + n <= rest
  PROVE  offset - first + sent + n <= last - first + 1
OBVIOUS

\* do_send_body_plain: the offset and what remains move together.
LEMMA SendFileKeepsInv ==
  ASSUME SendInv, SendFileAll \/ SendFilePart
  PROVE  SendInv'
<1>1. /\ BodyTurn /\ ~FromPage /\ ~ssl /\ pc' = "rest"
      /\ ssl' = ssl /\ req' = req /\ keep_alive' = keep_alive
      /\ content_length' = content_length /\ body_size' = body_size /\ is_head' = is_head
      /\ attempt' = attempt /\ restarts' = restarts
      /\ header_sent' = header_sent /\ body_sent' = body_sent
      /\ chunk_used' = chunk_used /\ chunk_sent' = chunk_sent
      /\ file_end' = file_end /\ header_wire' = header_wire
  BY DEF SendFileAll, SendFilePart, respVars, chunkVars
<1>2. /\ state = "SENDING_BODY" /\ req \in Requests /\ ~is_head /\ file_fd /\ Answered
      /\ req.kind = "file" => FileAccounts
      /\ attempt # "stale" => req.kind = "file"
  BY <1>1, AtBody
<1>3. /\ send_offset \in Nat /\ send_remaining \in Nat
      /\ Span.first \in Nat /\ Span.last \in Int
      /\ InFile(send_remaining) \in Nat /\ InFile(send_remaining) <= send_remaining
  BY <1>2, FileNumbers, RequestUnderWay
<1>4. req.kind = "file" =>
      /\ Len(wire) = send_offset - Span.first
      /\ send_offset >= Span.first
      /\ send_offset + send_remaining = Span.last + 1
      /\ content_length = Span.last - Span.first + 1
  BY <1>1, <1>2 DEF FileAccounts, Answered
<1>5. req.kind = "file" => Origin = Span.first
  BY DEF Origin
<1>6. ASSUME NEW n \in Nat, n <= send_remaining, req.kind = "file"
      PROVE  send_offset = Origin + Len(wire) /\ Len(wire) + n <= content_length
  <2>1. send_offset = Origin + Len(wire)
    BY <1>3, <1>4, <1>5, <1>6
  <2>2. send_offset - Span.first + 0 + n <= Span.last - Span.first + 1
    <3>1. send_offset + send_remaining = Span.last + 1 /\ 0 \in Nat /\ 0 + n <= send_remaining
      BY <1>4, <1>6
    <3> QED
      BY <1>3, <3>1, StillDue
  <2> QED
    BY <1>3, <1>4, <1>6, <2>1, <2>2
<1>7. CASE SendFileAll
  <2>1. /\ Deliver(send_offset, InFile(send_remaining)) /\ CloseFile
        /\ send_remaining' = 0 /\ send_offset' = send_offset /\ state' = "KEEP_ALIVE"
    BY <1>7 DEF SendFileAll
  <2>2. BodyInOrder' /\ wire' \in Seq(Nat)
    <3>1. attempt # "stale" => /\ send_offset = Origin + Len(wire)
                               /\ Len(wire) + InFile(send_remaining) <= content_length
      BY <1>2, <1>3, <1>6
    <3> QED
      BY <1>1, <1>3, <2>1, <3>1, PieceInOrder
  <2>3. open_files' \in Nat /\ file_fd' = FALSE
    BY <2>1, CloseFileAccounts
  <2>4. SendTypeOK'
    BY <1>1, <1>3, <2>1, <2>2, <2>3 DEF SendInv, SendTypeOK
  <2>5. Places' /\ Progress'
    BY <1>1, <2>1, <2>3 DEF Places, Progress
  <2> QED
    BY <2>2, <2>4, <2>5 DEF SendInv
<1>8. CASE SendFilePart
  <2>1. PICK n \in 0 .. InFile(send_remaining) :
          /\ Deliver(send_offset, n)
          /\ send_offset' = send_offset + n
          /\ send_remaining' = send_remaining - n
    BY <1>8 DEF SendFilePart
  <2>2. state' = state /\ file_fd' = file_fd /\ open_files' = open_files
    BY <1>8 DEF SendFilePart
  <2>3. n \in Nat /\ n <= send_remaining
    BY <1>3
  <2>4. BodyInOrder' /\ Len(wire') = Len(wire) + n /\ wire' \in Seq(Nat)
    <3>1. attempt # "stale" => /\ send_offset = Origin + Len(wire)
                               /\ Len(wire) + n <= content_length
      BY <1>2, <1>6, <2>3
    <3> QED
      BY <1>1, <1>3, <2>1, <2>3, <3>1, PieceInOrder
  <2>5. SendTypeOK'
    BY <1>1, <1>3, <2>1, <2>2, <2>3, <2>4 DEF SendInv, SendTypeOK
  <2>6. Places'
    BY <1>1, <1>2, <2>2 DEF SendInv, Places
  <2>7. ASSUME req.kind = "file" PROVE FileAccounts'
    <3>1. Span' = Span
      BY <1>1 DEF Span
    <3>2. (send_offset + n) + (send_remaining - n) = Span.last + 1
      BY <1>3, <1>4, <2>3, <2>7, EndStays
    <3>3. send_offset + n >= Span.first
      BY <1>3, <1>4, <2>3, <2>7
    <3>4. Len(wire') = (send_offset + n) - Span.first
      <4>1. (send_offset - Span.first) + n = (send_offset + n) - Span.first
        BY <1>3, <2>3, ChunkCounted
      <4> QED
        BY <1>4, <2>4, <2>7, <4>1
    <3> QED
      BY <1>1, <1>2, <2>1, <2>2, <3>1, <3>2, <3>3, <3>4 DEF FileAccounts
  <2>8. Progress'
    BY <1>1, <1>2, <2>2, <2>7 DEF Progress, Answered, ChunkFits, Span
  <2> QED
    BY <2>4, <2>5, <2>6, <2>8 DEF SendInv
<1> QED
  BY <1>7, <1>8

\* do_send_body_tls: the bytes of a chunk are out before the offset counts them.
LEMMA SendChunkKeepsInv ==
  ASSUME SendInv, SendChunk
  PROVE  SendInv'
<1> DEFINE used == IF NeedChunk THEN Loaded ELSE chunk_used
           sent == IF NeedChunk THEN 0 ELSE chunk_sent
<1>1. PICK n \in 0 .. used - sent :
        /\ Deliver(send_offset + sent, n)
        /\ chunk_used' = used /\ chunk_sent' = sent + n
        /\ send_offset' = IF sent + n = used THEN send_offset + used ELSE send_offset
        /\ send_remaining' = IF sent + n = used THEN send_remaining - used ELSE send_remaining
  BY DEF SendChunk
<1>2. /\ BodyTurn /\ ~FromPage /\ ssl /\ pc' = "rest"
      /\ state' = state /\ file_fd' = file_fd /\ open_files' = open_files
      /\ ssl' = ssl /\ req' = req /\ keep_alive' = keep_alive
      /\ content_length' = content_length /\ body_size' = body_size /\ is_head' = is_head
      /\ attempt' = attempt /\ restarts' = restarts
      /\ header_sent' = header_sent /\ body_sent' = body_sent
      /\ file_end' = file_end /\ header_wire' = header_wire
      /\ NeedChunk => send_remaining > 0 /\ Loaded > 0
  BY DEF SendChunk, respVars
<1>3. /\ state = "SENDING_BODY" /\ req \in Requests /\ ~is_head /\ file_fd /\ Answered
      /\ ChunkFits
      /\ req.kind = "file" => FileAccounts
      /\ attempt # "stale" => req.kind = "file"
  BY <1>2, AtBody
<1>4. /\ send_offset \in Nat /\ send_remaining \in Nat
      /\ Span.first \in Nat /\ Span.last \in Int
  BY <1>3, FileNumbers, RequestUnderWay
<1>5. Loaded \in Nat /\ Loaded <= send_remaining /\ Loaded <= CHUNK_SIZE /\ CHUNK_SIZE \in Nat
  <2>1. CHUNK_SIZE \in Nat
    BY SendAssumption DEF SendAssumption
  <2>2. /\ Least(send_remaining, CHUNK_SIZE) \in Nat
        /\ Least(send_remaining, CHUNK_SIZE) <= send_remaining
        /\ Least(send_remaining, CHUNK_SIZE) <= CHUNK_SIZE
    BY <1>4, <2>1 DEF Least
  <2>3. Loaded \in Nat /\ Loaded <= Least(send_remaining, CHUNK_SIZE)
    BY <2>2, FileNumbers DEF Loaded
  <2> QED
    BY <1>4, <2>1, <2>2, <2>3
<1>6. chunk_used \in 0 .. CHUNK_SIZE /\ chunk_sent \in 0 .. chunk_used
  BY DEF SendInv, SendTypeOK
<1>7. /\ used <= send_remaining
      /\ req.kind = "file" =>
           /\ send_offset >= Span.first
           /\ send_offset + send_remaining = Span.last + 1
           /\ content_length = Span.last - Span.first + 1
           /\ Len(wire) = send_offset - Span.first + sent
  <2>1. CASE NeedChunk
    BY <1>2, <1>3, <1>5, <1>6, <2>1 DEF NeedChunk, FileAccounts, Answered
  <2>2. CASE ~NeedChunk
    BY <1>2, <1>3, <1>5, <1>6, <2>2 DEF NeedChunk, ChunkFits, FileAccounts, Answered
  <2> QED
    BY <2>1, <2>2
<1>8. used \in 0 .. CHUNK_SIZE /\ sent \in 0 .. used
  BY <1>5, <1>6
<1>9. n \in Nat /\ sent + n \in 0 .. used
  BY <1>8
<1>10. req.kind = "file" => Origin = Span.first
  BY DEF Origin
<1> HIDE DEF used, sent
<1>11. BodyInOrder' /\ Len(wire') = Len(wire) + n /\ wire' \in Seq(Nat)
  <2>1. used \in Nat /\ sent \in Nat /\ sent + n <= used
    BY <1>5, <1>8, <1>9
  <2>2. ASSUME attempt # "stale"
        PROVE  send_offset + sent = Origin + Len(wire) /\ Len(wire) + n <= content_length
    <3>1. req.kind = "file"
      BY <1>3, <2>2
    <3>2. sent + n <= send_remaining
      BY <1>4, <1>7, <1>9, <2>1
    <3>3. send_offset - Span.first + sent + n <= Span.last - Span.first + 1
      BY <1>4, <1>7, <1>9, <2>1, <3>1, <3>2, StillDue
    <3>4. Len(wire) = send_offset - Span.first + sent /\ Origin = Span.first
          /\ content_length = Span.last - Span.first + 1
      BY <1>7, <1>10, <3>1
    <3>5. send_offset + sent = Span.first + (send_offset - Span.first + sent)
      BY <1>4, <2>1
    <3> QED
      BY <3>3, <3>4, <3>5
  <2>3. send_offset + sent \in Nat
    BY <1>4, <2>1
  <2> QED
    BY <1>1, <1>2, <1>9, <2>2, <2>3, PieceInOrder
<1>12. /\ send_offset' \in Nat /\ send_remaining' \in Nat
       /\ chunk_used' \in 0 .. CHUNK_SIZE /\ chunk_sent' \in 0 .. chunk_used'
  BY <1>1, <1>4, <1>7, <1>8, <1>9
<1>13. SendTypeOK'
  BY <1>2, <1>11, <1>12 DEF SendInv, SendTypeOK
<1>14. Places'
  BY <1>2, <1>3 DEF SendInv, Places
<1>15. ASSUME req.kind = "file" PROVE FileAccounts'
  <2>1. Span' = Span
    BY <1>2 DEF Span
  <2>2. /\ used \in Nat /\ sent \in Nat /\ n \in Nat /\ sent + n <= used
        /\ Len(wire) = send_offset - Span.first + sent
        /\ Len(wire') = send_offset - Span.first + (sent + n)
    BY <1>4, <1>7, <1>8, <1>9, <1>11, <1>15
  <2>3. file_fd' /\ ssl'
    BY <1>2, <1>3
  <2>4. CASE sent + n = used
    <3>1. /\ send_offset' = send_offset + used /\ send_remaining' = send_remaining - used
          /\ ~(chunk_sent' < chunk_used')
      BY <1>1, <2>2, <2>4
    <3>2. /\ send_offset' >= Span.first
          /\ send_offset' + send_remaining' = Span.last + 1
          /\ Len(wire') = send_offset' - Span.first
      <4>1. send_offset + used >= Span.first
        BY <1>4, <1>7, <1>15, <2>2
      <4>2. (send_offset + used) + (send_remaining - used) = Span.last + 1
        BY <1>4, <1>7, <1>15, <2>2, EndStays
      <4>3. send_offset - Span.first + (sent + n) = (send_offset + used) - Span.first
        <5>1. send_offset \in Nat /\ Span.first \in Nat
          BY <1>4
        <5>2. (send_offset - Span.first) + used = (send_offset + used) - Span.first
          BY <2>2, <5>1, ChunkCounted
        <5> QED
          BY <2>4, <5>2
      <4> QED
        BY <2>2, <3>1, <4>1, <4>2, <4>3
    <3> QED
      BY <2>1, <2>3, <3>1, <3>2 DEF FileAccounts
  <2>5. CASE sent + n # used
    <3>1. /\ send_offset' = send_offset /\ send_remaining' = send_remaining
          /\ chunk_sent' = sent + n /\ chunk_used' = used
          /\ chunk_sent' < chunk_used'
      BY <1>1, <2>2, <2>5
    <3>2. /\ send_offset' >= Span.first
          /\ send_offset' + send_remaining' = Span.last + 1
          /\ Len(wire') = send_offset' - Span.first + chunk_sent'
          /\ chunk_used' <= send_remaining'
      BY <1>7, <1>15, <2>2, <3>1
    <3> QED
      BY <2>1, <2>3, <3>1, <3>2 DEF FileAccounts
  <2> QED
    BY <2>4, <2>5
<1>16. ChunkFits'
  BY <1>1, <1>4, <1>7, <1>8, <1>9 DEF ChunkFits
<1>17. Progress'
  BY <1>2, <1>3, <1>15, <1>16 DEF Progress, Answered, Span
<1> QED
  BY <1>11, <1>13, <1>14, <1>17 DEF SendInv

--------------------------------------------------------------------------------
\* The invariant holds in every reachable state.
THEOREM SendInvariance == Spec => []SendInv
<1>1. Init => SendInv
  BY InitEstablishes
<1>2. SendInv /\ [Next]_vars => SendInv'
  <2> SUFFICES ASSUME SendInv, [Next]_vars PROVE SendInv'
    OBVIOUS
  <2>1. CASE \E r \in Requests : ReceiveRequest(r) \/ RefuseRequest(r)
    BY <2>1, NewRequestKeepsInv
  <2>2. CASE ParseAgain \/ FileShrinks
    BY <2>2, ParseAgainKeepsInv, ShrinkKeepsInv
  <2>3. CASE PreparePage \/ PrepareNotModified \/ PrepareFile
    BY <2>3, PrepareKeepsInv
  <2>4. CASE SendHeadersPart \/ SendHeadersOnly \/ SendHeadersThenBody
    BY <2>4, HeadersKeepInv
  <2>5. CASE SendPage
    BY <2>5, SendPageKeepsInv
  <2>6. CASE FileDone
    BY <2>6, FileDoneKeepsInv
  <2>7. CASE SendFileAll \/ SendFilePart
    BY <2>7, SendFileKeepsInv
  <2>8. CASE ChunkMissing \/ ConnectionLost
    BY <2>8, CloseKeepsInv DEF ChunkMissing, ConnectionLost
  <2>9. CASE SendChunk
    BY <2>9, SendChunkKeepsInv
  <2>10. CASE Reopen
    BY <2>10, ReopenKeepsInv
  <2>11. CASE UNCHANGED vars
    BY <2>11 DEF vars, respVars, fileVars, chunkVars, wireVars, SendInv, SendTypeOK,
                 BodyInOrder, BodyIsOfTheHeader, Origin, Span, Places, Progress, Untouched,
                 Answered, FileAccounts, ChunkFits
  <2>12. CASE ReceivePart
    BY <2>12, PartKeepsInv
  <2> QED
    BY <2>1, <2>2, <2>3, <2>4, <2>5, <2>6, <2>7, <2>8, <2>9, <2>10, <2>11, <2>12 DEF Next
<1> QED
  BY <1>1, <1>2, PTL DEF Spec

\* Counters keep their ranges: no offset or rest of a file becomes negative, no
\* chunk is sent beyond its end.
THEOREM SendTypeCorrect == Spec => []SendTypeOK
BY SendInvariance, PTL DEF SendInv

\* do_send_body delivers the announced part of the page or file in order, for
\* every size and every partial write, on plain sockets and on TLS.
THEOREM BodyAlwaysInOrder == Spec => []BodyInOrder
BY SendInvariance, PTL DEF SendInv

--------------------------------------------------------------------------------
\* A new start of an answer is counted before it may lose a file; the first
\* answer to a request finds no file open and no byte of a header sent.
Accounts ==
  /\ FilesAccountedFor /\ HeaderSentOnce
  /\ pc = "prepare" => open_files <= restarts
  /\ pc = "prepare" /\ attempt = "first" => header_sent = 0 /\ header_wire = 0
  /\ state = "CLOSED" => ~file_fd

\* Closing a file that may be open.
LEMMA CloseFileKeepsCount ==
  ASSUME SendInv, FilesAccountedFor, CloseFile, restarts' = restarts
  PROVE  FilesAccountedFor' /\ file_fd' = FALSE /\ open_files' <= restarts'
<1>1. file_fd \in BOOLEAN /\ open_files \in Nat /\ restarts \in Nat
  BY SendAssumption DEF SendInv, SendTypeOK, SendAssumption
<1> QED
  BY <1>1 DEF CloseFile, FilesAccountedFor

LEMMA StepsKeepAccounts ==
  ASSUME SendInv, Accounts, Next
  PROVE  Accounts'
<1>1. restarts \in Nat /\ open_files \in Nat /\ file_fd \in BOOLEAN
  BY SendAssumption DEF SendInv, SendTypeOK, SendAssumption
<1>2. ASSUME NEW r \in Requests, ReceiveRequest(r) \/ RefuseRequest(r)
      PROVE  Accounts'
  <2>1. ResetIfKeptAlive /\ header_sent' = 0 /\ header_wire' = 0 /\ restarts' = restarts
        /\ state \in {"READING", "KEEP_ALIVE"}
        /\ \/ state' = "PARSING" /\ pc' = "prepare"
           \/ state' = "SENDING_HEADERS" /\ pc' = "rest"
    BY <1>2 DEF ReceiveRequest, RefuseRequest
  <2>2. FilesAccountedFor' /\ file_fd' = FALSE /\ open_files' <= restarts'
    <3>1. CASE state = "KEEP_ALIVE"
      <4>1. CloseFile
        BY <2>1, <3>1 DEF ResetIfKeptAlive, Reset
      <4> QED
        BY <2>1, <4>1, CloseFileKeepsCount DEF Accounts
    <3>2. CASE state = "READING"
      BY <1>1, <2>1, <3>2 DEF ResetIfKeptAlive, fileVars, Accounts, FilesAccountedFor,
                              SendInv, SendTypeOK, Places
    <3> QED
      BY <2>1, <3>1, <3>2
  <2> QED
    BY <2>1, <2>2 DEF Accounts, HeaderSentOnce
<1>3. CASE ParseAgain
  <2>1. /\ restarts' = restarts + 1 /\ attempt' = "again" /\ state' = state
        /\ state = "PARSING" /\ open_files' = open_files /\ file_fd' = file_fd
    BY <1>3 DEF ParseAgain, fileVars
  <2>2. open_files <= 1 + restarts
    BY <1>1 DEF Accounts, FilesAccountedFor
  <2> QED
    BY <1>1, <2>1, <2>2 DEF Accounts, FilesAccountedFor, HeaderSentOnce
<1>4. CASE PreparePage \/ PrepareNotModified
  <2>1. /\ pc = "prepare" /\ pc' = "headers" /\ header_sent' = 0 /\ header_wire' = header_wire
        /\ open_files' = open_files /\ file_fd' = file_fd /\ restarts' = restarts
        /\ state' = state /\ state = "PARSING" /\ attempt' \in {attempt, "stale"}
    BY <1>4 DEF PreparePage, PrepareNotModified, Prepare, fileVars, wireVars, SendInv, Places
  <2> QED
    BY <2>1 DEF Accounts, FilesAccountedFor, HeaderSentOnce
<1>5. CASE PrepareFile
  <2>1. /\ pc = "prepare" /\ pc' = "headers" /\ header_sent' = 0 /\ header_wire' = header_wire
        /\ open_files' = open_files + 1 /\ file_fd' = TRUE /\ restarts' = restarts
        /\ state' = "PARSING" /\ attempt' = attempt
    BY <1>5 DEF PrepareFile, Prepare, wireVars, SendInv, Places
  <2> QED
    BY <1>1, <2>1 DEF Accounts, FilesAccountedFor, HeaderSentOnce
<1>6. CASE SendHeadersPart \/ SendHeadersOnly \/ SendHeadersThenBody
  <2>1. \E n \in Int : WriteHeader(n)
    BY <1>6, SendAssumption DEF SendHeadersPart, SendHeadersOnly, SendHeadersThenBody,
                                SendAssumption, SendInv, SendTypeOK
  <2>2. /\ attempt' = attempt /\ (attempt = "first" => header_sent' = header_wire')
        /\ file_fd' = file_fd /\ open_files' = open_files /\ restarts' = restarts
    BY <2>1 DEF WriteHeader, fileVars, respVars, Accounts, HeaderSentOnce
  <2>3. state' # "CLOSED" /\ pc' # "prepare"
    BY <1>6 DEF SendHeadersPart, SendHeadersOnly, SendHeadersThenBody, HeaderTurn, SendInv,
                Places
  <2> QED
    BY <2>2, <2>3 DEF Accounts, FilesAccountedFor, HeaderSentOnce
<1>7. CASE SendPage \/ SendFilePart \/ SendChunk
  <2>1. /\ file_fd' = file_fd /\ open_files' = open_files /\ pc' = "rest"
        /\ header_sent' = header_sent /\ header_wire' = header_wire
        /\ attempt' = attempt /\ restarts' = restarts
        /\ state' \in {state, "KEEP_ALIVE"}
    BY <1>7 DEF SendPage, SendFilePart, SendChunk, fileVars, respVars
  <2> QED
    BY <2>1 DEF Accounts, FilesAccountedFor, HeaderSentOnce
<1>8. CASE FileDone \/ SendFileAll \/ ChunkMissing \/ ConnectionLost
  <2>1. /\ CloseFile /\ state' \in {"KEEP_ALIVE", "CLOSED"} /\ pc' = "rest"
        /\ header_sent' = header_sent /\ header_wire' = header_wire
        /\ attempt' = attempt /\ restarts' = restarts
    BY <1>8 DEF FileDone, SendFileAll, ChunkMissing, ConnectionLost, Close, wireVars, respVars
  <2>2. FilesAccountedFor' /\ file_fd' = FALSE
    BY <2>1, CloseFileKeepsCount DEF Accounts
  <2> QED
    BY <2>1, <2>2 DEF Accounts, HeaderSentOnce
<1>9. CASE FileShrinks
  BY <1>9 DEF FileShrinks, fileVars, wireVars, respVars, Accounts, FilesAccountedFor,
              HeaderSentOnce
<1>10. CASE Reopen
  <2>1. ~file_fd /\ file_fd' = FALSE /\ open_files' = open_files /\ restarts' = restarts
        /\ header_sent' = 0 /\ header_wire' = 0 /\ pc' = "rest" /\ state' = "READING"
    BY <1>10 DEF Reopen, Accounts
  <2> QED
    BY <2>1 DEF Accounts, FilesAccountedFor, HeaderSentOnce
<1>11. CASE ReceivePart
  <2>1. /\ CloseFile /\ state = "KEEP_ALIVE" /\ pc = "rest" /\ state' = state /\ pc' = pc
        /\ header_sent' = 0 /\ header_wire' = 0 /\ restarts' = restarts
    BY <1>11 DEF ReceivePart, Reset
  <2>2. FilesAccountedFor' /\ file_fd' = FALSE
    BY <2>1, CloseFileKeepsCount DEF Accounts
  <2> QED
    BY <2>1, <2>2 DEF Accounts, HeaderSentOnce
<1> QED
  BY <1>2, <1>3, <1>4, <1>5, <1>6, <1>7, <1>8, <1>9, <1>10, <1>11 DEF Next

LEMMA AlwaysAccounted == Spec => []Accounts
<1>1. Init => Accounts
  BY DEF Init, Accounts, FilesAccountedFor, HeaderSentOnce
<1>2. SendInv /\ Accounts /\ [Next]_vars => Accounts'
  <2>1. ASSUME Accounts, UNCHANGED vars PROVE Accounts'
    BY <2>1 DEF vars, fileVars, wireVars, respVars, Accounts, FilesAccountedFor, HeaderSentOnce
  <2> QED
    BY <2>1, StepsKeepAccounts
<1> QED
  BY <1>1, <1>2, SendInvariance, PTL DEF Spec

\* Every file that was opened is closed exactly once, on every path out of a
\* response, but for one at most each time that an answer was started again.
THEOREM FilesNeverLeak == Spec => []FilesAccountedFor
<1>1. Accounts => FilesAccountedFor
  BY DEF Accounts
<1> QED
  BY <1>1, AlwaysAccounted, PTL

\* No byte of the header of a first answer reaches the client twice.
THEOREM HeaderNeverRepeats == Spec => []HeaderSentOnce
<1>1. Accounts => HeaderSentOnce
  BY DEF Accounts
<1> QED
  BY <1>1, AlwaysAccounted, PTL

--------------------------------------------------------------------------------
\* The body follows a whole header.
HeaderOut == state = "SENDING_BODY" => header_sent = HEADER_SIZE

EndInv == HeaderOut /\ ShortOnlyBySendfile

\* Steps that end a response which met the file of another answer.
LEMMA StaleEnd ==
  ASSUME state' = "KEEP_ALIVE", attempt' = "stale"
  PROVE  EndInv'
BY DEF EndInv, HeaderOut, ShortOnlyBySendfile

\* Steps that leave the response alone, and do not end one.
LEMMA SameEnd ==
  ASSUME EndInv, UNCHANGED <<header_sent, req>>,
         state' \in {"KEEP_ALIVE", "SENDING_BODY"} => state' = state,
         state' = "KEEP_ALIVE" =>
           UNCHANGED <<wire, is_head, content_length, attempt, ssl, file_end>>
  PROVE  EndInv'
BY DEF EndInv, HeaderOut, ShortOnlyBySendfile, Complete

\* Steps that end a response with the whole of it sent.
LEMMA WholeEnd ==
  ASSUME state' # "SENDING_BODY", header_sent' = HEADER_SIZE,
         Len(wire') = IF is_head' THEN 0 ELSE content_length'
  PROVE  EndInv'
BY DEF EndInv, HeaderOut, ShortOnlyBySendfile, Complete

\* What is announced for a response without a body.
LEMMA NothingAnnounced ==
  ASSUME SendInv, HeaderTurn, NoBodyToSend
  PROVE  Len(wire) = IF is_head THEN 0 ELSE content_length
<1>1. state \in {"PARSING", "SENDING_HEADERS"} /\ (pc = "headers" \/ state = "SENDING_HEADERS")
  BY DEF HeaderTurn, SendInv, Places
<1>2. Untouched /\ Answered
  BY <1>1 DEF SendInv, Places, Progress
<1>3. Len(wire) = 0
  BY <1>2, EmptySeq DEF Untouched
<1>4. CASE ~is_head
  <2>1. body_size = 0 /\ ~file_fd
    BY <1>4 DEF NoBodyToSend
  <2>2. req \in Requests
    BY <1>1 DEF SendInv, Places
  <2>3. req.kind \in {"malformed", "page", "unchanged", "file"}
        /\ (req.kind \in {"malformed", "page"} => req.size > 0 /\ req.size \in Nat)
    BY <2>2, RequestParts
  <2>4. req.kind \notin {"malformed", "page"}
    BY <1>2, <2>1, <2>3 DEF Answered
  <2>5. req.kind # "file"
    <3>1. req.kind = "file" => pc = "headers"
      BY <1>1 DEF SendInv, Places
    <3> QED
      BY <2>1, <3>1 DEF SendInv, Progress, FileAccounts
  <2> QED
    BY <1>2, <1>3, <1>4, <2>3, <2>4, <2>5 DEF Answered
<1> QED
  BY <1>3, <1>4

\* What went and what remains of a span make up the span.
LEMMA RestOfSpan ==
  ASSUME NEW offset \in Nat, NEW remaining \in Nat, NEW first \in Nat, NEW last \in Int,
         offset + remaining = last + 1
  PROVE  offset - first + remaining = last - first + 1
OBVIOUS

\* sendfile says that it is through: then the client has everything, or the file
\* ended before the range did.
LEMMA SendFileAllEnds ==
  ASSUME SendInv, EndInv, SendFileAll
  PROVE  EndInv'
<1>1. /\ BodyTurn /\ ~FromPage /\ ~ssl /\ state' = "KEEP_ALIVE"
      /\ Deliver(send_offset, InFile(send_remaining))
      /\ UNCHANGED <<ssl, req, content_length, is_head, attempt, file_end, header_sent>>
  BY DEF SendFileAll, respVars
<1> SUFFICES ASSUME req.kind = "file" PROVE EndInv'
  BY <1>1, AtBody, StaleEnd
<1>2. /\ state = "SENDING_BODY" /\ ~is_head /\ req.kind = "file" /\ FileAccounts /\ Answered
  BY <1>1, AtBody
<1>3. /\ send_offset \in Nat /\ send_remaining \in Nat /\ file_end \in Nat
      /\ InFile(send_remaining) \in Nat /\ InFile(send_remaining) <= send_remaining
      /\ Span.first \in Nat /\ Span.last \in Int /\ Span.last < req.size /\ req.size \in Nat
  BY <1>2, FileNumbers, RequestUnderWay
<1>4. /\ Len(wire) = send_offset - Span.first
      /\ send_offset + send_remaining = Span.last + 1
      /\ content_length = Span.last - Span.first + 1
  BY <1>1, <1>2 DEF FileAccounts, Answered
<1>5. header_sent' = HEADER_SIZE
  BY <1>1, <1>2 DEF EndInv, HeaderOut
<1>6. CASE InFile(send_remaining) = send_remaining
  <2>1. Origin = Span.first
    BY <1>2 DEF Origin
  <2>2. send_offset = Origin + Len(wire) /\ Len(wire) + send_remaining = content_length
    <3>1. send_offset = Origin + Len(wire)
      BY <1>3, <1>4, <2>1
    <3>2. Len(wire) + send_remaining = content_length
      <4>1. send_offset - Span.first + send_remaining = Span.last - Span.first + 1
        <5>1. send_offset \in Nat /\ send_remaining \in Nat /\ Span.first \in Nat
              /\ Span.last \in Int /\ send_offset + send_remaining = Span.last + 1
          BY <1>3, <1>4
        <5> QED
          BY <5>1, RestOfSpan
      <4> QED
        BY <1>4, <4>1
    <3> QED
      BY <3>1, <3>2
  <2>3. Len(wire) + send_remaining <= content_length
    BY <1>3, <1>4, <2>2
  <2>4. Len(wire') = Len(wire) + send_remaining
    BY <1>1, <1>3, <1>6, <2>2, <2>3, PieceInOrder
  <2> QED
    BY <1>1, <1>2, <1>5, <2>2, <2>4, WholeEnd
<1>7. CASE InFile(send_remaining) # send_remaining
  <2>1. file_end < send_offset + send_remaining
    BY <1>3, <1>7 DEF InFile, Least
  <2>2. file_end < req.size
    BY <1>3, <1>4, <2>1
  <2> QED
    BY <1>1, <1>2, <2>2 DEF EndInv, HeaderOut, ShortOnlyBySendfile
<1> QED
  BY <1>6, <1>7

LEMMA StepsEnd ==
  ASSUME SendInv, EndInv, Next
  PROVE  EndInv'
<1>1. ASSUME NEW r \in Requests, ReceiveRequest(r) \/ RefuseRequest(r) PROVE EndInv'
  BY <1>1 DEF ReceiveRequest, RefuseRequest, EndInv, HeaderOut, ShortOnlyBySendfile
<1>2. CASE ReceivePart
  BY <1>2 DEF ReceivePart, EndInv, HeaderOut, ShortOnlyBySendfile, Complete
<1>3. CASE ParseAgain
  BY <1>3 DEF ParseAgain, EndInv, HeaderOut, ShortOnlyBySendfile
<1>4. CASE PreparePage \/ PrepareNotModified \/ PrepareFile
  <2>1. state' = "PARSING"
    BY <1>4 DEF PreparePage, PrepareNotModified, PrepareFile, Prepare, SendInv, Places
  <2> QED
    BY <2>1 DEF EndInv, HeaderOut, ShortOnlyBySendfile
<1>5. CASE SendHeadersPart
  <2>1. state' \in {"PARSING", "SENDING_HEADERS"}
    BY <1>5 DEF SendHeadersPart, HeaderTurn, SendInv, Places
  <2> QED
    BY <2>1 DEF EndInv, HeaderOut, ShortOnlyBySendfile
<1>6. CASE SendHeadersOnly \/ SendHeadersThenBody
  <2>1. HeaderTurn /\ header_sent' = header_sent + (HEADER_SIZE - header_sent)
        /\ UNCHANGED <<req, is_head, content_length, wire>>
    BY <1>6 DEF SendHeadersOnly, SendHeadersThenBody, WriteHeader, respVars
  <2>2. header_sent' = HEADER_SIZE
    <3>1. header_sent \in Nat /\ HEADER_SIZE \in Nat
      BY SendAssumption DEF SendAssumption, SendInv, SendTypeOK
    <3> QED
      BY <2>1, <3>1
  <2>3. CASE SendHeadersOnly
    BY <2>1, <2>2, <2>3, NothingAnnounced, WholeEnd DEF SendHeadersOnly
  <2>4. CASE SendHeadersThenBody
    BY <2>2, <2>4 DEF SendHeadersThenBody, EndInv, HeaderOut, ShortOnlyBySendfile
  <2> QED
    BY <1>6, <2>3, <2>4
<1>7. CASE SendPage
  <2>1. BodyTurn /\ FromPage /\ UNCHANGED <<req, is_head, content_length, attempt, header_sent>>
    BY <1>7 DEF SendPage, respVars
  <2>2. PICK n \in 0 .. body_size - body_sent :
          /\ Deliver(body_sent, n)
          /\ state' = IF body_sent + n = body_size THEN "KEEP_ALIVE" ELSE state
    BY <1>7 DEF SendPage
  <2>3. /\ state = "SENDING_BODY" /\ ~is_head /\ req.kind # "file"
        /\ Len(wire) = body_sent /\ content_length = body_size
    BY <2>1, AtBody
  <2>4. body_sent \in Nat /\ body_size \in Nat /\ n \in Nat /\ body_sent + n <= body_size
    BY DEF SendInv, SendTypeOK
  <2>5. header_sent' = HEADER_SIZE
    BY <2>1, <2>3 DEF EndInv, HeaderOut
  <2>6. CASE body_sent + n = body_size
    <3>1. body_sent = Origin + Len(wire) /\ Len(wire) + n <= content_length
      BY <2>3, <2>4 DEF Origin
    <3>2. Len(wire') = Len(wire) + n
      BY <2>1, <2>2, <2>4, <3>1, PieceInOrder
    <3> QED
      BY <2>1, <2>2, <2>3, <2>5, <2>6, <3>2, WholeEnd
  <2>7. CASE body_sent + n # body_size
    BY <2>2, <2>3, <2>5, <2>7 DEF EndInv, HeaderOut, ShortOnlyBySendfile
  <2> QED
    BY <2>6, <2>7
<1>8. CASE FileDone
  <2>1. /\ BodyTurn /\ ~FromPage /\ send_remaining <= 0 /\ (ssl => ~(chunk_sent < chunk_used))
        /\ state' = "KEEP_ALIVE"
        /\ UNCHANGED <<req, is_head, content_length, attempt, header_sent, wire>>
    <3>1. chunk_sent \in Nat /\ chunk_used \in Nat
      BY SendAssumption DEF SendInv, SendTypeOK
    <3> QED
      BY <1>8, <3>1 DEF FileDone, respVars, wireVars
  <2> SUFFICES ASSUME req.kind = "file" PROVE EndInv'
    BY <2>1, AtBody, StaleEnd
  <2>2. state = "SENDING_BODY" /\ ~is_head /\ req.kind = "file" /\ FileAccounts /\ Answered
    BY <2>1, AtBody
  <2>3. /\ Len(wire) = send_offset - Span.first
        /\ send_offset + send_remaining = Span.last + 1
        /\ content_length = Span.last - Span.first + 1
    BY <2>1, <2>2 DEF FileAccounts, Answered
  <2>4. send_offset \in Nat /\ send_remaining = 0 /\ Span.first \in Nat /\ Span.last \in Int
    BY <2>1, <2>2, RequestUnderWay DEF SendInv, SendTypeOK
  <2>5. Len(wire) = content_length
    BY <2>3, <2>4
  <2>6. header_sent' = HEADER_SIZE
    BY <2>1, <2>2 DEF EndInv, HeaderOut
  <2> QED
    BY <2>1, <2>2, <2>5, <2>6, WholeEnd
<1>9. CASE SendFileAll
  BY <1>9, SendFileAllEnds
<1>10. CASE SendFilePart \/ SendChunk
  <2>1. BodyTurn /\ state' = state /\ UNCHANGED <<header_sent, req>>
    BY <1>10 DEF SendFilePart, SendChunk
  <2>2. state = "SENDING_BODY"
    BY <2>1, AtBody
  <2> QED
    BY <2>1, <2>2, SameEnd
<1>11. CASE ChunkMissing \/ ConnectionLost
  BY <1>11 DEF ChunkMissing, ConnectionLost, Close, EndInv, HeaderOut, ShortOnlyBySendfile
<1>12. CASE FileShrinks
  <2>1. /\ file_fd /\ UNCHANGED <<state, ssl, req, is_head, content_length, attempt, header_sent, wire>>
        /\ file_end' < file_end /\ file_end' \in Nat
    BY <1>12 DEF FileShrinks, respVars, wireVars, SendInv, SendTypeOK
  <2>2. state = "KEEP_ALIVE" /\ attempt # "stale" /\ ~Complete => file_end' < req.size
    <3>1. ASSUME state = "KEEP_ALIVE", attempt # "stale", ~Complete
          PROVE  file_end' < req.size
      <4>1. file_end < req.size /\ req \in Requests \union {NoRequest} /\ req.kind = "file"
        BY <3>1 DEF EndInv, ShortOnlyBySendfile, SendInv, SendTypeOK
      <4>2. req \in Requests
        BY <4>1 DEF NoRequest
      <4>3. req.size \in Nat /\ file_end \in Nat
        BY <4>2, RequestParts DEF SendInv, SendTypeOK
      <4> QED
        BY <2>1, <4>1, <4>3
    <3> QED
      BY <3>1
  <2> QED
    BY <2>1, <2>2 DEF EndInv, HeaderOut, ShortOnlyBySendfile, Complete
<1>13. CASE Reopen
  BY <1>13 DEF Reopen, EndInv, HeaderOut, ShortOnlyBySendfile
<1> QED
  BY <1>1, <1>2, <1>3, <1>4, <1>5, <1>6, <1>7, <1>8, <1>9, <1>10, <1>11, <1>12, <1>13 DEF Next

\* A connection is kept with less sent than announced only after sendfile on a
\* file that has shrunk, or after a page or a 304 that met a file still open.
THEOREM EndsShortOnlyBySendfile == Spec => []ShortOnlyBySendfile
<1>1. Init => EndInv
  BY DEF Init, EndInv, HeaderOut, ShortOnlyBySendfile
<1>2. SendInv /\ EndInv /\ [Next]_vars => EndInv'
  <2>1. ASSUME EndInv, UNCHANGED vars PROVE EndInv'
    BY <2>1, SameEnd DEF vars, respVars, wireVars
  <2> QED
    BY <2>1, StepsEnd
<1>3. EndInv => ShortOnlyBySendfile
  BY DEF EndInv
<1> QED
  BY <1>1, <1>2, <1>3, SendInvariance, PTL DEF Spec
================================================================================
