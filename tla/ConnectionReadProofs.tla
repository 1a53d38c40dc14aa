-------------------------- MODULE ConnectionReadProofs ---------------------------
(* Proofs about ConnectionRead, for every size of reads, buffers and heads. A  *)
(* buffer that still waits is within the limit and has no blank line, so one   *)
(* read ends at most READ_SIZE beyond it; the client asks for one request at a *)
(* time, so the only blank line that can be found in a buffer that starts      *)
(* behind the last answer is the one of the request that is due, and then it   *)
(* is the last byte that was sent.                                             *)
EXTENDS ConnectionRead, TLAPS

Heads == [end : Nat, kind : Kinds]

\* Heads do not overlap, and each is longer than its blank line.
HeadsInOrder ==
  /\ heads \in Seq(Heads)
  /\ \A i \in 1 .. Len(heads) : heads[i].end > BLANK
  /\ \A i, j \in 1 .. Len(heads) : i < j => heads[i].end + BLANK < heads[j].end

\* The records in the socket lie between what OpenSSL took and what arrived; on
\* a plain connection nothing is held inside.
RecordsCover ==
  /\ records \in Seq(Nat)
  /\ ~tls => records = <<>> /\ inside = got
  /\ \A i \in 1 .. Len(records) : inside < records[i] /\ records[i] <= sent
  /\ \A i, j \in 1 .. Len(records) : i < j => records[i] < records[j]
  /\ tls => sent = IF records = <<>> THEN inside ELSE records[Len(records)]

\* One request at a time, and what was consumed for the answers so far.
OneAtATime ==
  /\ Len(heads) \in {replies, replies + 1}
  /\ state \in {"PROTO_DETECT", "READING"} => base = 0 /\ replies = 0 /\ parsed = <<>>
  /\ state = "PROTO_DETECT" => got = 0
  /\ state = "KEEP_ALIVE" =>
       /\ Start(replies + 1) <= got
       /\ ~split => got = Start(replies + 1) /\ Len(parsed) = replies
  /\ state = "SENDING" =>
       /\ Len(heads) = replies + 1 /\ got = Top
       /\ ~split => Len(parsed) = replies + 1

ReadShapes ==
  /\ {base, got, inside, sent, idle, unheard} \subseteq Nat
  /\ tls \in BOOLEAN /\ split \in BOOLEAN /\ eof \in BOOLEAN
  /\ parsed \in Seq(Nat \X Nat)
  /\ idle <= unheard

ReadInv ==
  /\ ReadTypeOK /\ ReadShapes /\ HeadsInOrder /\ RecordsCover /\ OneAtATime
  /\ WaitsOnlyForMore /\ WholeUnlessSplit

--------------------------------------------------------------------------------
(* Where heads start, and what a read takes.                                   *)

LEMMA Starts ==
  ASSUME HeadsInOrder
  PROVE  /\ \A k \in 1 .. Len(heads) + 1 : Start(k) \in Nat
         /\ Top = IF heads = <<>> THEN 0 ELSE heads[Len(heads)].end
         /\ Top \in Nat
         /\ \A k \in 1 .. Len(heads) : Start(k) <= heads[k].end - BLANK /\ heads[k].end <= Top
         /\ \A k \in 1 .. Len(heads) : heads[k].end \in Nat
<1>0. Len(heads) \in Nat /\ BLANK \in Nat /\ BLANK > 0
  BY ReadAssumption DEF HeadsInOrder
<1>1. \A k \in 1 .. Len(heads) : heads[k].end \in Nat
  <2> TAKE k \in 1 .. Len(heads)
  <2>1. heads[k] \in Heads
    BY DEF HeadsInOrder
  <2> QED
    BY <2>1 DEF Heads
<1>2. \A k \in 1 .. Len(heads) + 1 : k # 1 => k - 1 \in 1 .. Len(heads)
  BY <1>0
<1>3. Top = IF heads = <<>> THEN 0 ELSE heads[Len(heads)].end
  BY <1>0 DEF Top, Start, HeadsInOrder
<1>4. \A k \in 1 .. Len(heads) + 1 : Start(k) \in Nat
  BY <1>1, <1>2 DEF Start
<1>5. \A k \in 1 .. Len(heads) : Start(k) <= heads[k].end - BLANK
  BY <1>0, <1>1, <1>2 DEF Start, HeadsInOrder
<1>6. \A k \in 1 .. Len(heads) : heads[k].end <= Top
  <2> TAKE k \in 1 .. Len(heads)
  <2>1. Len(heads) \in 1 .. Len(heads) /\ heads # <<>>
    BY <1>0 DEF HeadsInOrder
  <2>2. k = Len(heads) \/ k < Len(heads)
    BY <1>0
  <2> QED
    BY <1>0, <1>1, <1>3, <2>1, <2>2 DEF HeadsInOrder
<1> QED
  BY <1>1, <1>3, <1>4, <1>5, <1>6, <1>0 DEF Top

\* A read that is told of an event makes progress, by at most READ_SIZE, and
\* leaves the intervals in order.
LEMMA Takes ==
  ASSUME ReadInv, Reading, TakeBytes
  PROVE  /\ From \in Nat /\ From <= got /\ base' = From
         /\ got' = ReadTo /\ got' \in Nat /\ got < got' /\ got' <= got + READ_SIZE
         /\ got' <= inside' /\ inside' <= sent /\ inside' \in Nat
         /\ RecordsCover'
<1>0. /\ {base, got, inside, sent} \subseteq Nat
      /\ base <= got /\ got <= inside /\ inside < sent
      /\ READ_SIZE \in Nat /\ READ_SIZE > 0 /\ tls \in BOOLEAN
  BY ReadAssumption DEF ReadInv, ReadTypeOK, ReadShapes, Reading
<1>1. From \in Nat /\ From <= got /\ base' = From /\ got' = ReadTo
  BY <1>0 DEF From, TakeBytes
<1>2. CASE ~tls
  <2>1. /\ Available = sent /\ records = <<>> /\ records' = records /\ inside' = ReadTo
        /\ UNCHANGED <<sent, tls>>
    BY <1>2 DEF Available, TakeBytes, ReadInv, RecordsCover
  <2>2. ReadTo \in Nat /\ got < ReadTo /\ ReadTo <= got + READ_SIZE /\ ReadTo <= sent
    BY <1>0, <1>2, <2>1 DEF ReadTo, Least, ReadInv, RecordsCover
  <2> QED
    BY <1>0, <1>1, <1>2, <2>1, <2>2 DEF RecordsCover
<1>3. CASE tls /\ inside > got
  <2>1. /\ Available = inside /\ records' = records /\ inside' = inside
        /\ UNCHANGED <<sent, tls>>
    BY <1>0, <1>3 DEF Available, TakeBytes
  <2>2. ReadTo \in Nat /\ got < ReadTo /\ ReadTo <= got + READ_SIZE /\ ReadTo <= inside
    BY <1>0, <1>3, <2>1 DEF ReadTo, Least
  <2> QED
    BY <1>0, <1>1, <1>3, <2>1, <2>2 DEF ReadInv, RecordsCover
<1>4. CASE tls /\ inside = got
  <2>1. /\ records # <<>> /\ records \in Seq(Nat)
        /\ \A i \in 1 .. Len(records) : inside < records[i] /\ records[i] <= sent
        /\ \A i, j \in 1 .. Len(records) : i < j => records[i] < records[j]
        /\ sent = records[Len(records)]
    BY <1>0, <1>4 DEF ReadInv, RecordsCover
  <2>2. /\ Available = records[1] /\ records' = Tail(records) /\ inside' = records[1]
        /\ UNCHANGED <<sent, tls>>
    BY <1>0, <1>4, <2>1 DEF Available, TakeBytes
  <2>3. /\ Len(records) \in Nat /\ Len(records) >= 1 /\ records[1] \in Nat
        /\ records' \in Seq(Nat) /\ Len(records') = Len(records) - 1
        /\ \A i \in 1 .. Len(records') : i + 1 \in 1 .. Len(records) /\ records'[i] = records[i + 1]
    BY <2>1, <2>2
  <2>4. /\ ReadTo \in Nat /\ got < ReadTo /\ ReadTo <= got + READ_SIZE /\ ReadTo <= records[1]
        /\ records[1] <= sent
    BY <1>0, <1>4, <2>1, <2>2, <2>3 DEF ReadTo, Least
  <2>5. \A i \in 1 .. Len(records') : inside' < records'[i] /\ records'[i] <= sent
    BY <2>1, <2>2, <2>3
  <2>6. \A i, j \in 1 .. Len(records') : i < j => records'[i] < records'[j]
    <3> TAKE i, j \in 1 .. Len(records')
    <3>1. i < j => i + 1 < j + 1
      OBVIOUS
    <3> QED
      BY <2>1, <2>3, <3>1
  <2>7. sent = IF records' = <<>> THEN inside' ELSE records'[Len(records')]
    <3>1. CASE Len(records) = 1
      BY <2>1, <2>2, <2>3, <3>1
    <3>2. CASE Len(records) # 1
      <4>1. Len(records') \in 1 .. Len(records') /\ Len(records') + 1 = Len(records)
        BY <2>3, <3>2
      <4> QED
        BY <2>1, <2>3, <4>1
    <3> QED
      BY <3>1, <3>2
  <2> QED
    BY <1>0, <1>1, <1>4, <2>2, <2>3, <2>4, <2>5, <2>6, <2>7 DEF RecordsCover
<1> QED
  BY <1>0, <1>2, <1>3, <1>4

\* The blank line that a buffer can hold is the one of the request that is due,
\* and nothing was sent behind it.
LEMMA DueOnly ==
  ASSUME ReadInv, Reading, TakeBytes, NEW k \in BlankLines(From, ReadTo)
  PROVE  /\ k \in 1 .. Len(heads) /\ k = Len(heads) /\ k = replies + 1
         /\ ReadTo = heads[k].end /\ ReadTo = Top
         /\ From >= Start(k)
         /\ ~split => From = Start(k)
<1>0. /\ k \in 1 .. Len(heads) /\ From <= heads[k].end - BLANK /\ heads[k].end <= ReadTo
      /\ Len(heads) \in Nat /\ replies \in Nat /\ Len(heads) \in {replies, replies + 1}
      /\ BLANK \in Nat /\ BLANK > 0 /\ HeadsInOrder
  BY ReadAssumption DEF BlankLines, ReadInv, HeadsInOrder, OneAtATime, ReadTypeOK
<1>1. /\ \A i \in 1 .. Len(heads) + 1 : Start(i) \in Nat
      /\ Top \in Nat
      /\ \A i \in 1 .. Len(heads) : Start(i) <= heads[i].end - BLANK /\ heads[i].end <= Top
      /\ heads[k].end \in Nat
  BY <1>0, Starts
<1>2. /\ From \in Nat /\ ReadTo \in Nat /\ ReadTo <= Top
      /\ got \in Nat
  BY Takes, <1>1 DEF ReadInv, ReadTypeOK, ReadShapes
<1>3. k = replies + 1 /\ From >= Start(k) /\ (~split => From = Start(k))
  <2>1. CASE state = "READING"
    <3>1. replies = 0 /\ base = 0 /\ From = base
      BY <2>1 DEF ReadInv, OneAtATime, From
    <3> QED
      BY <1>0, <3>1 DEF Start
  <2>2. CASE state = "KEEP_ALIVE"
    <3>1. From = got /\ Start(replies + 1) <= got /\ (~split => got = Start(replies + 1))
      BY <2>2 DEF ReadInv, OneAtATime, From
    <3>2. k <= replies => FALSE
      <4> SUFFICES ASSUME k <= replies PROVE FALSE
        OBVIOUS
      <4>1. replies \in 1 .. Len(heads) /\ replies + 1 # 1 /\ (replies + 1) - 1 = replies
        BY <1>0
      <4>2. heads[replies].end <= got
        BY <3>1, <4>1 DEF Start
      <4>3. heads[replies].end \in Nat /\ heads[k].end <= heads[replies].end
        BY <1>0, <1>1, <4>1, Starts DEF HeadsInOrder
      <4> QED
        BY <1>0, <1>1, <1>2, <3>1, <4>2, <4>3
    <3>3. k = replies + 1
      BY <1>0, <3>2
    <3> QED
      BY <3>1, <3>3
  <2> QED
    BY <2>1, <2>2 DEF Reading
<1>4. k = Len(heads)
  BY <1>0, <1>3
<1>5. heads[k].end = Top
  BY <1>0, <1>4, Starts
<1> QED
  BY <1>0, <1>1, <1>2, <1>3, <1>4, <1>5

--------------------------------------------------------------------------------
(* Every action keeps the invariant.                                           *)

\* The sizes as numbers.
LEMMA Sizes ==
  /\ READ_SIZE \in Nat /\ READ_SIZE > 0 /\ BUF_LIMIT \in Nat /\ BLANK \in Nat /\ BLANK > 0
  /\ TIMEOUT \in Nat /\ PIECE \in Nat
  /\ \A n \in HeadSizes : n \in Nat /\ n > BLANK
BY ReadAssumption

LEMMA OlderFits ==
  ASSUME NEW m \in 0 .. TIMEOUT + 1, NEW n \in 0 .. TIMEOUT + 1, m <= n
  PROVE  /\ Older(m) \in 0 .. TIMEOUT + 1 /\ Older(n) \in 0 .. TIMEOUT + 1
         /\ Older(m) <= Older(n)
BY Sizes DEF Older, Least

\* What the heads alone decide.
LEMMA HeadsSame ==
  ASSUME UNCHANGED heads
  PROVE  /\ \A k : Start(k)' = Start(k)
         /\ Top' = Top
         /\ HeadsInOrder' <=> HeadsInOrder
         /\ UNCHANGED parsed => (AnswersAreRequests' <=> AnswersAreRequests)
BY DEF Start, Top, HeadsInOrder, AnswersAreRequests

\* A new request is behind everything that was sent.
LEMMA AskInv ==
  ASSUME ReadInv, NEW n \in HeadSizes, NEW kind \in Kinds, Ask(n, kind)
  PROVE  ReadInv'
<1> DEFINE h == [end |-> Top + n, kind |-> kind]
<1>1. /\ heads' = Append(heads, h) /\ Len(heads) = replies
      /\ UNCHANGED <<serverVars, sent, records, eof, tls, replies, parsed, split, unheard>>
  BY DEF Ask
<1>2. /\ HeadsInOrder /\ heads \in Seq(Heads) /\ Len(heads) \in Nat
      /\ Top \in Nat /\ \A k \in 1 .. Len(heads) : heads[k].end \in Nat /\ heads[k].end <= Top
      /\ \A k \in 1 .. Len(heads) + 1 : Start(k) \in Nat
  BY Starts DEF ReadInv, HeadsInOrder
<1>3. h \in Heads /\ h.end = Top + n
  BY <1>2, Sizes DEF Heads
<1> HIDE DEF h
<1>4. /\ heads' \in Seq(Heads) /\ Len(heads') = Len(heads) + 1
      /\ heads'[Len(heads')] = h
      /\ \A k \in 1 .. Len(heads) : heads'[k] = heads[k]
      /\ \A k \in 1 .. Len(heads') : k \in 1 .. Len(heads) \/ k = Len(heads')
  BY <1>1, <1>2, <1>3
<1>5. HeadsInOrder'
  <2>1. \A i \in 1 .. Len(heads') : heads'[i].end > BLANK
    <3> TAKE i \in 1 .. Len(heads')
    <3>1. CASE i \in 1 .. Len(heads)
      BY <1>2, <1>4, <3>1 DEF HeadsInOrder
    <3>2. CASE i = Len(heads')
      <4>1. n \in Nat /\ n > BLANK /\ BLANK \in Nat
        BY Sizes
      <4> QED
        BY <1>2, <1>3, <1>4, <3>2, <4>1
    <3> QED
      BY <1>4, <3>1, <3>2
  <2>2. \A i, j \in 1 .. Len(heads') : i < j => heads'[i].end + BLANK < heads'[j].end
    <3> TAKE i, j \in 1 .. Len(heads')
    <3> HAVE i < j
    <3>1. i \in 1 .. Len(heads)
      BY <1>2, <1>4
    <3>2. CASE j \in 1 .. Len(heads)
      BY <1>4, <3>1, <3>2 DEF ReadInv, HeadsInOrder
    <3>3. CASE j = Len(heads')
      <4>1. heads'[i].end <= Top /\ heads'[i].end \in Nat /\ heads'[j].end = Top + n
        BY <1>2, <1>3, <1>4, <3>1, <3>3
      <4>2. n \in Nat /\ n > BLANK /\ BLANK \in Nat /\ Top \in Nat
        BY <1>2, Sizes
      <4> HIDE DEF Top
      <4> QED
        BY <4>1, <4>2
    <3> QED
      BY <1>4, <3>2, <3>3
  <2> QED
    BY <1>4, <2>1, <2>2 DEF HeadsInOrder
<1>6. /\ \A k \in 1 .. Len(heads) + 1 : Start(k)' = Start(k)
      /\ Top' = Top + n
  <2>1. \A k \in 1 .. Len(heads) + 1 : k # 1 => k - 1 \in 1 .. Len(heads)
    BY <1>2
  <2>2. \A k \in 1 .. Len(heads) + 1 : Start(k)' = Start(k)
    BY <1>4, <2>1 DEF Start
  <2>3. heads' # <<>> /\ Top' = heads'[Len(heads')].end
    <3>1. Len(heads') + 1 # 1 /\ (Len(heads') + 1) - 1 = Len(heads')
      BY <1>2, <1>4
    <3> QED
      BY <1>2, <1>4, <3>1 DEF Top, Start
  <2> QED
    BY <1>3, <1>4, <2>2, <2>3
<1>7. ReadTypeOK'
  <2>1. sent <= Top' /\ replies \in 0 .. Len(heads')
    <3>1. sent <= Top /\ sent \in Nat /\ n \in Nat /\ Top \in Nat
      BY <1>2, Sizes DEF ReadInv, ReadTypeOK, ReadShapes
    <3>2. sent <= Top + n
      BY <3>1
    <3> QED
      BY <1>1, <1>2, <1>4, <1>6, <3>2
  <2>2. idle' \in 0 .. TIMEOUT + 1
    BY <1>1 DEF ReadInv, ReadTypeOK, serverVars
  <2> QED
    BY <1>1, <2>1, <2>2 DEF ReadInv, ReadTypeOK, serverVars
<1>8. ReadShapes' /\ RecordsCover'
  BY <1>1 DEF ReadInv, ReadShapes, RecordsCover, serverVars
<1>9. OneAtATime'
  BY <1>1, <1>2, <1>4, <1>6 DEF ReadInv, OneAtATime, serverVars
<1>10. WaitsOnlyForMore'
  <2> SUFFICES ASSUME state = "READING", NEW k \in 1 .. Len(heads'),
                      base <= heads'[k].end - BLANK, heads'[k].end <= got
               PROVE  FALSE
    BY <1>1 DEF WaitsOnlyForMore, serverVars
  <2>1. CASE k \in 1 .. Len(heads)
    BY <1>4, <2>1 DEF ReadInv, WaitsOnlyForMore
  <2>2. CASE k = Len(heads')
    <3>1. got <= Top /\ got \in Nat /\ n \in Nat /\ n > 0
      <4>1. /\ got \in Nat /\ inside \in Nat /\ sent \in Nat
            /\ got <= inside /\ inside <= sent /\ sent <= Top
        BY DEF ReadInv, ReadTypeOK, ReadShapes
      <4>2. n \in Nat /\ n > BLANK /\ BLANK \in Nat /\ Top \in Nat
        BY <1>2, Sizes
      <4> QED
        BY <4>1, <4>2
    <3> QED
      BY <1>2, <1>3, <1>4, <2>2, <3>1
  <2> QED
    BY <1>4, <2>1, <2>2
<1>11. WholeUnlessSplit'
  <2> SUFFICES ASSUME AnswersAreRequests PROVE AnswersAreRequests'
    BY <1>1 DEF ReadInv, WholeUnlessSplit
  <2> SUFFICES ASSUME NEW i \in 1 .. Len(parsed)
               PROVE  i <= Len(heads') /\ parsed[i] = <<Start(i)', heads'[i].end>>
    BY <1>1 DEF AnswersAreRequests
  <2>1. i <= Len(heads) /\ parsed[i] = <<Start(i), heads[i].end>>
    BY DEF AnswersAreRequests
  <2>2. i \in 1 .. Len(heads) /\ i \in 1 .. Len(heads) + 1
    BY <1>2, <2>1 DEF ReadInv, ReadShapes
  <2> QED
    BY <1>2, <1>4, <1>6, <2>1, <2>2
<1> QED
  BY <1>5, <1>7, <1>8, <1>9, <1>10, <1>11 DEF ReadInv

\* Bytes arrive within what was asked.
LEMMA ArriveInv ==
  ASSUME ReadInv, NEW n \in 1 .. PIECE, Arrive(n)
  PROVE  ReadInv'
<1>1. /\ sent' = sent + n /\ sent + n <= Top /\ n \in Nat /\ n > 0
      /\ records' = IF tls THEN Append(records, sent + n) ELSE records
      /\ UNCHANGED <<serverVars, eof, tls, heads, replies, parsed, split, unheard>>
  BY Sizes DEF Arrive
<1>2. Top' = Top /\ Top \in Nat /\ HeadsInOrder' /\ \A k : Start(k)' = Start(k)
  BY <1>1, HeadsSame, Starts DEF ReadInv
<1>3. sent \in Nat /\ inside \in Nat /\ inside <= sent /\ sent' \in Nat
  BY <1>1 DEF ReadInv, ReadTypeOK, ReadShapes
<1>4. ReadTypeOK' /\ ReadShapes'
  BY <1>1, <1>2, <1>3 DEF ReadInv, ReadTypeOK, ReadShapes, serverVars
<1>5. RecordsCover'
  <2>1. CASE ~tls
    BY <1>1, <1>3, <2>1 DEF ReadInv, RecordsCover, serverVars
  <2>2. CASE tls
    <3>0. records \in Seq(Nat) /\ records' = Append(records, sent + n)
      BY <1>1, <2>2 DEF ReadInv, RecordsCover
    <3>1. /\ records' \in Seq(Nat) /\ Len(records) \in Nat
          /\ Len(records') = Len(records) + 1 /\ records' # <<>>
          /\ records'[Len(records')] = sent + n
          /\ \A i \in 1 .. Len(records') :
               \/ i \in 1 .. Len(records) /\ records'[i] = records[i] /\ records[i] \in Nat
               \/ i = Len(records')
      BY <1>1, <1>3, <3>0
    <3>2. \A i \in 1 .. Len(records') : inside < records'[i] /\ records'[i] <= sent'
      BY <1>1, <1>3, <3>1 DEF ReadInv, RecordsCover
    <3>3. \A i, j \in 1 .. Len(records') : i < j => records'[i] < records'[j]
      <4> TAKE i, j \in 1 .. Len(records')
      <4> HAVE i < j
      <4>1. i \in 1 .. Len(records) /\ records'[i] = records[i] /\ records[i] \in Nat
        BY <3>1
      <4>2. records[i] <= sent
        BY <4>1 DEF ReadInv, RecordsCover
      <4>3. CASE j = Len(records')
        BY <1>1, <1>3, <3>1, <4>1, <4>2, <4>3
      <4>4. CASE j \in 1 .. Len(records) /\ records'[j] = records[j]
        BY <4>1, <4>4 DEF ReadInv, RecordsCover
      <4> QED
        BY <3>1, <4>3, <4>4
    <3> QED
      BY <1>1, <2>2, <3>1, <3>2, <3>3 DEF RecordsCover, serverVars
  <2> QED
    BY <2>1, <2>2 DEF ReadInv, ReadShapes
<1>6. OneAtATime' /\ WaitsOnlyForMore' /\ WholeUnlessSplit'
  BY <1>1, <1>2, HeadsSame
     DEF ReadInv, OneAtATime, WaitsOnlyForMore, WholeUnlessSplit, serverVars
<1> QED
  BY <1>2, <1>4, <1>5, <1>6 DEF ReadInv

\* The clock, and the end of the client.
LEMMA TickInv ==
  ASSUME ReadInv, Tick \/ HangUp
  PROVE  ReadInv'
<1>1. UNCHANGED <<state, base, got, inside, sent, records, tls, heads, replies, parsed, split>>
  BY DEF Tick, HangUp, serverVars, clientVars
<1>2. Top' = Top /\ HeadsInOrder' /\ \A k : Start(k)' = Start(k)
  BY <1>1, HeadsSame DEF ReadInv
<1>3. /\ {idle', unheard'} \subseteq 0 .. TIMEOUT + 1 /\ idle' <= unheard'
      /\ {idle', unheard'} \subseteq Nat /\ eof' \in BOOLEAN
  <2>1. idle \in 0 .. TIMEOUT + 1 /\ unheard \in 0 .. TIMEOUT + 1 /\ idle <= unheard /\ eof \in BOOLEAN
    BY DEF ReadInv, ReadTypeOK, ReadShapes
  <2>2. CASE Tick
    <3>1. idle' = Older(idle) /\ unheard' = Older(unheard) /\ eof' = eof
      BY <2>2 DEF Tick, clientVars
    <3>2. Older(idle) \in 0 .. TIMEOUT + 1 /\ Older(unheard) \in 0 .. TIMEOUT + 1 /\ Older(idle) <= Older(unheard)
      BY <2>1, OlderFits
    <3> QED
      BY <2>1, <3>1, <3>2, Sizes
  <2>3. CASE HangUp
    BY <2>1, <2>3, Sizes DEF HangUp, serverVars
  <2> QED
    BY <2>2, <2>3
<1>4. ReadTypeOK' /\ ReadShapes' /\ RecordsCover'
  BY <1>1, <1>2, <1>3 DEF ReadInv, ReadTypeOK, ReadShapes, RecordsCover
<1>5. OneAtATime' /\ WaitsOnlyForMore' /\ WholeUnlessSplit'
  BY <1>1, <1>2, HeadsSame DEF ReadInv, OneAtATime, WaitsOnlyForMore, WholeUnlessSplit
<1> QED
  BY <1>2, <1>4, <1>5 DEF ReadInv

\* Everything else leaves the client alone: what remains to be shown of it.
LEMMA ServerStep ==
  ASSUME ReadInv, UNCHANGED <<sent, eof, tls, heads>>
  PROVE  Top' = Top /\ HeadsInOrder' /\ \A k : Start(k)' = Start(k)
BY HeadsSame DEF ReadInv

LEMMA DetectInv ==
  ASSUME ReadInv, Detect
  PROVE  ReadInv'
<1>1. /\ state = "PROTO_DETECT" /\ state' = "READING" /\ idle' = 0
      /\ UNCHANGED <<base, got, inside, clientVars, parsed, split, unheard>>
  BY DEF Detect
<1>2. Top' = Top /\ HeadsInOrder' /\ \A k : Start(k)' = Start(k)
  BY <1>1, ServerStep DEF clientVars
<1>3. base = 0 /\ got = 0
  BY <1>1 DEF ReadInv, OneAtATime
<1>4. ReadTypeOK' /\ ReadShapes' /\ RecordsCover'
  BY <1>1, <1>2, <1>3, Sizes
     DEF ReadInv, ReadTypeOK, ReadShapes, RecordsCover, clientVars
<1>5. OneAtATime' /\ WholeUnlessSplit'
  BY <1>1, <1>2, HeadsSame DEF ReadInv, OneAtATime, WholeUnlessSplit, clientVars
<1>6. WaitsOnlyForMore'
  BY <1>1, <1>3, Starts, Sizes DEF ReadInv, HeadsInOrder, WaitsOnlyForMore, clientVars
<1> QED
  BY <1>2, <1>4, <1>5, <1>6 DEF ReadInv

\* A read without a blank line: what the buffer then holds.
LEMMA PartInv ==
  ASSUME ReadInv, ReadPart \/ ReadTooLarge
  PROVE  ReadInv'
<1>1. /\ Reading /\ TakeBytes /\ BlankLines(From, ReadTo) = {}
      /\ idle' = 0 /\ unheard' = 0
      /\ UNCHANGED <<sent, eof, tls, heads, replies, parsed>>
  BY DEF ReadPart, ReadTooLarge, TakeBytes
<1>2. Top' = Top /\ HeadsInOrder' /\ \A k : Start(k)' = Start(k)
  BY <1>1, ServerStep
<1>3. /\ From \in Nat /\ From <= got /\ base' = From
      /\ got' = ReadTo /\ got' \in Nat /\ got < got' /\ got' <= got + READ_SIZE
      /\ got' <= inside' /\ inside' <= sent /\ inside' \in Nat
      /\ RecordsCover'
  BY <1>1, Takes
<1>4. /\ {base, got, sent, replies} \subseteq Nat /\ sent <= Top
      /\ got - From <= BUF_LIMIT
  BY <1>1, Sizes DEF ReadInv, ReadTypeOK, ReadShapes, Reading, From
<1>5. /\ state' \in {"READING", "KEEP_ALIVE", "CLOSED"}
      /\ state' = "CLOSED" \/ (state' = state /\ got' - base' <= BUF_LIMIT)
      /\ split' = split \/ (split' = TRUE /\ state = "KEEP_ALIVE")
      /\ state = "KEEP_ALIVE" /\ state' = "KEEP_ALIVE" => split' = TRUE
  <2>1. split \in BOOLEAN /\ state \in {"READING", "KEEP_ALIVE"}
    BY <1>1 DEF Reading, ReadInv, ReadShapes
  <2>2. CASE ReadPart
    <3>1. state' = state /\ split' = (split \/ state = "KEEP_ALIVE")
          /\ ~(ReadTo - From > BUF_LIMIT)
      BY <2>2 DEF ReadPart, TooLarge
    <3>2. got' - base' <= BUF_LIMIT
      BY <1>3, <3>1, Sizes
    <3> QED
      BY <2>1, <3>1, <3>2
  <2>3. CASE ReadTooLarge
    BY <2>3 DEF ReadTooLarge
  <2> QED
    BY <1>1, <2>2, <2>3
<1>6. ReadTypeOK'
  BY <1>1, <1>2, <1>3, <1>4, <1>5, Sizes DEF ReadInv, ReadTypeOK
<1>7. ReadShapes'
  <2>1. /\ sent \in Nat /\ tls \in BOOLEAN /\ split \in BOOLEAN /\ eof \in BOOLEAN
        /\ parsed \in Seq(Nat \X Nat)
    BY DEF ReadInv, ReadShapes
  <2>2. split' \in BOOLEAN
    BY <1>5, <2>1
  <2> QED
    BY <1>1, <1>3, <2>1, <2>2 DEF ReadShapes
<1>8. OneAtATime'
  <2>1. Len(heads') \in {replies', replies' + 1}
    BY <1>1 DEF ReadInv, OneAtATime
  <2>2. state' = "READING" => base' = 0 /\ replies' = 0 /\ parsed' = <<>>
    BY <1>1, <1>3, <1>5 DEF ReadInv, OneAtATime, From
  <2>3. state' = "KEEP_ALIVE" => (Start(replies + 1))' <= got' /\ split' = TRUE
    <3> SUFFICES ASSUME state' = "KEEP_ALIVE"
                 PROVE  Start(replies + 1) <= got' /\ split' = TRUE
      BY <1>1, HeadsSame
    <3>1. state = "KEEP_ALIVE" /\ Start(replies + 1) <= got /\ replies + 1 \in 1 .. Len(heads) + 1
      BY <1>4, <1>5 DEF ReadInv, OneAtATime, ReadTypeOK
    <3>2. Start(replies + 1) \in Nat
      BY <3>1, Starts DEF ReadInv
    <3>3. split' = TRUE
      BY <1>5, <3>1
    <3>4. Start(replies + 1) <= got'
      BY <1>3, <1>4, <3>1, <3>2
    <3> QED
      BY <3>3, <3>4
  <2>4. state' # "PROTO_DETECT" /\ state' # "SENDING"
    BY <1>5
  <2> QED
    BY <2>1, <2>2, <2>3, <2>4 DEF OneAtATime
<1>9. WaitsOnlyForMore'
  BY <1>1, <1>3 DEF WaitsOnlyForMore, BlankLines
<1>10. WholeUnlessSplit'
  BY <1>1, <1>5, HeadsSame DEF ReadInv, WholeUnlessSplit
<1> QED
  BY <1>2, <1>3, <1>6, <1>7, <1>8, <1>9, <1>10 DEF ReadInv

\* A read that finds the blank line of the request that is due.
LEMMA HeadInv ==
  ASSUME ReadInv, ReadHead
  PROVE  ReadInv'
<1>1. /\ Reading /\ TakeBytes /\ BlankLines(From, ReadTo) # {}
      /\ idle' = 0 /\ unheard' = 0
      /\ UNCHANGED <<sent, eof, tls, heads, replies, split>>
  BY DEF ReadHead, TakeBytes
<1>2. Top' = Top /\ HeadsInOrder' /\ \A k : Start(k)' = Start(k)
  BY <1>1, ServerStep
<1>3. /\ From \in Nat /\ From <= got /\ base' = From
      /\ got' = ReadTo /\ got' \in Nat /\ got < got' /\ got' <= got + READ_SIZE
      /\ got' <= inside' /\ inside' <= sent /\ inside' \in Nat
      /\ RecordsCover'
  BY <1>1, Takes
<1>4. /\ {base, got, sent, replies} \subseteq Nat /\ sent <= Top
      /\ got - From <= BUF_LIMIT
  BY <1>1, Sizes DEF ReadInv, ReadTypeOK, ReadShapes, Reading, From
<1> DEFINE k == CHOOSE k \in BlankLines(From, ReadTo) :
                  \A m \in BlankLines(From, ReadTo) : k <= m
<1>5. k \in BlankLines(From, ReadTo)
  <2>1. PICK j \in BlankLines(From, ReadTo) : TRUE
    BY <1>1
  <2>2. j = Len(heads) /\ Len(heads) \in Nat
    BY <1>1, <2>1, DueOnly DEF ReadInv, HeadsInOrder
  <2>3. \A m \in BlankLines(From, ReadTo) : m = Len(heads)
    BY <1>1, DueOnly
  <2>4. \A m \in BlankLines(From, ReadTo) : j <= m
    BY <2>2, <2>3
  <2> QED
    BY <2>4
<1>6. \/ state' = "SENDING" /\ parsed' = Append(parsed, <<From, heads[k].end>>)
      \/ state' = "PARSING" /\ parsed' = parsed
  BY DEF ReadHead
<1> HIDE DEF k
<1>7. /\ k \in 1 .. Len(heads) /\ k = Len(heads) /\ k = replies + 1
      /\ ReadTo = heads[k].end /\ ReadTo = Top /\ ReadTo \in Nat
      /\ ~split => From = Start(k)
  BY <1>1, <1>3, <1>5, DueOnly
<1>8. ReadTypeOK'
  BY <1>1, <1>2, <1>3, <1>4, <1>6, Sizes DEF ReadInv, ReadTypeOK
<1>9. ReadShapes'
  <2>1. <<From, heads[k].end>> \in Nat \X Nat
    BY <1>3, <1>7
  <2> QED
    <3>1. /\ sent \in Nat /\ tls \in BOOLEAN /\ split \in BOOLEAN /\ eof \in BOOLEAN
          /\ parsed \in Seq(Nat \X Nat)
      BY DEF ReadInv, ReadShapes
    <3>2. parsed' \in Seq(Nat \X Nat)
      <4> DEFINE interval == <<From, heads[k].end>>
                 Pairs == Nat \X Nat
      <4>1. interval \in Pairs /\ parsed \in Seq(Pairs)
        BY <2>1, <3>1
      <4>2. parsed' = Append(parsed, interval) \/ parsed' = parsed
        BY <1>6
      <4> HIDE DEF interval, Pairs
      <4>3. parsed' \in Seq(Pairs)
        BY <4>1, <4>2
      <4> QED
        BY <4>3 DEF Pairs
    <3> QED
      BY <1>1, <1>3, <3>1, <3>2 DEF ReadShapes
<1>10. ~split => Len(parsed) = replies
  <2>1. CASE state = "READING"
    BY <2>1 DEF ReadInv, OneAtATime
  <2>2. CASE state = "KEEP_ALIVE"
    BY <2>2 DEF ReadInv, OneAtATime
  <2> QED
    BY <1>1, <2>1, <2>2 DEF Reading
<1>11. parsed \in Seq(Nat \X Nat) /\ Len(parsed) \in Nat
  BY DEF ReadInv, ReadShapes
<1>12. state' = "SENDING" => (~split => Len(parsed') = replies + 1)
  BY <1>6, <1>10, <1>11
<1>13. OneAtATime'
  BY <1>1, <1>2, <1>3, <1>4, <1>6, <1>7, <1>12 DEF OneAtATime
<1>14. WaitsOnlyForMore'
  BY <1>6 DEF WaitsOnlyForMore
<1>15. WholeUnlessSplit'
  <2> SUFFICES ASSUME ~split PROVE AnswersAreRequests'
    BY <1>1 DEF WholeUnlessSplit
  <2>1. AnswersAreRequests
    BY DEF ReadInv, WholeUnlessSplit
  <2>2. CASE parsed' = parsed
    BY <1>1, <2>1, <2>2, HeadsSame
  <2>3. CASE parsed' = Append(parsed, <<From, heads[k].end>>)
    <3> SUFFICES ASSUME NEW i \in 1 .. Len(parsed')
                 PROVE  i <= Len(heads) /\ parsed'[i] = <<Start(i), heads[i].end>>
      BY <1>1, <1>2 DEF AnswersAreRequests
    <3>1. CASE i \in 1 .. Len(parsed)
      BY <1>11, <2>1, <2>3, <3>1 DEF AnswersAreRequests
    <3>2. CASE i = k
      <4>1. parsed'[k] = <<From, heads[k].end>>
        <5>1. k = Len(parsed) + 1
          BY <1>7, <1>10
        <5> QED
          BY <1>11, <2>3, <5>1
      <4> QED
        BY <1>7, <3>2, <4>1
    <3> QED
      BY <1>7, <1>10, <1>11, <2>3, <3>1, <3>2
  <2> QED
    BY <1>6, <2>2, <2>3
<1> QED
  BY <1>2, <1>3, <1>8, <1>9, <1>13, <1>14, <1>15 DEF ReadInv

\* A read that OpenSSL cannot satisfy yet.
LEMMA NothingInv ==
  ASSUME ReadInv, ReadNothing
  PROVE  ReadInv'
<1>1. /\ state \in {"READING", "KEEP_ALIVE"} /\ base' = From /\ idle' = 0
      /\ UNCHANGED <<state, got, inside, sent, records, eof, tls, heads, replies, parsed, split, unheard>>
  BY DEF ReadNothing, clientVars
<1>2. Top' = Top /\ HeadsInOrder' /\ \A k : Start(k)' = Start(k)
  BY <1>1, ServerStep
<1>3. From \in Nat /\ From <= got /\ base <= From /\ (state = "READING" => From = base)
  BY <1>1 DEF ReadInv, ReadTypeOK, ReadShapes, From
<1>4. ReadTypeOK' /\ ReadShapes'
  BY <1>1, <1>2, <1>3, Sizes DEF ReadInv, ReadTypeOK, ReadShapes
<1>5. RecordsCover'
  BY <1>1 DEF ReadInv, RecordsCover
<1>6. OneAtATime' /\ WaitsOnlyForMore' /\ WholeUnlessSplit'
  BY <1>1, <1>2, <1>3, HeadsSame DEF ReadInv, OneAtATime, WaitsOnlyForMore, WholeUnlessSplit
<1> QED
  BY <1>2, <1>4, <1>5, <1>6 DEF ReadInv

\* The answer is out: what was read is exactly the requests so far.
LEMMA AnsweredInv ==
  ASSUME ReadInv, Answered
  PROVE  ReadInv'
<1>1. /\ state = "SENDING" /\ state' = "KEEP_ALIVE" /\ replies' = replies + 1
      /\ UNCHANGED <<base, got, inside, idle, sent, records, eof, tls, heads, parsed, split, unheard>>
  BY DEF Answered
<1>2. Top' = Top /\ HeadsInOrder' /\ \A k : Start(k)' = Start(k)
  BY <1>1, ServerStep
<1>3. /\ Len(heads) = replies + 1 /\ got = Top /\ got \in Nat /\ Top = Start(Len(heads) + 1)
      /\ replies \in Nat
      /\ ~split => Len(parsed) = replies + 1
  BY <1>1 DEF ReadInv, OneAtATime, Top, ReadTypeOK, ReadShapes
<1>4. ReadTypeOK' /\ ReadShapes' /\ RecordsCover'
  BY <1>1, <1>2, <1>3, Sizes DEF ReadInv, ReadTypeOK, ReadShapes, RecordsCover
<1>5. OneAtATime'
  BY <1>1, <1>2, <1>3 DEF OneAtATime
<1>6. WaitsOnlyForMore' /\ WholeUnlessSplit'
  BY <1>1, HeadsSame DEF ReadInv, WaitsOnlyForMore, WholeUnlessSplit
<1> QED
  BY <1>2, <1>4, <1>5, <1>6 DEF ReadInv

\* The end of the connection.
LEMMA CloseInv ==
  ASSUME ReadInv, Close
  PROVE  ReadInv'
<1>1. /\ state' = "CLOSED"
      /\ UNCHANGED <<base, got, inside, idle, sent, records, eof, tls, heads, replies, parsed, split, unheard>>
  BY DEF Close, clientVars
<1>2. Top' = Top /\ HeadsInOrder' /\ \A k : Start(k)' = Start(k)
  BY <1>1, ServerStep
<1>3. ReadTypeOK' /\ ReadShapes' /\ RecordsCover'
  BY <1>1, <1>2 DEF ReadInv, ReadTypeOK, ReadShapes, RecordsCover
<1>4. OneAtATime' /\ WaitsOnlyForMore' /\ WholeUnlessSplit'
  BY <1>1, <1>2, HeadsSame DEF ReadInv, OneAtATime, WaitsOnlyForMore, WholeUnlessSplit
<1> QED
  BY <1>2, <1>3, <1>4 DEF ReadInv

\* Nothing happens.
LEMMA ReadStutter ==
  ASSUME ReadInv, UNCHANGED vars
  PROVE  ReadInv'
<1>1. UNCHANGED <<state, base, got, inside, idle, sent, records, eof, tls, heads, replies, parsed, split, unheard>>
  BY DEF vars, serverVars, clientVars
<1>2. Top' = Top /\ HeadsInOrder' /\ \A k : Start(k)' = Start(k)
  BY <1>1, ServerStep
<1> QED
  BY <1>1, <1>2, HeadsSame
     DEF ReadInv, ReadTypeOK, ReadShapes, RecordsCover, OneAtATime, WaitsOnlyForMore, WholeUnlessSplit

LEMMA ReadNextInv ==
  ASSUME ReadInv, [Next]_vars
  PROVE  ReadInv'
<1>1. CASE Client
  BY <1>1, AskInv, ArriveInv, TickInv DEF Client
<1>2. CASE Tick
  BY <1>2, TickInv
<1>3. CASE Detect
  BY <1>3, DetectInv
<1>4. CASE Read
  BY <1>4, PartInv, HeadInv DEF Read
<1>5. CASE ReadNothing
  BY <1>5, NothingInv
<1>6. CASE Answered
  BY <1>6, AnsweredInv
<1>7. CASE PeerGone \/ Reap
  BY <1>7, CloseInv DEF PeerGone, Reap
<1>8. CASE Closed \/ UNCHANGED vars
  BY <1>8, ReadStutter DEF Closed
<1> QED
  BY <1>1, <1>2, <1>3, <1>4, <1>5, <1>6, <1>7, <1>8 DEF Next

LEMMA ReadInitInv ==
  ASSUME Init
  PROVE  ReadInv
<1>1. HeadsInOrder /\ Top = 0
  BY DEF Init, HeadsInOrder, Top, Start
<1>2. ReadTypeOK
  BY <1>1, Sizes DEF Init, ReadTypeOK
<1>3. ReadShapes /\ RecordsCover
  <2> DEFINE Pairs == Nat \X Nat
  <2>1. records \in Seq(Nat) /\ 1 .. Len(records) = {}
    BY DEF Init
  <2> HIDE DEF Pairs
  <2>2. parsed \in Seq(Pairs)
    BY DEF Init
  <2>3. ReadShapes
    <3>1. parsed \in Seq(Nat \X Nat)
      BY <2>2 DEF Pairs
    <3>2. {base, got, inside, sent, idle, unheard} \subseteq Nat /\ idle <= unheard
      BY DEF Init
    <3>3. tls \in BOOLEAN /\ split \in BOOLEAN /\ eof \in BOOLEAN
      BY Zenon DEF Init
    <3> QED
      BY <3>1, <3>2, <3>3 DEF ReadShapes
  <2>4. RecordsCover
    BY <2>1 DEF Init, RecordsCover
  <2> QED
    BY <2>3, <2>4
<1>4. OneAtATime
  BY DEF Init, OneAtATime
<1>5. WaitsOnlyForMore /\ WholeUnlessSplit
  BY DEF Init, WaitsOnlyForMore, WholeUnlessSplit, AnswersAreRequests
<1> QED
  BY <1>1, <1>2, <1>3, <1>4, <1>5 DEF ReadInv

--------------------------------------------------------------------------------
(* What follows for every behaviour.                                           *)

\* The invariant of do_read and the client that waits for its answer.
THEOREM ReadInvariance == Spec => []ReadInv
BY ReadInitInv, ReadNextInv, PTL DEF Spec

\* The intervals stay in order and read_buf_ never holds more than the limit and
\* one read.
THEOREM BufferStaysBounded == Spec => []ReadTypeOK
<1>1. ReadInv => ReadTypeOK
  BY DEF ReadInv
<1> QED
  BY <1>1, ReadInvariance, PTL

\* do_read never goes on waiting with a whole head in read_buf_.
THEOREM NeverWaitsOnAWholeHead == Spec => []WaitsOnlyForMore
<1>1. ReadInv => WaitsOnlyForMore
  BY DEF ReadInv
<1> QED
  BY <1>1, ReadInvariance, PTL

\* Answers are answers to whole requests, each once and in order, unless reset()
\* in KEEP_ALIVE dropped part of a head.
THEOREM WholeRequestsAnswered == Spec => []WholeUnlessSplit
<1>1. ReadInv => WholeUnlessSplit
  BY DEF ReadInv
<1> QED
  BY <1>1, ReadInvariance, PTL

\* handle_timer closes no connection that was read from within the timeout.
THEOREM NeverReapsTheHeard == Spec => ReapSparesTheHeard
<1> DEFINE Spared == state = "KEEP_ALIVE" /\ state' = "CLOSED" /\ ~eof /\ got' = got
                       => unheard > TIMEOUT
<1>1. ASSUME ReadInv, [Next]_vars PROVE [Spared]_vars
  <2>1. CASE Reap
    <3>1. idle > TIMEOUT /\ idle <= unheard /\ idle \in Nat /\ unheard \in Nat
      BY <1>1, <2>1 DEF Reap, ReadInv, ReadShapes
    <3> QED
      BY <3>1, Sizes
  <2>2. CASE Read
    <3>1. Reading /\ TakeBytes
      BY <2>2 DEF Read, ReadPart, ReadTooLarge, ReadHead
    <3>2. got' # got
      BY <3>1, <1>1, Takes DEF ReadInv, ReadShapes
    <3> QED
      BY <3>2
  <2>3. CASE \/ Client \/ Tick \/ Detect \/ ReadNothing \/ Answered \/ PeerGone \/ Closed
             \/ UNCHANGED vars
    BY <2>3 DEF Client, Ask, Arrive, HangUp, Tick, Detect, ReadNothing, Answered, PeerGone, Closed,
                vars, serverVars
  <2> QED
    BY <1>1, <2>1, <2>2, <2>3 DEF Next
<1> QED
  BY <1>1, ReadInvariance, PTL DEF Spec, ReapSparesTheHeard
================================================================================
