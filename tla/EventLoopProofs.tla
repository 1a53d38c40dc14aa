---------------------------- MODULE EventLoopProofs -----------------------------
(* Proofs about EventLoop, for every number of slots, descriptors and events.  *)
(* The properties that TLC checks carry each other: an event names a live      *)
(* connection because the registrations do, a batch names it once because it   *)
(* has one registration (NeverDeaf), destroying it is safe because nothing     *)
(* else names it, and the slot that goes back is lent because the connection   *)
(* was live. The invariant LoopInv is their conjunction with what the phases   *)
(* of a round know; the sweep keeps it only without the race of ExpiryRace.    *)
(* The table of slots and nodes is not looked into: a step of the loop is a    *)
(* step of ConnectionTable, whose proofs do the rest.                          *)
EXTENDS EventLoop, ConnectionTableProofs

--------------------------------------------------------------------------------
(* What one call of process_connection may make of a connection.               *)

\* A parsed request belongs to a connection in PARSING, a handshake has its SSL
\* object, and a closed connection has given it up.
ConnOK(k) ==
  /\ k \in ConnRecords
  /\ k.parsed => k.state = "PARSING"
  /\ k.state = "TLS_ACCEPT" => k.ssl
  /\ k.state = "CLOSED" => ~k.ssl

\* The next move is the client's, and only READ tells of it.
Listens(k) == ~k.ssl /\ k.state \in {"PROTO_DETECT", "READING", "KEEP_ALIVE"}

\* What the outcome o of a step on a connection with or without TLS keeps to.
Fits(o, ssl) ==
  /\ o \in [conn : ConnRecords, want : Wants]
  /\ o.conn.parsed => o.conn.state = "PARSING"
  /\ o.conn.state = "CLOSED" \/ (ssl => o.conn.ssl)
  /\ Listens(o.conn) => o.want = "READ"

LEMMA OutFields ==
  ASSUME NEW k, NEW w
  PROVE  Out(k, w).conn = k /\ Out(k, w).want = w
BY DEF Out

LEMMA ClosedFields ==
  /\ ClosedConn \in ConnRecords /\ ClosedConn.state = "CLOSED" /\ ~ClosedConn.parsed
  /\ ~ClosedConn.ssl
  /\ AcceptedConn \in ConnRecords /\ AcceptedConn.state = "PROTO_DETECT"
  /\ ~AcceptedConn.parsed /\ ~AcceptedConn.ssl
BY DEF ClosedConn, AcceptedConn, ConnRecords, States

LEMMA EnterFields ==
  ASSUME NEW k \in ConnRecords, NEW s \in States
  PROVE  /\ Enter(k, s) \in ConnRecords
         /\ Enter(k, s).state = s
         /\ Enter(k, s).ssl = k.ssl
         /\ ~Enter(k, s).parsed
BY DEF Enter, ConnRecords

LEMMA RefreshFields ==
  ASSUME NEW k \in ConnRecords
  PROVE  /\ Refresh(k) \in ConnRecords
         /\ Refresh(k).state = k.state
         /\ Refresh(k).ssl = k.ssl
         /\ Refresh(k).parsed = k.parsed
BY DEF Refresh, ConnRecords

\* An outcome is judged by its connection and its Want.
LEMMA OutFits ==
  ASSUME NEW k \in ConnRecords, k.parsed => k.state = "PARSING",
         NEW w \in Wants, Listens(k) => w = "READ",
         NEW ssl \in BOOLEAN, k.state = "CLOSED" \/ (ssl => k.ssl)
  PROVE  Fits(Out(k, w), ssl)
BY DEF Out, Fits

LEMMA DroppedFits ==
  ASSUME NEW ssl
  PROVE  Fits(Dropped, ssl) /\ Dropped.conn.state = "CLOSED"
BY ClosedFields DEF Dropped, Out, Fits, Wants, Listens

LEMMA RefuseFits ==
  ASSUME NEW k \in ConnRecords
  PROVE  Fits(Refuse(k), k.ssl) /\ Refuse(k).conn.state = "SENDING_HEADERS"
BY EnterFields DEF Refuse, Out, Fits, Wants, Listens, States

LEMMA BlockedFits ==
  ASSUME NEW k \in ConnRecords, k.parsed => k.state = "PARSING",
         NEW w \in Wants, Listens(k) => w = "READ",
         NEW o \in Blocked(k, w)
  PROVE  Fits(o, k.ssl) /\ o.conn = k
<1>1. PICK v \in Wants : o = Out(k, v) /\ (~k.ssl => v = w)
  BY DEF Blocked, Wants
<1> QED
  BY <1>1, OutFits, OutFields DEF Listens, ConnRecords

--------------------------------------------------------------------------------
\* The steps that wait for input or for the end of the handshake.
LEMMA DetectFits ==
  ASSUME NEW k \in ConnRecords, k.state = "PROTO_DETECT", ~k.parsed,
         NEW o \in DoProtoDetect(k)
  PROVE  Fits(o, k.ssl)
<1>1. CASE o = Dropped
  BY <1>1, DroppedFits
<1>2. CASE o = Out(k, "READ")
  BY <1>2, OutFits DEF Wants, ConnRecords
<1>3. CASE o = Out(Enter(Refresh(k), "READING"), "READ")
  BY <1>3, OutFits, EnterFields, RefreshFields DEF Wants, States, ConnRecords
<1>4. CASE o = Out(Enter(k, "TLS_ACCEPT"), "NONE")
  BY <1>4, OutFits, EnterFields DEF Wants, States, Listens, ConnRecords
<1>5. CASE o = Refuse(k)
  BY <1>5, RefuseFits
<1> QED
  BY <1>1, <1>2, <1>3, <1>4, <1>5 DEF DoProtoDetect

LEMMA AcceptFits ==
  ASSUME NEW k \in ConnRecords, k.state = "TLS_ACCEPT", ~k.parsed,
         NEW o \in DoTlsAccept(k)
  PROVE  /\ Fits(o, k.ssl)
         /\ o.conn.state # "CLOSED"
         /\ o.conn.state = "TLS_ACCEPT" => o.conn.ssl
<1>1. CASE o = Refuse(k)
  BY <1>1, RefuseFits
<1>2. CASE k.ssl /\ o \in Blocked(k, "READ")
  BY <1>2, BlockedFits DEF Wants, Listens
<1>3. CASE o = Out(Enter(Refresh(k), "READING"), "READ")
  BY <1>3, OutFits, OutFields, EnterFields, RefreshFields DEF Wants, States, ConnRecords
<1> QED
  BY <1>1, <1>2, <1>3 DEF DoTlsAccept

LEMMA ReadFits ==
  ASSUME NEW k \in ConnRecords, ~k.parsed, NEW o \in DoRead(k)
  PROVE  /\ Fits(o, k.ssl)
         /\ o.conn.state \in {k.state, "CLOSED", "PARSING"}
<1> DEFINE r == Refresh(k)
<1>0. r \in ConnRecords /\ ~r.parsed /\ r.ssl = k.ssl /\ r.state = k.state
  BY RefreshFields
<1> HIDE DEF r
<1>1. CASE o \in Blocked(r, "READ")
  BY <1>0, <1>1, BlockedFits DEF Wants
<1>2. CASE o = Dropped
  BY <1>2, DroppedFits
<1>3. CASE o = Out(r, "READ")
  BY <1>0, <1>3, OutFits, OutFields DEF Wants, ConnRecords
<1>4. ASSUME NEW b \in Requests, o = Out([r EXCEPT !.state = "PARSING", !.buf = b], "NONE")
      PROVE  Fits(o, k.ssl) /\ o.conn.state = "PARSING"
  <2> DEFINE p == [r EXCEPT !.state = "PARSING", !.buf = b]
  <2>1. p \in ConnRecords /\ p.state = "PARSING" /\ p.ssl = r.ssl /\ ~p.parsed
    BY <1>0 DEF ConnRecords, States
  <2> HIDE DEF p
  <2>2. ~Listens(p)
    BY <2>1 DEF Listens
  <2>3. Fits(Out(p, "NONE"), k.ssl)
    BY <1>0, <2>1, <2>2, OutFits DEF Wants, ConnRecords
  <2> QED
    BY <1>4, <2>1, <2>3, OutFields DEF p
<1> QED
  BY <1>1, <1>2, <1>3, <1>4, <1>0 DEF DoRead, r

--------------------------------------------------------------------------------
\* The steps that answer a request.
LEMMA ParseFits ==
  ASSUME NEW k \in ConnRecords, k.state = "PARSING", NEW o \in DoParse(k)
  PROVE  Fits(o, k.ssl) /\ o.conn.state \in {"PARSING", "SENDING_HEADERS"}
<1>1. CASE o = Refuse(k)
  BY <1>1, RefuseFits
<1>2. ASSUME NEW b \in BOOLEAN, o = Out([k EXCEPT !.parsed = b], "NONE")
      PROVE  Fits(o, k.ssl) /\ o.conn.state = "PARSING"
  <2> DEFINE p == [k EXCEPT !.parsed = b]
  <2>1. p \in ConnRecords /\ p.state = "PARSING" /\ p.ssl = k.ssl
    BY DEF ConnRecords
  <2> HIDE DEF p
  <2>2. Fits(Out(p, "NONE"), k.ssl)
    BY <2>1, OutFits DEF Wants, Listens, ConnRecords
  <2> QED
    BY <1>2, <2>1, <2>2, OutFields DEF p
<1> QED
  BY <1>1, <1>2 DEF DoParse

LEMMA BodyFits ==
  ASSUME NEW k \in ConnRecords, ~k.parsed, k.state \in {"SENDING_HEADERS", "SENDING_BODY"},
         NEW mayFail \in BOOLEAN, NEW o \in DoSendBody(k, mayFail)
  PROVE  /\ Fits(o, k.ssl)
         /\ o.conn.state \in {k.state, "KEEP_ALIVE", "CLOSED"}
         /\ o.conn.state = "CLOSED" => mayFail
<1>1. CASE o \in Blocked(k, "WRITE")
  BY <1>1, BlockedFits DEF Wants, Listens
<1>2. CASE o = Out(k, "WRITE")
  BY <1>2, OutFits, OutFields DEF Wants, Listens, ConnRecords
<1>3. CASE o = Out(Enter(k, "KEEP_ALIVE"), "READ")
  BY <1>3, OutFits, OutFields, EnterFields DEF Wants, States, ConnRecords
<1>4. CASE mayFail /\ o = Dropped
  BY <1>4, DroppedFits
<1> QED
  BY <1>1, <1>2, <1>3, <1>4 DEF DoSendBody

LEMMA HeadersFit ==
  ASSUME NEW k \in ConnRecords, k.parsed => k.state = "PARSING",
         k.state \in {"PARSING", "SENDING_HEADERS"},
         NEW mayFail \in BOOLEAN, NEW o \in DoSendHeaders(k, mayFail)
  PROVE  /\ Fits(o, k.ssl)
         /\ o.conn.state # "TLS_ACCEPT"
         /\ o.conn.state = "CLOSED" => mayFail
<1>1. CASE o \in Blocked(k, "WRITE")
  BY <1>1, BlockedFits DEF Wants, Listens
<1>2. CASE o = Out(k, "WRITE")
  BY <1>2, OutFits, OutFields DEF Wants, Listens, ConnRecords
<1>3. CASE o = Out(Enter(k, "KEEP_ALIVE"), "READ")
  BY <1>3, OutFits, OutFields, EnterFields DEF Wants, States, ConnRecords
<1>4. CASE o \in DoSendBody(Enter(k, "SENDING_BODY"), mayFail)
  <2> DEFINE b == Enter(k, "SENDING_BODY")
  <2>1. b \in ConnRecords /\ b.state = "SENDING_BODY" /\ b.ssl = k.ssl /\ ~b.parsed
    BY EnterFields DEF States
  <2> HIDE DEF b
  <2>2. o \in DoSendBody(b, mayFail)
    BY <1>4 DEF b
  <2> QED
    BY <2>1, <2>2, BodyFits
<1>5. CASE mayFail /\ o = Dropped
  BY <1>5, DroppedFits
<1> QED
  BY <1>1, <1>2, <1>3, <1>4, <1>5 DEF DoSendHeaders

--------------------------------------------------------------------------------
\* The first step of process_connection, whatever the state of the connection.
LEMMA RunStateFits ==
  ASSUME NEW k, ConnOK(k), k.state # "CLOSED", NEW o \in RunState(k)
  PROVE  /\ Fits(o, k.ssl)
         /\ o.conn.state = "TLS_ACCEPT" /\ ~o.conn.ssl => ~o.conn.parsed
<1>1. CASE k.state = "PROTO_DETECT"
  BY <1>1, DetectFits DEF RunState, ConnOK, Fits
<1>2. CASE k.state = "TLS_ACCEPT"
  BY <1>2, AcceptFits DEF RunState, ConnOK, Fits
<1>3. CASE k.state = "READING"
  BY <1>3, ReadFits DEF RunState, ConnOK, Fits
<1>4. CASE k.state = "PARSING"
  BY <1>4, ParseFits DEF RunState, ConnOK, Fits
<1>5. CASE k.state = "SENDING_HEADERS"
  BY <1>5, HeadersFit DEF RunState, ConnOK, Fits
<1>6. CASE k.state = "SENDING_BODY"
  BY <1>6, BodyFits DEF RunState, ConnOK, Fits
<1>7. CASE k.state = "KEEP_ALIVE"
  <2>1. Reset(k) \in ConnRecords /\ ~Reset(k).parsed /\ Reset(k).ssl = k.ssl
    BY EnterFields DEF Reset, ConnOK, ConnRecords
  <2>2. o \in DoRead(Reset(k))
    BY <1>7 DEF RunState
  <2> QED
    BY <2>1, <2>2, ReadFits DEF Fits
<1> QED
  BY <1>1, <1>2, <1>3, <1>4, <1>5, <1>6, <1>7 DEF ConnOK, ConnRecords, States

\* With the handshake started at once.
LEMMA InjectFits ==
  ASSUME NEW k, ConnOK(k), k.state # "CLOSED", NEW o \in RunState(k), NEW p \in InjectSsl(o)
  PROVE  /\ Fits(p, k.ssl)
         /\ p.conn.state = "TLS_ACCEPT" => p.conn.ssl
<1>0. Fits(o, k.ssl) /\ k.ssl \in BOOLEAN
  BY RunStateFits DEF ConnOK, ConnRecords
<1>1. CASE o.conn.state = "TLS_ACCEPT" /\ ~o.conn.ssl
  <2>1. PICK b \in BOOLEAN : p \in DoTlsAccept([o.conn EXCEPT !.ssl = b])
    BY <1>1 DEF InjectSsl
  <2> DEFINE q == [o.conn EXCEPT !.ssl = b]
  <2>2. q \in ConnRecords /\ q.state = "TLS_ACCEPT" /\ ~q.parsed
    BY <1>0, <1>1 DEF Fits, ConnRecords
  <2>3. ~k.ssl
    BY <1>0, <1>1 DEF Fits
  <2> HIDE DEF q
  <2>4. p \in DoTlsAccept(q)
    BY <2>1 DEF q
  <2>5. Fits(p, q.ssl) /\ (p.conn.state = "TLS_ACCEPT" => p.conn.ssl)
    BY <2>2, <2>4, AcceptFits
  <2> QED
    BY <2>3, <2>5 DEF Fits
<1>2. CASE ~(o.conn.state = "TLS_ACCEPT" /\ ~o.conn.ssl)
  BY <1>0, <1>2 DEF InjectSsl
<1> QED
  BY <1>1, <1>2

\* The whole chain: what a connection that lives on looks like, what it asks
\* for, and that it can have been closed only by a write.
LEMMA CarriedFits ==
  ASSUME NEW k, ConnOK(k), k.state # "CLOSED", NEW o \in Carried(k)
  PROVE  /\ o.conn.state # "CLOSED" => ConnOK(o.conn)
         /\ o.want \in Wants
         /\ o.conn.state = "CLOSED" \/ (k.ssl => o.conn.ssl)
         /\ Listens(o.conn) => o.want = "READ"
         /\ o.conn.state = "CLOSED" => InlineSendMayFail
<1>0. k.ssl \in BOOLEAN /\ InlineSendMayFail \in BOOLEAN
  BY ControlAssumption DEF ConnOK, ConnRecords
<1>1. PICK s, i, p : /\ s \in RunState(k)
                    /\ i \in InjectSsl(s) /\ i.conn.state # "CLOSED"
                    /\ p \in InlineParse(i)
                    /\ o \in Respond(p)
  <2> DEFINE alive == (UNION {InjectSsl(s) : s \in RunState(k)}) \ Died(k)
  <2>1. o \in UNION {Respond(p) : p \in UNION {InlineParse(j) : j \in alive}}
    BY DEF Carried
  <2>2. PICK p \in UNION {InlineParse(j) : j \in alive} : o \in Respond(p)
    BY <2>1
  <2>3. PICK i \in alive : p \in InlineParse(i)
    BY <2>2
  <2>4. PICK s \in RunState(k) : i \in InjectSsl(s)
    BY <2>3
  <2>5. i.conn.state # "CLOSED"
    <3>1. i \in UNION {InjectSsl(t) : t \in RunState(k)} /\ i \notin Died(k)
      BY <2>3
    <3> QED
      BY <3>1, Zenon DEF Died
  <2> QED
    BY <2>2, <2>3, <2>4, <2>5
<1>2. Fits(i, k.ssl) /\ (i.conn.state = "TLS_ACCEPT" => i.conn.ssl)
  BY <1>1, InjectFits
<1>3. Fits(p, k.ssl) /\ (p.conn.state = "TLS_ACCEPT" => p.conn.ssl) /\ p.conn.state # "CLOSED"
  <2>1. CASE i.conn.state = "PARSING" /\ ~i.conn.parsed
    <3>1. p \in DoParse(i.conn) /\ i.conn \in ConnRecords /\ (k.ssl => i.conn.ssl)
      BY <1>1, <1>2, <2>1 DEF InlineParse, Fits
    <3>2. Fits(p, i.conn.ssl) /\ p.conn.state \in {"PARSING", "SENDING_HEADERS"}
      BY <2>1, <3>1, ParseFits
    <3> QED
      BY <3>1, <3>2 DEF Fits
  <2>2. CASE ~(i.conn.state = "PARSING" /\ ~i.conn.parsed)
    BY <1>1, <1>2, <2>2 DEF InlineParse
  <2> QED
    BY <2>1, <2>2
<1>4. /\ Fits(o, k.ssl)
      /\ o.conn.state = "TLS_ACCEPT" => o.conn.ssl
      /\ o.conn.state = "CLOSED" => InlineSendMayFail
  <2>1. CASE p.conn.state \in {"PARSING", "READING"} /\ p.conn.parsed
    <3>1. /\ o \in DoSendHeaders(p.conn, InlineSendMayFail)
          /\ p.conn \in ConnRecords /\ p.conn.state = "PARSING" /\ (k.ssl => p.conn.ssl)
      BY <1>1, <1>3, <2>1 DEF Respond, Fits
    <3>2. /\ Fits(o, p.conn.ssl)
          /\ o.conn.state # "TLS_ACCEPT"
          /\ o.conn.state = "CLOSED" => InlineSendMayFail
      BY <1>0, <3>1, HeadersFit
    <3> QED
      BY <3>1, <3>2 DEF Fits
  <2>2. CASE ~(p.conn.state \in {"PARSING", "READING"} /\ p.conn.parsed)
    BY <1>1, <1>3, <2>2 DEF Respond
  <2> QED
    BY <2>1, <2>2
<1> QED
  BY <1>4 DEF Fits, ConnOK
--------------------------------------------------------------------------------
(* What a queue of changes makes of a registration.                            *)

Changes ==
  [op : {"ADD", "DELETE"}, fd : Fds, filter : Filters, udata : Slots \union {NoConn}]

\* The change ch is about the filter x of the descriptor f.
About(ch, f, x) == ch.fd = f /\ ch.filter = x

\* The registration of filter x on f once the changes cl are applied to q.
RegIn(cl, q, f, x) ==
  LET mine == {i \in 1 .. Len(cl) : cl[i].fd = f /\ cl[i].filter = x}
  IN IF mine = {} THEN q[f][x]
     ELSE cl[CHOOSE i \in mine : \A j \in mine : j <= i].udata

LEMMA RegisteredIsRegIn ==
  ASSUME NEW f, NEW x
  PROVE  /\ Registered(f, x) = RegIn(changelist, kq, f, x)
         /\ Registered(f, x)' = RegIn(changelist', kq', f, x)
BY DEF Registered, RegIn

\* i is the last change in cl about x of f.
LastAbout(cl, f, x, i) ==
  /\ i \in 1 .. Len(cl) /\ About(cl[i], f, x)
  /\ \A j \in 1 .. Len(cl) : About(cl[j], f, x) => j <= i

\* The last change decides, ...
LEMMA RegLast ==
  ASSUME NEW cl, Len(cl) \in Nat, NEW q, NEW f, NEW x, NEW i, LastAbout(cl, f, x, i)
  PROVE  RegIn(cl, q, f, x) = cl[i].udata
<1> DEFINE mine == {k \in 1 .. Len(cl) : cl[k].fd = f /\ cl[k].filter = x}
           P(k) == k \in mine /\ \A j \in mine : j <= k
<1>1. P(i) /\ mine # {}
  BY DEF LastAbout, About
<1>2. \A k : P(k) => k = i
  BY <1>1
<1>3. (CHOOSE k \in mine : \A j \in mine : j <= k) = i
  BY <1>1, <1>2
<1> QED
  BY <1>1, <1>3 DEF RegIn

\* ... and without any the registration stays.
LEMMA RegNone ==
  ASSUME NEW cl, NEW q, NEW f, NEW x, \A j \in 1 .. Len(cl) : ~About(cl[j], f, x)
  PROVE  RegIn(cl, q, f, x) = q[f][x]
BY DEF RegIn, About

\* There is a last change unless there is none: by induction on the number of
\* changes that are left behind it.
LEMMA SomeLast ==
  ASSUME NEW cl, Len(cl) \in Nat, NEW f, NEW x, NEW k \in 1 .. Len(cl), About(cl[k], f, x)
  PROVE  \E i : LastAbout(cl, f, x, i)
<1> DEFINE T == {n \in Nat : \A m \in 1 .. Len(cl) :
                   About(cl[m], f, x) /\ Len(cl) - m <= n => \E i : LastAbout(cl, f, x, i)}
<1>1. 0 \in T
  <2> SUFFICES ASSUME NEW m \in 1 .. Len(cl), About(cl[m], f, x), Len(cl) - m <= 0
               PROVE  \E i : LastAbout(cl, f, x, i)
    OBVIOUS
  <2>1. LastAbout(cl, f, x, m)
    BY DEF LastAbout
  <2> QED
    BY <2>1
<1>2. ASSUME NEW n \in T PROVE n + 1 \in T
  <2> SUFFICES ASSUME NEW m \in 1 .. Len(cl), About(cl[m], f, x), Len(cl) - m <= n + 1
               PROVE  \E i : LastAbout(cl, f, x, i)
    BY <1>2
  <2>1. CASE \A j \in 1 .. Len(cl) : About(cl[j], f, x) => j <= m
    <3>1. LastAbout(cl, f, x, m)
      BY <2>1 DEF LastAbout
    <3> QED
      BY <3>1
  <2>2. ASSUME NEW j \in 1 .. Len(cl), About(cl[j], f, x), ~(j <= m)
        PROVE  \E i : LastAbout(cl, f, x, i)
    <3>1. Len(cl) - j <= n
      BY <1>2, <2>2
    <3> QED
      BY <1>2, <2>2, <3>1
  <2> QED
    BY <2>1, <2>2
<1>3. T = Nat
  <2> HIDE DEF T
  <2>1. T \in SUBSET Nat
    BY DEF T
  <2> QED
    BY <1>1, <1>2, <2>1, NatSetInduction
<1>4. Len(cl) - k \in T
  BY <1>3
<1> QED
  BY <1>4

\* A change that is queued decides about its filter, and about no other.
LEMMA RegAppend ==
  ASSUME NEW cl \in Seq(Changes), NEW ch \in Changes, NEW q, NEW f, NEW x
  PROVE  RegIn(Append(cl, ch), q, f, x) =
           IF About(ch, f, x) THEN ch.udata ELSE RegIn(cl, q, f, x)
<1> DEFINE more == Append(cl, ch)
<1>1. /\ Len(cl) \in Nat /\ Len(more) = Len(cl) + 1
      /\ more[Len(cl) + 1] = ch
      /\ \A i \in 1 .. Len(cl) : more[i] = cl[i]
  OBVIOUS
<1>2. \A i \in 1 .. Len(more) : i \in 1 .. Len(cl) \/ i = Len(cl) + 1
  BY <1>1
<1> HIDE DEF more
<1>3. CASE About(ch, f, x)
  <2>1. LastAbout(more, f, x, Len(cl) + 1)
    BY <1>1, <1>3 DEF LastAbout
  <2>2. RegIn(more, q, f, x) = more[Len(cl) + 1].udata
    BY <1>1, <2>1, RegLast
  <2> QED
    BY <1>1, <1>3, <2>2 DEF more
<1>4. CASE ~About(ch, f, x) /\ \A j \in 1 .. Len(cl) : ~About(cl[j], f, x)
  <2>1. \A j \in 1 .. Len(more) : ~About(more[j], f, x)
    BY <1>1, <1>2, <1>4
  <2>2. RegIn(more, q, f, x) = q[f][x] /\ RegIn(cl, q, f, x) = q[f][x]
    BY <1>4, <2>1, RegNone
  <2> QED
    BY <1>4, <2>2 DEF more
<1>5. ASSUME ~About(ch, f, x), NEW k \in 1 .. Len(cl), About(cl[k], f, x)
      PROVE  RegIn(more, q, f, x) = RegIn(cl, q, f, x)
  <2>1. PICK i : LastAbout(cl, f, x, i)
    BY <1>1, <1>5, SomeLast
  <2>2. LastAbout(more, f, x, i) /\ more[i] = cl[i]
    BY <1>1, <1>2, <1>5, <2>1 DEF LastAbout
  <2>3. RegIn(more, q, f, x) = more[i].udata
    BY <1>1, <2>2, RegLast
  <2>4. RegIn(cl, q, f, x) = cl[i].udata
    BY <1>1, <2>1, RegLast
  <2> QED
    BY <2>2, <2>3, <2>4
<1> QED
  BY <1>3, <1>4, <1>5 DEF more

\* A change that is carried out, or dropped where it would have changed nothing,
\* leaves the outlook as it was.
LEMMA RegTail ==
  ASSUME NEW cl \in Seq(Changes), cl # <<>>, NEW q, NEW r, NEW f, NEW x,
         r[f][x] = IF About(Head(cl), f, x) THEN Head(cl).udata ELSE q[f][x]
  PROVE  RegIn(Tail(cl), r, f, x) = RegIn(cl, q, f, x)
<1> DEFINE rest == Tail(cl)
<1>1. /\ Len(cl) \in Nat /\ Len(cl) >= 1 /\ Head(cl) = cl[1]
      /\ Len(rest) = Len(cl) - 1 /\ Len(rest) \in Nat
      /\ \A i \in 1 .. Len(rest) : rest[i] = cl[i + 1]
  OBVIOUS
<1>2. /\ \A i \in 1 .. Len(rest) : i + 1 \in 1 .. Len(cl)
      /\ \A i \in 1 .. Len(cl) : i = 1 \/ (i - 1 \in 1 .. Len(rest) /\ rest[i - 1] = cl[i])
  <2>1. \A i \in 1 .. Len(cl) : i = 1 \/ (i - 1 \in 1 .. Len(rest) /\ (i - 1) + 1 = i)
    BY <1>1
  <2> QED
    BY <1>1, <2>1
<1> HIDE DEF rest
<1>3. ASSUME NEW k \in 1 .. Len(rest), About(rest[k], f, x)
      PROVE  RegIn(rest, r, f, x) = RegIn(cl, q, f, x)
  <2>1. PICK i : LastAbout(rest, f, x, i)
    BY <1>1, <1>3, SomeLast
  <2>2. LastAbout(cl, f, x, i + 1) /\ cl[i + 1] = rest[i]
    <3>1. i \in 1 .. Len(rest) /\ i + 1 \in 1 .. Len(cl) /\ cl[i + 1] = rest[i]
      BY <1>1, <1>2, <2>1 DEF LastAbout
    <3>2. ASSUME NEW j \in 1 .. Len(cl), About(cl[j], f, x) PROVE j <= i + 1
      BY <1>1, <1>2, <2>1, <3>1, <3>2 DEF LastAbout
    <3> QED
      BY <2>1, <3>1, <3>2 DEF LastAbout
  <2>3. RegIn(rest, r, f, x) = rest[i].udata
    BY <1>1, <2>1, RegLast
  <2>4. RegIn(cl, q, f, x) = cl[i + 1].udata
    BY <1>1, <2>2, RegLast
  <2> QED
    BY <2>2, <2>3, <2>4
<1>4. CASE \A j \in 1 .. Len(rest) : ~About(rest[j], f, x)
  <2>1. RegIn(rest, r, f, x) = r[f][x]
    BY <1>4, RegNone
  <2>2. CASE About(cl[1], f, x)
    <3>1. LastAbout(cl, f, x, 1)
      BY <1>1, <1>2, <1>4, <2>2 DEF LastAbout
    <3>2. RegIn(cl, q, f, x) = cl[1].udata
      BY <1>1, <3>1, RegLast
    <3> QED
      BY <1>1, <2>1, <2>2, <3>2 DEF rest
  <2>3. CASE ~About(cl[1], f, x)
    <3>1. RegIn(cl, q, f, x) = q[f][x]
      BY <1>2, <1>4, <2>3, RegNone
    <3> QED
      BY <1>1, <2>1, <2>3, <3>1 DEF rest
  <2> QED
    BY <2>2, <2>3
<1> QED
  BY <1>3, <1>4 DEF rest

\* Two changes at once.
LEMMA RegTwoMore ==
  ASSUME NEW cl \in Seq(Changes), NEW a \in Changes, NEW b \in Changes, NEW q, NEW f, NEW x
  PROVE  RegIn(cl \o <<a, b>>, q, f, x) =
           IF About(b, f, x) THEN b.udata
           ELSE IF About(a, f, x) THEN a.udata ELSE RegIn(cl, q, f, x)
<1> DEFINE one == Append(cl, a)
<1>1. one \in Seq(Changes) /\ cl \o <<a, b>> = Append(one, b)
  OBVIOUS
<1>2. RegIn(one, q, f, x) = IF About(a, f, x) THEN a.udata ELSE RegIn(cl, q, f, x)
  BY RegAppend
<1> HIDE DEF one
<1>3. RegIn(Append(one, b), q, f, x) =
        IF About(b, f, x) THEN b.udata ELSE RegIn(one, q, f, x)
  BY <1>1, RegAppend
<1> QED
  BY <1>1, <1>2, <1>3

\* The kernel's registrations matter at f and x alone.
LEMMA RegElsewhere ==
  ASSUME NEW cl, NEW q, NEW r, NEW f, NEW x, r[f][x] = q[f][x]
  PROVE  RegIn(cl, r, f, x) = RegIn(cl, q, f, x)
BY DEF RegIn

\* What is registered was registered by somebody.
LEMMA RegSource ==
  ASSUME NEW cl \in Seq(Changes), NEW q, NEW f, NEW x
  PROVE  \/ RegIn(cl, q, f, x) = q[f][x]
         \/ \E i \in 1 .. Len(cl) : About(cl[i], f, x) /\ RegIn(cl, q, f, x) = cl[i].udata
<1>1. Len(cl) \in Nat
  OBVIOUS
<1>2. ASSUME NEW k \in 1 .. Len(cl), About(cl[k], f, x)
      PROVE  \E i \in 1 .. Len(cl) : About(cl[i], f, x) /\ RegIn(cl, q, f, x) = cl[i].udata
  <2>1. PICK i : LastAbout(cl, f, x, i)
    BY <1>1, <1>2, SomeLast
  <2>2. RegIn(cl, q, f, x) = cl[i].udata
    BY <1>1, <2>1, RegLast
  <2> QED
    BY <2>1, <2>2 DEF LastAbout
<1> QED
  BY <1>2, RegNone

--------------------------------------------------------------------------------
(* The inductive invariant, in three parts: the connections with the kernel's  *)
(* registrations, the queue of changes, and the round of the loop.             *)

SockTypes ==
  /\ conn \in [Slots -> ConnRecords]
  /\ fd_ \in [Slots -> Fds \union {NoFd}]
  /\ open_fds \subseteq Fds
  /\ kq \in [Fds -> [Filters -> Slots \union {NoConn}]]

\* A registration in the kernel names a connection by the descriptor it owns.
KqFresh == \A f \in Fds, x \in Filters : kq[f][x] # NoConn => f = fd_[kq[f][x]]

StoreInv ==
  /\ TableInv /\ ChainInv
  /\ SockTypes
  /\ \A c \in Slots : ConnOK(conn[c])
  /\ Live \subseteq lent
  /\ DescriptorsOwned
  /\ \A c \in Slots : in_keepalive_list[c] <=> conn[c].state = "KEEP_ALIVE"
  /\ KqFresh

\* The loop has not ended.
Runs == pc \notin {"stopped", "crashed"}

QueueInv ==
  /\ changelist \in Seq(Changes)
  /\ \A i \in 1 .. Len(changelist) :
       /\ changelist[i].op = "ADD" <=> changelist[i].udata # NoConn
       /\ changelist[i].udata \in Slots => changelist[i].fd = fd_[changelist[i].udata]
  /\ NeverDeaf

Events ==
  [flag : {"none", "EOF", "ERROR"}, fd : Fds \union {NoFd}, filter : Filters,
   udata : Slots \union {NoConn, Listener, Timer}]

\* An event names a live connection by its descriptor, no two events of a batch
\* the same, and none whose registration is under way.
BatchFresh ==
  /\ events \in Seq(Events)
  /\ \A i \in 1 .. Len(events) : events[i].udata \in Slots =>
       /\ events[i].fd \in Fds
       /\ events[i].fd = fd_[events[i].udata]
       /\ \A j \in 1 .. Len(events) : events[j].udata = events[i].udata => i = j
       /\ \A j \in 1 .. Len(changelist) : changelist[j].udata # events[i].udata

\* The batch is used up before the next round, kevent finds no fault with the
\* registration of a live connection, and it returns what is registered.
RoundInv ==
  /\ pc \in {"check", "submit", "wait", "dispatch", "accept", "sweep", "stopped", "crashed"}
  /\ cursor \in Slots \union {NoConn}
  /\ g_running \in BOOLEAN
  /\ crowd \in 0 .. MAX_CONNECTIONS
  /\ pc = "check" => events = <<>>
  /\ pc = "submit" => \A i \in 1 .. Len(events) : events[i].udata = NoConn
  /\ pc = "wait" =>
       /\ changelist = <<>>
       /\ \A i \in 1 .. Len(events) : events[i].udata \in Slots =>
            kq[events[i].fd][events[i].filter] = events[i].udata
  /\ pc = "sweep" /\ cursor # NoConn => in_keepalive_list[cursor]

LoopInv == StoreInv /\ QueueInv /\ BatchFresh /\ RoundInv

--------------------------------------------------------------------------------
(* What close, update, create and a registration do to the connections.        *)

LEMMA SlotIsNoNull ==
  /\ NoConn \notin Slots /\ Listener \notin Slots /\ Timer \notin Slots
  /\ NoConn # Listener /\ NoConn # Timer
BY PoolAssumption DEF Slots, NoConn, Listener, Timer

LEMMA Owns ==
  ASSUME StoreInv, NEW c \in Slots
  PROVE  /\ c \in Live <=> conn[c].state # "CLOSED"
         /\ c \in Live <=> fd_[c] # NoFd
         /\ c \in Live <=> fd_[c] \in Fds
         /\ c \in Live => fd_[c] \in open_fds
BY LoopAssumption DEF StoreInv, SockTypes, DescriptorsOwned, Live

LEMMA ClosesTo ==
  ASSUME StoreInv, NEW c \in Live, Close(c)
  PROVE  /\ \A d \in Slots : conn'[d] = IF d = c THEN ClosedConn ELSE conn[d]
         /\ \A d \in Slots : fd_'[d] = IF d = c THEN NoFd ELSE fd_[d]
         /\ open_fds' = open_fds \ {fd_[c]}
         /\ \A f \in Fds, x \in Filters :
              kq'[f][x] = IF f = fd_[c] THEN NoConn ELSE kq[f][x]
         /\ SockTypes'
         /\ Live' = Live \ {c}
<1>1. c \in Slots /\ conn[c].state # "CLOSED" /\ fd_[c] \in Fds
  BY Owns DEF Live
<1>2. /\ conn' = [conn EXCEPT ![c] = ClosedConn]
      /\ fd_' = [fd_ EXCEPT ![c] = NoFd]
      /\ open_fds' = open_fds \ {fd_[c]}
      /\ kq' = [kq EXCEPT ![fd_[c]] = [x \in Filters |-> NoConn]]
  BY <1>1 DEF Close
<1>3. \A d \in Slots : conn'[d] = IF d = c THEN ClosedConn ELSE conn[d]
  BY <1>1, <1>2 DEF StoreInv, SockTypes
<1>4. \A d \in Slots : fd_'[d] = IF d = c THEN NoFd ELSE fd_[d]
  BY <1>1, <1>2 DEF StoreInv, SockTypes
<1>5. \A f \in Fds, x \in Filters :
        kq'[f][x] = IF f = fd_[c] THEN NoConn ELSE kq[f][x]
  BY <1>1, <1>2 DEF StoreInv, SockTypes
<1>6. SockTypes'
  BY <1>1, <1>2, ClosedFields DEF StoreInv, SockTypes
<1>7. Live' = Live \ {c}
  BY <1>3, ClosedFields DEF Live
<1> QED
  BY <1>2, <1>3, <1>4, <1>5, <1>6, <1>7

\* A connection is closed; its slot may go back to the pool, its node leaves
\* the list.
LEMMA CloseStore ==
  ASSUME StoreInv, NEW c \in Live, Close(c), TableInv', ChainInv', lent \ {c} \subseteq lent',
         \A d \in Slots : in_keepalive_list'[d] <=> in_keepalive_list[d] /\ d # c
  PROVE  StoreInv'
<1>1. /\ \A d \in Slots : conn'[d] = IF d = c THEN ClosedConn ELSE conn[d]
      /\ \A d \in Slots : fd_'[d] = IF d = c THEN NoFd ELSE fd_[d]
      /\ open_fds' = open_fds \ {fd_[c]}
      /\ \A f \in Fds, x \in Filters :
           kq'[f][x] = IF f = fd_[c] THEN NoConn ELSE kq[f][x]
      /\ SockTypes'
      /\ Live' = Live \ {c}
  BY ClosesTo
<1>2. \A d \in Slots : ConnOK(conn'[d])
  BY <1>1, ClosedFields DEF StoreInv, ConnOK
<1>3. Live' \subseteq lent'
  BY <1>1 DEF StoreInv
<1>4. DescriptorsOwned'
  <2>1. \A d \in Slots : fd_'[d] = NoFd <=> d \notin Live'
    BY <1>1 DEF StoreInv, DescriptorsOwned
  <2>2. \A d, e \in Live' : fd_'[d] = fd_'[e] => d = e
    BY <1>1 DEF StoreInv, DescriptorsOwned, Live
  <2>3. open_fds' = {fd_'[d] : d \in Live'}
    BY <1>1 DEF StoreInv, DescriptorsOwned, Live
  <2> QED
    BY <2>1, <2>2, <2>3 DEF DescriptorsOwned
<1>5. \A d \in Slots : in_keepalive_list'[d] <=> conn'[d].state = "KEEP_ALIVE"
  BY <1>1, ClosedFields DEF StoreInv
<1>6. KqFresh'
  <2> SUFFICES ASSUME NEW f \in Fds, NEW x \in Filters, kq'[f][x] # NoConn
               PROVE  f = fd_'[kq'[f][x]]
    BY DEF KqFresh
  <2>1. f # fd_[c] /\ kq'[f][x] = kq[f][x]
    BY <1>1
  <2>2. kq[f][x] \in Slots /\ f = fd_[kq[f][x]]
    BY <2>1 DEF StoreInv, SockTypes, KqFresh
  <2> QED
    BY <1>1, <2>1, <2>2
<1> QED
  BY <1>1, <1>2, <1>3, <1>4, <1>5, <1>6 DEF StoreInv

\* A live connection takes on another control state and stays live.
LEMMA UpdateStore ==
  ASSUME StoreInv, NEW c \in Live, NEW k, ConnOK(k), k.state # "CLOSED",
         conn' = [conn EXCEPT ![c] = k], UNCHANGED <<fd_, open_fds, kq, lent>>,
         TableInv', ChainInv',
         \A d \in Slots : in_keepalive_list'[d] <=>
                           IF d = c THEN k.state = "KEEP_ALIVE" ELSE in_keepalive_list[d]
  PROVE  StoreInv' /\ Live' = Live
<1>1. c \in Slots /\ k \in ConnRecords
  BY DEF Live, ConnOK
<1>2. \A d \in Slots : conn'[d] = IF d = c THEN k ELSE conn[d]
  BY <1>1 DEF StoreInv, SockTypes
<1>3. Live' = Live
  BY <1>2 DEF Live
<1>4. SockTypes'
  BY <1>1 DEF StoreInv, SockTypes
<1>5. \A d \in Slots : ConnOK(conn'[d])
  BY <1>2 DEF StoreInv
<1>6. \A d \in Slots : in_keepalive_list'[d] <=> conn'[d].state = "KEEP_ALIVE"
  BY <1>2 DEF StoreInv
<1>7. DescriptorsOwned' /\ KqFresh' /\ Live' \subseteq lent'
  BY <1>3 DEF StoreInv, DescriptorsOwned, KqFresh
<1> QED
  BY <1>3, <1>4, <1>5, <1>6, <1>7 DEF StoreInv

\* A socket that was just accepted takes a free slot.
LEMMA OpensTo ==
  ASSUME StoreInv, NEW s \in Slots, NEW f \in Fds \ open_fds, CreateConnection(s, f)
  PROVE  /\ s \notin Live
         /\ \A d \in Slots : conn'[d] = IF d = s THEN AcceptedConn ELSE conn[d]
         /\ \A d \in Slots : fd_'[d] = IF d = s THEN f ELSE fd_[d]
         /\ open_fds' = open_fds \union {f}
         /\ lent' = lent \union {s}
         /\ Live' = Live \union {s}
<1>1. TableOpen(s)
  BY DEF CreateConnection, TableOpen
<1>2. s \notin lent
  BY AcquireInv DEF CreateConnection, StoreInv, TableInv
<1>3. s \notin Live
  BY <1>2 DEF StoreInv
<1>4. \A d \in Slots : conn'[d] = IF d = s THEN AcceptedConn ELSE conn[d]
  BY DEF CreateConnection, StoreInv, SockTypes
<1>5. \A d \in Slots : fd_'[d] = IF d = s THEN f ELSE fd_[d]
  BY DEF CreateConnection, StoreInv, SockTypes
<1>6. Live' = Live \union {s}
  BY <1>4, ClosedFields DEF Live
<1> QED
  BY <1>3, <1>4, <1>5, <1>6 DEF CreateConnection, Acquire

LEMMA OpenStore ==
  ASSUME StoreInv, NEW s \in Slots, NEW f \in Fds \ open_fds, CreateConnection(s, f),
         UNCHANGED kq, TableInv', ChainInv'
  PROVE  StoreInv'
<1>1. /\ s \notin Live
      /\ \A d \in Slots : conn'[d] = IF d = s THEN AcceptedConn ELSE conn[d]
      /\ \A d \in Slots : fd_'[d] = IF d = s THEN f ELSE fd_[d]
      /\ open_fds' = open_fds \union {f}
      /\ lent' = lent \union {s}
      /\ Live' = Live \union {s}
  BY OpensTo
<1>2. SockTypes'
  BY ClosedFields DEF CreateConnection, StoreInv, SockTypes
<1>3. \A d \in Slots : ConnOK(conn'[d])
  BY <1>1, ClosedFields DEF StoreInv, ConnOK
<1>4. Live' \subseteq lent'
  BY <1>1 DEF StoreInv
<1>5. DescriptorsOwned'
  <2>1. \A d \in Slots : fd_'[d] = NoFd <=> d \notin Live'
    BY <1>1, LoopAssumption DEF StoreInv, DescriptorsOwned
  <2>2. \A d \in Live : fd_'[d] = fd_[d] /\ fd_[d] \in open_fds
    BY <1>1 DEF StoreInv, DescriptorsOwned, Live
  <2>3. \A d, e \in Live' : fd_'[d] = fd_'[e] => d = e
    BY <1>1, <2>2 DEF StoreInv, DescriptorsOwned
  <2>4. open_fds' = {fd_'[d] : d \in Live'}
    BY <1>1, <2>2 DEF StoreInv, DescriptorsOwned
  <2> QED
    BY <2>1, <2>3, <2>4 DEF DescriptorsOwned
<1>6. \A d \in Slots : in_keepalive_list'[d] <=> conn'[d].state = "KEEP_ALIVE"
  <2>1. \A d \in Slots : in_keepalive_list'[d] <=> in_keepalive_list[d] /\ d # s
    BY DEF CreateConnection, ClearListNode, StoreInv, TableInv, ListInv, ListTypeOK
  <2> QED
    BY <1>1, <2>1, ClosedFields DEF StoreInv
<1>7. KqFresh'
  <2> SUFFICES ASSUME NEW g \in Fds, NEW x \in Filters, kq[g][x] # NoConn
               PROVE  g = fd_'[kq[g][x]]
    BY DEF KqFresh
  <2>1. kq[g][x] \in Slots /\ g = fd_[kq[g][x]]
    BY DEF StoreInv, SockTypes, KqFresh
  <2>2. kq[g][x] # s
    BY <1>1, <2>1, Owns
  <2> QED
    BY <1>1, <2>1, <2>2
<1> QED
  BY <1>2, <1>3, <1>4, <1>5, <1>6, <1>7 DEF StoreInv

\* The kernel takes over a change of a descriptor.
LEMMA ApplyStore ==
  ASSUME StoreInv, NEW ch \in Changes,
         ch.udata \in Slots => ch.fd = fd_[ch.udata],
         kq' = [kq EXCEPT ![ch.fd][ch.filter] = ch.udata],
         UNCHANGED <<poolVars, listVars, conn, fd_, open_fds>>, TableInv', ChainInv'
  PROVE  /\ StoreInv'
         /\ \A f \in Fds, x \in Filters :
              kq'[f][x] = IF About(ch, f, x) THEN ch.udata ELSE kq[f][x]
<1>1. /\ ch.fd \in Fds /\ ch.filter \in Filters /\ ch.udata \in Slots \union {NoConn}
  BY DEF Changes
<1>2. \A f \in Fds, x \in Filters :
        kq'[f][x] = IF About(ch, f, x) THEN ch.udata ELSE kq[f][x]
  BY <1>1 DEF StoreInv, SockTypes, About
<1>3. SockTypes'
  BY <1>1 DEF StoreInv, SockTypes
<1>4. KqFresh'
  BY <1>1, <1>2 DEF StoreInv, KqFresh, About
<1>5. Live' = Live /\ lent' = lent /\ in_keepalive_list' = in_keepalive_list
  BY DEF Live, poolVars, listVars
<1>6. DescriptorsOwned'
  BY <1>5 DEF StoreInv, DescriptorsOwned
<1> QED
  BY <1>2, <1>3, <1>4, <1>5, <1>6 DEF StoreInv

--------------------------------------------------------------------------------
(* A step of the loop is a step of the table of slots and nodes.               *)

LEMMA EventNamesLive ==
  ASSUME StoreInv, BatchFresh, NEW i \in 1 .. Len(events), events[i].udata \in Slots
  PROVE  events[i].udata \in Live
BY Owns DEF BatchFresh

LEMMA HeadIsFirst ==
  ASSUME BatchFresh, events # <<>>
  PROVE  1 \in 1 .. Len(events) /\ ev = events[1]
BY DEF BatchFresh, ev

\* What destroys a connection gives back a slot that is lent.
LEMMA DestroyIsTableStep ==
  ASSUME StoreInv, NEW c \in Live, DestroyConnection(c) \/ DestroyClosed(c)
  PROVE  c \in Slots /\ TableDestroy(c)
BY DEF StoreInv, Live, DestroyConnection, DestroyClosed, TableDestroy

\* The list follows the state by a step of the table.
LEMMA SyncIsTableStep ==
  ASSUME StoreInv, NEW c \in Live, NEW state, SyncKeepAliveList(c, state), UNCHANGED poolVars
  PROVE  /\ c \in Slots
         /\ TableIdle(c) \/ TableBusy(c) \/ UNCHANGED tableVars
         /\ \A d \in Slots : in_keepalive_list'[d] <=>
                             IF d = c THEN state = "KEEP_ALIVE" ELSE in_keepalive_list[d]
<1>0. c \in Slots /\ c \in lent /\ (in_keepalive_list[c] <=> conn[c].state = "KEEP_ALIVE")
  BY DEF StoreInv, Live
<1>1. CASE conn[c].state # "KEEP_ALIVE" /\ state = "KEEP_ALIVE"
  <2>1. AddToKeepAliveList(c)
    BY <1>1 DEF SyncKeepAliveList
  <2>2. \A d \in Slots : in_keepalive_list'[d] <=> in_keepalive_list[d] \/ d = c
    BY <1>0, <1>1, <2>1 DEF AddToKeepAliveList, StoreInv, TableInv, ListInv, ListTypeOK
  <2> QED
    BY <1>0, <1>1, <2>1, <2>2 DEF TableIdle
<1>2. CASE conn[c].state = "KEEP_ALIVE" /\ state # "KEEP_ALIVE"
  <2>1. RemoveFromKeepAliveList(c)
    BY <1>2 DEF SyncKeepAliveList
  <2>2. \A d \in Slots : in_keepalive_list'[d] <=> in_keepalive_list[d] /\ d # c
    BY <1>0, <2>1, Removed DEF StoreInv, TableInv
  <2> QED
    BY <1>0, <1>2, <2>1, <2>2 DEF TableBusy
<1>3. CASE (conn[c].state = "KEEP_ALIVE") <=> (state = "KEEP_ALIVE")
  <2>1. UNCHANGED listVars
    BY <1>3 DEF SyncKeepAliveList
  <2> QED
    BY <1>0, <1>3, <2>1 DEF tableVars, listVars
<1> QED
  BY <1>1, <1>2, <1>3

\* Every step of the loop is one of the table, or leaves it alone.
LEMMA LoopIsTableStep == LoopInv /\ [Next]_vars => [TableNext]_tableVars
<1> SUFFICES ASSUME LoopInv, [Next]_vars PROVE [TableNext]_tableVars
  OBVIOUS
<1>0. StoreInv /\ BatchFresh
  BY DEF LoopInv
<1>1. ASSUME NEW c \in Live, DestroyConnection(c) \/ DestroyClosed(c) PROVE TableNext
  BY <1>0, <1>1, DestroyIsTableStep DEF TableNext
<1>2. ASSUME NEW c \in Live, NEW state, SyncKeepAliveList(c, state), UNCHANGED poolVars
      PROVE  [TableNext]_tableVars
  BY <1>0, <1>2, SyncIsTableStep DEF TableNext
<1>3. CASE DispatchGone
  BY <1>0, <1>1, <1>3, EventNamesLive, HeadIsFirst DEF DispatchGone, Dispatching
<1>4. CASE DispatchConnection
  <2> DEFINE c == ev.udata
  <2>1. c \in Slots /\ ProcessConnection(c)
    BY <1>4 DEF DispatchConnection
  <2>2. c \in Live
    BY <1>0, <1>4, EventNamesLive, HeadIsFirst DEF DispatchConnection, Dispatching
  <2> HIDE DEF c
  <2>3. CASE ProcessDied(c)
    BY <1>1, <2>2, <2>3 DEF ProcessDied
  <2>4. CASE ProcessClosedInline(c)
    BY <1>2, <2>2, <2>4 DEF ProcessClosedInline
  <2>5. CASE ProcessCarried(c)
    <3>1. PICK o \in Carried(conn[c]) : SyncKeepAliveList(c, o.conn.state)
      BY <2>5 DEF ProcessCarried
    <3> QED
      BY <1>2, <2>2, <2>5, <3>1 DEF ProcessCarried
  <2> QED
    BY <2>1, <2>2, <2>3, <2>4, <2>5 DEF ProcessConnection, Live
<1>5. CASE AcceptConnection
  BY <1>5 DEF AcceptConnection, CreateConnection, TableOpen, TableNext
<1>6. CASE AcceptRefused
  BY <1>6 DEF AcceptRefused, TableRefuse, TableNext
<1>7. CASE SweepExpired
  <2>1. cursor \in Slots /\ in_keepalive_list[cursor]
    BY <1>7 DEF SweepExpired, LoopInv, RoundInv
  <2>2. cursor \in Live
    BY <1>0, <2>1 DEF StoreInv, Live
  <2> QED
    BY <1>1, <1>7, <2>2 DEF SweepExpired
<1>8. CASE \/ TestRunning \/ ApplyChange \/ RejectChange \/ RejectWithoutRoom
           \/ Submitted \/ ReturnEvents \/ BatchDone \/ DispatchCrash
  BY <1>8 DEF TestRunning, ApplyChange, RejectChange, RejectWithoutRoom, Submitted,
              ReturnEvents, BatchDone, DispatchCrash, tableVars
<1>9. CASE DispatchNothing \/ DispatchListener \/ DispatchTimer
  BY <1>9 DEF DispatchNothing, DispatchListener, DispatchTimer, tableVars
<1>10. CASE AcceptNone \/ SweepKept \/ SweepDone
  BY <1>10 DEF AcceptNone, SweepKept, SweepDone, tableVars
<1>11. CASE (\E e \in ReadyEvents : Collect(e)) \/ (\E c \in Slots : TimePasses(c))
  BY <1>11 DEF Collect, TimePasses, tableVars
<1>12. CASE Signal \/ Stopped \/ UNCHANGED vars
  BY <1>12 DEF Signal, Stopped, vars, tableVars
<1> QED
  BY <1>3, <1>4, <1>5, <1>6, <1>7, <1>8, <1>9, <1>10, <1>11, <1>12
     DEF Next, Thread, Submit, Dispatch, Accept, Sweep

\* So the table keeps what it promises, and its list stays a chain.
LEMMA TableKept == LoopInv /\ [Next]_vars => TableInv' /\ ChainInv'
<1> SUFFICES ASSUME LoopInv, [Next]_vars PROVE TableInv' /\ ChainInv'
  OBVIOUS
<1>1. [TableNext]_tableVars /\ TableInv /\ ChainInv
  BY LoopIsTableStep DEF LoopInv, StoreInv
<1>2. TableInv'
  BY <1>1, TableNextInv
<1>3. [ListNext]_listVars
  BY <1>1, TableStepIsListStep
<1> QED
  BY <1>1, <1>2, <1>3, ChainNext

--------------------------------------------------------------------------------
(* What the queue of changes comes to.                                         *)

\* With the changes cl applied to q, the loop hears of the connection c, which
\* is in the control state k and owns the descriptor f.
Hears(cl, q, k, f, c) ==
  /\ \E x \in Filters : /\ RegIn(cl, q, f, x) = c
                        /\ \A y \in Filters \ {x} : RegIn(cl, q, f, y) = NoConn
  /\ Listens(k) => RegIn(cl, q, f, "READ") = c

LEMMA NeverDeafIsHeard ==
  /\ NeverDeaf <=> (Runs => \A c \in Live : Hears(changelist, kq, conn[c], fd_[c], c))
  /\ NeverDeaf' <=>
       (Runs' => \A c \in Live' : Hears(changelist', kq', conn'[c], fd_'[c], c))
BY RegisteredIsRegIn DEF NeverDeaf, Hears, Listens, Runs

\* The outlook of a connection is all that matters.
LEMMA SameOutlook ==
  ASSUME NEW cl, NEW q, NEW cm, NEW r, NEW f, NEW c, NEW k, NEW m,
         \A x \in Filters : RegIn(cm, r, f, x) = RegIn(cl, q, f, x),
         Listens(m) => Listens(k),
         Hears(cl, q, k, f, c)
  PROVE  Hears(cm, r, m, f, c)
BY DEF Hears, Filters

LEMMA TwoMore ==
  ASSUME NEW cl \in Seq(Changes), NEW a \in Changes, NEW b \in Changes
  PROVE  /\ cl \o <<a, b>> \in Seq(Changes)
         /\ \A j \in 1 .. Len(cl \o <<a, b>>) :
              \/ j \in 1 .. Len(cl) /\ (cl \o <<a, b>>)[j] = cl[j]
              \/ (cl \o <<a, b>>)[j] \in {a, b}
OBVIOUS

LEMMA OneMore ==
  ASSUME NEW cl \in Seq(Changes), NEW a \in Changes
  PROVE  /\ Append(cl, a) \in Seq(Changes)
         /\ \A j \in 1 .. Len(Append(cl, a)) :
              \/ j \in 1 .. Len(cl) /\ Append(cl, a)[j] = cl[j]
              \/ Append(cl, a)[j] = a
OBVIOUS

LEMMA ChangeFields ==
  ASSUME NEW op \in {"ADD", "DELETE"}, NEW f \in Fds, NEW x \in Filters,
         NEW u \in Slots \union {NoConn}
  PROVE  /\ Change(op, f, x, u) \in Changes
         /\ Change(op, f, x, u).op = op
         /\ Change(op, f, x, u).udata = u
         /\ Change(op, f, x, u).fd = f
         /\ \A g, y : About(Change(op, f, x, u), g, y) <=> f = g /\ x = y
BY DEF Change, Changes, About

\* What is registered on a descriptor names its owner.
LEMMA RegisteredOwner ==
  ASSUME StoreInv, QueueInv, NEW f \in Fds, NEW x \in Filters
  PROVE  LET u == RegIn(changelist, kq, f, x)
         IN u = NoConn \/ (u \in Live /\ f = fd_[u])
<1> DEFINE u == RegIn(changelist, kq, f, x)
<1>1. CASE u = kq[f][x]
  BY <1>1, Owns DEF StoreInv, SockTypes, KqFresh
<1>2. ASSUME NEW i \in 1 .. Len(changelist), About(changelist[i], f, x), u = changelist[i].udata
      PROVE  u = NoConn \/ (u \in Live /\ f = fd_[u])
  <2>1. changelist[i] \in Changes
    BY DEF QueueInv
  <2>2. u \in Slots \union {NoConn} /\ changelist[i].fd = f
    BY <1>2, <2>1 DEF Changes, About
  <2>3. u \in Slots => f = fd_[u]
    BY <1>2, <2>2 DEF QueueInv
  <2> QED
    BY <2>2, <2>3, Owns
<1>3. changelist \in Seq(Changes)
  BY DEF QueueInv
<1> QED
  BY <1>1, <1>2, <1>3, RegSource

\* The deletions of a closed descriptor concern nobody else.
LEMMA CloseQueue ==
  ASSUME StoreInv, QueueInv, NEW c \in Live, Close(c), Runs,
         \A j \in 1 .. Len(changelist) : changelist[j].udata # c,
         changelist' \in {changelist, changelist \o DeleteBoth(fd_[c])}
  PROVE  /\ QueueInv'
         /\ \A d \in Slots : (\A j \in 1 .. Len(changelist) : changelist[j].udata # d)
                               => \A j \in 1 .. Len(changelist') : changelist'[j].udata # d
<1> DEFINE a == Change("DELETE", fd_[c], "READ", NoConn)
           b == Change("DELETE", fd_[c], "WRITE", NoConn)
<1>1. c \in Slots /\ fd_[c] \in Fds
  BY Owns DEF Live
<1>2. /\ \A d \in Slots : conn'[d] = IF d = c THEN ClosedConn ELSE conn[d]
      /\ \A d \in Slots : fd_'[d] = IF d = c THEN NoFd ELSE fd_[d]
      /\ \A f \in Fds, x \in Filters :
           kq'[f][x] = IF f = fd_[c] THEN NoConn ELSE kq[f][x]
      /\ Live' = Live \ {c}
  BY ClosesTo
<1>3. /\ a \in Changes /\ a.op = "DELETE" /\ a.udata = NoConn
      /\ b \in Changes /\ b.op = "DELETE" /\ b.udata = NoConn
      /\ \A f, x : About(a, f, x) \/ About(b, f, x) => f = fd_[c]
  BY <1>1, ChangeFields DEF Filters
<1>4. DeleteBoth(fd_[c]) = <<a, b>> /\ changelist \in Seq(Changes)
  BY DEF DeleteBoth, QueueInv
<1> HIDE DEF a, b
<1>5. /\ changelist' \in Seq(Changes)
      /\ \A j \in 1 .. Len(changelist') :
           \/ j \in 1 .. Len(changelist) /\ changelist'[j] = changelist[j]
           \/ changelist'[j] \in {a, b}
  <2>1. CASE changelist' = changelist
    BY <1>4, <2>1
  <2>2. CASE changelist' = changelist \o <<a, b>>
    <3>1. /\ changelist \o <<a, b>> \in Seq(Changes)
          /\ \A j \in 1 .. Len(changelist \o <<a, b>>) :
               \/ j \in 1 .. Len(changelist) /\ (changelist \o <<a, b>>)[j] = changelist[j]
               \/ (changelist \o <<a, b>>)[j] \in {a, b}
      BY <1>3, <1>4, TwoMore
    <3> QED
      BY <2>2, <3>1
  <2> QED
    BY <1>4, <2>1, <2>2
<1>6. \A d \in Slots, x \in Filters :
        fd_[d] # fd_[c] => RegIn(changelist', kq, fd_[d], x) = RegIn(changelist, kq, fd_[d], x)
  <2> SUFFICES ASSUME NEW d \in Slots, NEW x \in Filters, fd_[d] # fd_[c],
                      changelist' = changelist \o <<a, b>>
               PROVE  RegIn(changelist', kq, fd_[d], x) = RegIn(changelist, kq, fd_[d], x)
    BY <1>4
  <2>1. RegIn(changelist \o <<a, b>>, kq, fd_[d], x) =
          IF About(b, fd_[d], x) THEN b.udata
          ELSE IF About(a, fd_[d], x) THEN a.udata
          ELSE RegIn(changelist, kq, fd_[d], x)
    BY <1>3, <1>4, RegTwoMore
  <2> QED
    BY <1>3, <2>1
<1>7. \A j \in 1 .. Len(changelist') :
        /\ changelist'[j].op = "ADD" <=> changelist'[j].udata # NoConn
        /\ changelist'[j].udata \in Slots => changelist'[j].fd = fd_'[changelist'[j].udata]
  BY <1>2, <1>3, <1>5, SlotIsNoNull DEF QueueInv
<1>8. NeverDeaf'
  <2> SUFFICES ASSUME NEW d \in Live' PROVE Hears(changelist', kq', conn'[d], fd_'[d], d)
    BY NeverDeafIsHeard
  <2>1. d \in Slots /\ d \in Live /\ d # c /\ conn'[d] = conn[d] /\ fd_'[d] = fd_[d]
    BY <1>2 DEF Live
  <2>2. fd_[d] \in Fds /\ fd_[d] # fd_[c]
    BY <2>1, Owns DEF StoreInv, DescriptorsOwned
  <2>3. \A x \in Filters : RegIn(changelist', kq', fd_[d], x) = RegIn(changelist, kq, fd_[d], x)
    BY <1>2, <1>6, <2>1, <2>2, RegElsewhere
  <2>4. Hears(changelist, kq, conn[d], fd_[d], d)
    BY <2>1, NeverDeafIsHeard DEF QueueInv
  <2> QED
    BY <2>1, <2>3, <2>4, SameOutlook
<1> QED
  BY <1>3, <1>5, <1>7, <1>8, SlotIsNoNull DEF QueueInv

\* update_events: the connection that goes on hears of what it asked for.
LEMMA CarryQueue ==
  ASSUME StoreInv, QueueInv, NEW c \in Live, NEW k, NEW want \in Wants, Runs,
         Listens(k) => want = "READ",
         conn' = [conn EXCEPT ![c] = k], Live' = Live, UNCHANGED <<fd_, open_fds, kq>>,
         changelist' = changelist \o WantChanges(c, fd_[c], want)
  PROVE  /\ QueueInv'
         /\ \A d \in Slots :
              d # c /\ (\A j \in 1 .. Len(changelist) : changelist[j].udata # d)
                => \A j \in 1 .. Len(changelist') : changelist'[j].udata # d
<1>1. c \in Slots /\ fd_[c] \in Fds /\ changelist \in Seq(Changes)
  BY Owns DEF Live, QueueInv
<1>2. \A d \in Slots : conn'[d] = IF d = c THEN k ELSE conn[d]
  BY <1>1 DEF StoreInv, SockTypes
<1>3. \A d \in Live : Hears(changelist, kq, conn[d], fd_[d], d)
  BY NeverDeafIsHeard DEF QueueInv
<1>4. CASE want = "NONE"
  <2>1. changelist' = changelist
    BY <1>1, <1>4 DEF WantChanges
  <2>2. NeverDeaf'
    <3> SUFFICES ASSUME NEW d \in Live PROVE Hears(changelist', kq', conn'[d], fd_'[d], d)
      BY NeverDeafIsHeard
    <3>1. d \in Slots /\ (Listens(conn'[d]) => Listens(conn[d]))
      BY <1>2, <1>4 DEF Live
    <3> QED
      BY <1>3, <2>1, <3>1, SameOutlook
  <2> QED
    BY <2>1, <2>2 DEF QueueInv
<1>5. ASSUME NEW x \in Filters, NEW y \in Filters, x # y, want = x, NEW a, NEW b,
             changelist' = changelist \o <<a, b>>,
             \/ a = Change("ADD", fd_[c], x, c) /\ b = Change("DELETE", fd_[c], y, NoConn)
             \/ b = Change("ADD", fd_[c], x, c) /\ a = Change("DELETE", fd_[c], y, NoConn)
      PROVE  /\ QueueInv'
             /\ \A d \in Slots :
                  d # c /\ (\A j \in 1 .. Len(changelist) : changelist[j].udata # d)
                    => \A j \in 1 .. Len(changelist') : changelist'[j].udata # d
  <2> DEFINE add == Change("ADD", fd_[c], x, c)
             del == Change("DELETE", fd_[c], y, NoConn)
  <2>1. /\ add \in Changes /\ add.op = "ADD" /\ add.udata = c /\ add.fd = fd_[c]
        /\ del \in Changes /\ del.op = "DELETE" /\ del.udata = NoConn
        /\ \A f, z : About(add, f, z) <=> fd_[c] = f /\ x = z
        /\ \A f, z : About(del, f, z) <=> fd_[c] = f /\ y = z
    BY <1>1, <1>5, ChangeFields
  <2> HIDE DEF add, del
  <2>2. (a = add /\ b = del) \/ (a = del /\ b = add)
    BY <1>5 DEF add, del
  <2>3. a \in Changes /\ b \in Changes
    BY <2>1, <2>2
  <2>4. /\ changelist' \in Seq(Changes)
        /\ \A j \in 1 .. Len(changelist') :
             \/ j \in 1 .. Len(changelist) /\ changelist'[j] = changelist[j]
             \/ changelist'[j] \in {add, del}
    <3>1. /\ changelist \o <<a, b>> \in Seq(Changes)
          /\ \A j \in 1 .. Len(changelist \o <<a, b>>) :
               \/ j \in 1 .. Len(changelist) /\ (changelist \o <<a, b>>)[j] = changelist[j]
               \/ (changelist \o <<a, b>>)[j] \in {a, b}
      BY <1>1, <2>3, TwoMore
    <3> QED
      BY <1>5, <2>2, <3>1
  <2>5. \A f, z : RegIn(changelist', kq, f, z) =
                    IF About(b, f, z) THEN b.udata
                    ELSE IF About(a, f, z) THEN a.udata
                    ELSE RegIn(changelist, kq, f, z)
    <3> TAKE f, z
    <3>1. RegIn(changelist \o <<a, b>>, kq, f, z) =
            IF About(b, f, z) THEN b.udata
            ELSE IF About(a, f, z) THEN a.udata
            ELSE RegIn(changelist, kq, f, z)
      BY <1>1, <2>3, RegTwoMore
    <3> QED
      BY <1>5, <3>1
  <2>6. /\ \A f, z : f # fd_[c] => RegIn(changelist', kq, f, z) = RegIn(changelist, kq, f, z)
        /\ RegIn(changelist', kq, fd_[c], x) = c
        /\ RegIn(changelist', kq, fd_[c], y) = NoConn
    BY <1>5, <2>1, <2>2, <2>5
  <2>7. \A j \in 1 .. Len(changelist') :
          /\ changelist'[j].op = "ADD" <=> changelist'[j].udata # NoConn
          /\ changelist'[j].udata \in Slots => changelist'[j].fd = fd_'[changelist'[j].udata]
    <3> TAKE j \in 1 .. Len(changelist')
    <3>1. CASE j \in 1 .. Len(changelist) /\ changelist'[j] = changelist[j]
      BY <3>1 DEF QueueInv
    <3>2. CASE changelist'[j] \in {add, del}
      BY <1>1, <2>1, <3>2, SlotIsNoNull
    <3> QED
      BY <2>4, <3>1, <3>2
  <2>8. NeverDeaf'
    <3> SUFFICES ASSUME NEW d \in Live PROVE Hears(changelist', kq, conn'[d], fd_[d], d)
      BY NeverDeafIsHeard
    <3>1. CASE d # c
      <4>1. d \in Slots /\ conn'[d] = conn[d] /\ fd_[d] # fd_[c]
        BY <1>1, <1>2, <3>1 DEF Live, StoreInv, DescriptorsOwned
      <4> QED
        BY <1>3, <2>6, <4>1, SameOutlook
    <3>2. CASE d = c
      <4>1. \A z \in Filters \ {x} : z = y
        BY <1>5 DEF Filters
      <4>2. Listens(k) => x = "READ"
        BY <1>5
      <4> QED
        BY <1>1, <1>2, <1>5, <2>6, <3>2, <4>1, <4>2 DEF Hears
    <3> QED
      BY <3>1, <3>2
  <2>9. ASSUME NEW d \in Slots, d # c, \A j \in 1 .. Len(changelist) : changelist[j].udata # d,
               NEW j \in 1 .. Len(changelist')
        PROVE  changelist'[j].udata # d
    <3>1. CASE j \in 1 .. Len(changelist) /\ changelist'[j] = changelist[j]
      BY <2>9, <3>1
    <3>2. CASE changelist'[j] \in {add, del}
      BY <2>1, <2>9, <3>2, SlotIsNoNull
    <3> QED
      BY <2>4, <3>1, <3>2
  <2>10. QueueInv'
    BY <2>4, <2>7, <2>8 DEF QueueInv
  <2> QED
    BY <2>9, <2>10
<1>6. CASE want = "READ"
  <2> DEFINE a == Change("ADD", fd_[c], "READ", c)
             b == Change("DELETE", fd_[c], "WRITE", NoConn)
  <2>1. changelist' = changelist \o <<a, b>>
    BY <1>6 DEF WantChanges
  <2>2. a = Change("ADD", fd_[c], "READ", c) /\ b = Change("DELETE", fd_[c], "WRITE", NoConn)
    OBVIOUS
  <2>3. "READ" \in Filters /\ "WRITE" \in Filters /\ "READ" # "WRITE"
    BY DEF Filters
  <2> HIDE DEF a, b
  <2> QED
    BY <1>5, <1>6, <2>1, <2>2, <2>3
<1>7. CASE want = "WRITE"
  <2> DEFINE a == Change("DELETE", fd_[c], "READ", NoConn)
             b == Change("ADD", fd_[c], "WRITE", c)
  <2>1. changelist' = changelist \o <<a, b>>
    BY <1>7 DEF WantChanges
  <2>2. a = Change("DELETE", fd_[c], "READ", NoConn) /\ b = Change("ADD", fd_[c], "WRITE", c)
    OBVIOUS
  <2>3. "WRITE" \in Filters /\ "READ" \in Filters /\ "WRITE" # "READ"
    BY DEF Filters
  <2> HIDE DEF a, b
  <2> QED
    BY <1>5, <1>7, <2>1, <2>2, <2>3
<1> QED
  BY <1>4, <1>6, <1>7 DEF Wants

\* The registration of an accepted connection: nothing of an earlier owner of
\* the descriptor is left.
LEMMA OpenQueue ==
  ASSUME StoreInv, QueueInv, NEW s \in Slots, NEW f \in Fds \ open_fds,
         CreateConnection(s, f), UNCHANGED kq, Runs
  PROVE  /\ QueueInv'
         /\ \A d \in Slots :
              d # s /\ (\A j \in 1 .. Len(changelist) : changelist[j].udata # d)
                => \A j \in 1 .. Len(changelist') : changelist'[j].udata # d
<1> DEFINE a == Change("ADD", f, "READ", s)
<1>1. /\ s \notin Live
      /\ \A d \in Slots : conn'[d] = IF d = s THEN AcceptedConn ELSE conn[d]
      /\ \A d \in Slots : fd_'[d] = IF d = s THEN f ELSE fd_[d]
      /\ Live' = Live \union {s}
  BY OpensTo
<1>2. /\ a \in Changes /\ a.op = "ADD" /\ a.udata = s /\ a.fd = f
      /\ \A g, x : About(a, g, x) <=> f = g /\ x = "READ"
  BY ChangeFields DEF Filters
<1>3. changelist' = Append(changelist, a) /\ changelist \in Seq(Changes)
  BY DEF CreateConnection, QueueInv
<1> HIDE DEF a
<1>4. /\ changelist' \in Seq(Changes)
      /\ \A j \in 1 .. Len(changelist') :
           \/ j \in 1 .. Len(changelist) /\ changelist'[j] = changelist[j]
           \/ changelist'[j] = a
  BY <1>2, <1>3, OneMore
<1>5. \A g, x : RegIn(changelist', kq, g, x) =
                  IF About(a, g, x) THEN s ELSE RegIn(changelist, kq, g, x)
  BY <1>2, <1>3, RegAppend
<1>6. \A j \in 1 .. Len(changelist) : changelist[j].udata # s
  <2> SUFFICES ASSUME NEW j \in 1 .. Len(changelist), changelist[j].udata = s PROVE FALSE
    OBVIOUS
  <2>1. changelist[j].fd = fd_[s]
    BY DEF QueueInv
  <2>2. changelist[j] \in Changes
    BY DEF QueueInv
  <2>3. changelist[j].fd \in Fds
    BY <2>2 DEF Changes
  <2> QED
    BY <1>1, <2>1, <2>3, Owns
<1>7. \A j \in 1 .. Len(changelist') :
        /\ changelist'[j].op = "ADD" <=> changelist'[j].udata # NoConn
        /\ changelist'[j].udata \in Slots => changelist'[j].fd = fd_'[changelist'[j].udata]
  BY <1>1, <1>2, <1>4, <1>6, SlotIsNoNull DEF QueueInv
<1>8. RegIn(changelist, kq, f, "WRITE") = NoConn
  <2>1. \A u \in Live : f # fd_[u]
    BY Owns DEF Live
  <2> QED
    BY <2>1, RegisteredOwner DEF Filters
<1>9. NeverDeaf'
  <2> SUFFICES ASSUME NEW d \in Live' PROVE Hears(changelist', kq, conn'[d], fd_'[d], d)
    BY NeverDeafIsHeard
  <2>1. CASE d = s
    <3>1. fd_'[d] = f /\ RegIn(changelist', kq, f, "READ") = s
      BY <1>1, <1>2, <1>5, <2>1
    <3>2. RegIn(changelist', kq, f, "WRITE") = NoConn
      BY <1>2, <1>5, <1>8
    <3>3. Filters \ {"READ"} = {"WRITE"} /\ "READ" \in Filters
      BY DEF Filters
    <3> QED
      BY <2>1, <3>1, <3>2, <3>3 DEF Hears
  <2>2. CASE d # s
    <3>1. d \in Live /\ d \in Slots /\ conn'[d] = conn[d] /\ fd_'[d] = fd_[d]
      BY <1>1, <2>2 DEF Live
    <3>2. fd_[d] # f
      BY <3>1, Owns
    <3>3. Hears(changelist, kq, conn[d], fd_[d], d)
      BY <3>1, NeverDeafIsHeard DEF QueueInv
    <3> QED
      BY <1>2, <1>5, <3>1, <3>2, <3>3, SameOutlook
  <2> QED
    BY <2>1, <2>2
<1> QED
  BY <1>2, <1>4, <1>7, <1>9 DEF QueueInv

--------------------------------------------------------------------------------
(* What the batch and the queue keep.                                          *)

LEMMA LiveFinite ==
  IsFiniteSet(Live) /\ Cardinality(Live) \in 0 .. MAX_CONNECTIONS
<1>1. Cardinality(Slots) = MAX_CONNECTIONS /\ IsFiniteSet(Slots)
  BY PoolAssumption, FS_Interval DEF Slots
<1>2. Live \in SUBSET Slots
  BY DEF Live
<1> QED
  BY <1>1, <1>2, PoolAssumption, FS_Subset, FS_CardinalityType

LEMMA StoreSame ==
  ASSUME StoreInv, UNCHANGED <<poolVars, listVars, sockVars>>, TableInv', ChainInv'
  PROVE  StoreInv' /\ Live' = Live
<1>1. UNCHANGED <<conn, fd_, open_fds, kq, lent, in_keepalive_list>> /\ Live' = Live
  BY DEF sockVars, poolVars, listVars, Live
<1>2. SockTypes' /\ DescriptorsOwned' /\ KqFresh'
  BY <1>1 DEF StoreInv, SockTypes, DescriptorsOwned, KqFresh
<1> QED
  BY <1>1, <1>2 DEF StoreInv

LEMMA QueueSame ==
  ASSUME QueueInv, UNCHANGED <<changelist, kq, fd_>>, Live' = Live,
         \A c \in Live : Listens(conn'[c]) => Listens(conn[c]),
         Runs' => Runs
  PROVE  QueueInv'
<1>1. NeverDeaf'
  <2> SUFFICES ASSUME NEW d \in Live, Runs'
               PROVE  Hears(changelist, kq, conn'[d], fd_[d], d)
    BY NeverDeafIsHeard
  <2>1. Hears(changelist, kq, conn[d], fd_[d], d)
    BY NeverDeafIsHeard DEF QueueInv
  <2> QED
    BY <2>1, SameOutlook
<1> QED
  BY <1>1 DEF QueueInv

\* The front change leaves the queue.
LEMMA TailQueue ==
  ASSUME StoreInv, QueueInv, changelist # <<>>, changelist' = Tail(changelist),
         UNCHANGED <<conn, fd_, pc>>,
         \A f \in open_fds, x \in Filters :
           kq'[f][x] = IF About(Head(changelist), f, x)
                       THEN Head(changelist).udata ELSE kq[f][x]
  PROVE  /\ QueueInv'
         /\ \A d \in Slots : (\A j \in 1 .. Len(changelist) : changelist[j].udata # d)
                               => \A j \in 1 .. Len(changelist') : changelist'[j].udata # d
<1>1. /\ changelist \in Seq(Changes) /\ changelist' \in Seq(Changes)
      /\ \A j \in 1 .. Len(changelist') :
           j + 1 \in 1 .. Len(changelist) /\ changelist'[j] = changelist[j + 1]
  BY DEF QueueInv
<1>2. \A j \in 1 .. Len(changelist') :
        /\ changelist'[j].op = "ADD" <=> changelist'[j].udata # NoConn
        /\ changelist'[j].udata \in Slots => changelist'[j].fd = fd_'[changelist'[j].udata]
  BY <1>1 DEF QueueInv
<1>3. NeverDeaf'
  <2>1. Live' = Live
    BY DEF Live
  <2> SUFFICES ASSUME NEW d \in Live, Runs
               PROVE  Hears(changelist', kq', conn[d], fd_[d], d)
    BY <2>1, NeverDeafIsHeard DEF Runs
  <2>2. fd_[d] \in open_fds
    BY Owns DEF Live
  <2>3. \A x \in Filters :
          RegIn(changelist', kq', fd_[d], x) = RegIn(changelist, kq, fd_[d], x)
    <3> TAKE x \in Filters
    <3>1. kq'[fd_[d]][x] = IF About(Head(changelist), fd_[d], x)
                           THEN Head(changelist).udata ELSE kq[fd_[d]][x]
      BY <2>2
    <3>2. RegIn(Tail(changelist), kq', fd_[d], x) = RegIn(changelist, kq, fd_[d], x)
      BY <1>1, <3>1, RegTail
    <3> QED
      BY <3>2
  <2>4. Hears(changelist, kq, conn[d], fd_[d], d)
    BY NeverDeafIsHeard DEF QueueInv
  <2> QED
    BY <2>3, <2>4, SameOutlook
<1> QED
  BY <1>1, <1>2, <1>3 DEF QueueInv

\* An event that is dispatched was the only one of its connection.
LEMMA HeadIsAlone ==
  ASSUME BatchFresh, events # <<>>, events' = Tail(events), ev.udata \in Slots
  PROVE  /\ \A i \in 1 .. Len(events') : events'[i].udata # ev.udata
         /\ \A j \in 1 .. Len(changelist) : changelist[j].udata # ev.udata
<1>1. /\ 1 \in 1 .. Len(events) /\ ev = events[1]
      /\ \A i \in 1 .. Len(events') :
           i + 1 \in 1 .. Len(events) /\ i + 1 # 1 /\ events'[i] = events[i + 1]
  BY DEF BatchFresh, ev
<1> QED
  BY <1>1 DEF BatchFresh

\* The rest of a batch stays fresh as long as what it names is left alone.
LEMMA BatchKept ==
  ASSUME BatchFresh,
         events' = events \/ (events # <<>> /\ events' = Tail(events)),
         \A c \in Slots :
           (\A j \in 1 .. Len(changelist) : changelist[j].udata # c)
           /\ (\E i \in 1 .. Len(events) : events[i].udata = c)
           /\ (\E i \in 1 .. Len(events') : events'[i].udata = c)
             => /\ fd_'[c] = fd_[c]
                /\ \A j \in 1 .. Len(changelist') : changelist'[j].udata # c
  PROVE  BatchFresh'
<1>1. PICK k \in {0, 1} : \A i \in 1 .. Len(events') :
         i + k \in 1 .. Len(events) /\ events'[i] = events[i + k]
  <2>1. CASE events' = events
    <3>1. \A i \in 1 .. Len(events') : i + 0 \in 1 .. Len(events) /\ events'[i] = events[i + 0]
      BY <2>1
    <3> QED
      BY <3>1
  <2>2. CASE events # <<>> /\ events' = Tail(events)
    BY <2>2 DEF BatchFresh
  <2> QED
    BY <2>1, <2>2
<1>2. events' \in Seq(Events)
  BY DEF BatchFresh
<1>3. ASSUME NEW i \in 1 .. Len(events'), events'[i].udata \in Slots
      PROVE  /\ events'[i].fd \in Fds
             /\ events'[i].fd = fd_'[events'[i].udata]
             /\ \A j \in 1 .. Len(events') : events'[j].udata = events'[i].udata => i = j
             /\ \A j \in 1 .. Len(changelist') : changelist'[j].udata # events'[i].udata
  <2> DEFINE u == events'[i].udata
             m == i + k
  <2>1. m \in 1 .. Len(events) /\ events'[i] = events[m]
    BY <1>1
  <2> HIDE DEF m
  <2>2. /\ events[m].fd \in Fds
        /\ events[m].fd = fd_[events[m].udata]
        /\ \A j \in 1 .. Len(events) : events[j].udata = events[m].udata => m = j
        /\ \A j \in 1 .. Len(changelist) : changelist[j].udata # events[m].udata
    BY <1>3, <2>1 DEF BatchFresh
  <2>3. /\ fd_'[u] = fd_[u]
        /\ \A j \in 1 .. Len(changelist') : changelist'[j].udata # u
    BY <1>3, <2>1, <2>2
  <2>4. ASSUME NEW j \in 1 .. Len(events'), events'[j].udata = u PROVE i = j
    <3>1. j + k \in 1 .. Len(events) /\ events'[j] = events[j + k]
      BY <1>1
    <3>2. m = j + k
      BY <2>1, <2>2, <2>4, <3>1
    <3> QED
      BY <3>2 DEF m
  <2> QED
    BY <2>1, <2>2, <2>3, <2>4
<1> QED
  BY <1>2, <1>3 DEF BatchFresh

\* A connection that nothing names any more is closed.
LEMMA CloseKeeps ==
  ASSUME StoreInv, QueueInv, BatchFresh, NEW c \in Live, Close(c), Runs,
         changelist' \in {changelist, changelist \o DeleteBoth(fd_[c])},
         \A j \in 1 .. Len(changelist) : changelist[j].udata # c,
         events' = events \/ (events # <<>> /\ events' = Tail(events)),
         \A i \in 1 .. Len(events') : events'[i].udata # c
  PROVE  QueueInv' /\ BatchFresh'
<1>1. /\ QueueInv'
      /\ \A d \in Slots : (\A j \in 1 .. Len(changelist) : changelist[j].udata # d)
                            => \A j \in 1 .. Len(changelist') : changelist'[j].udata # d
  BY CloseQueue
<1>2. \A d \in Slots : d # c => fd_'[d] = fd_[d]
  BY ClosesTo
<1>3. BatchFresh'
  BY <1>1, <1>2, BatchKept
<1> QED
  BY <1>1, <1>3

\* The successor of a node is another member of the list.
LEMMA NextIsAnother ==
  ASSUME ChainInv, NEW c \in Slots, in_keepalive_list[c]
  PROVE  /\ keepalive_next[c] \in Slots \union {NoConn}
         /\ keepalive_next[c] # c
         /\ keepalive_next[c] # NoConn => in_keepalive_list[keepalive_next[c]]
<1>1. PICK o : Chained(o)
  BY DEF ChainInv
<1>2. o \in Seq(Slots) /\ Len(o) \in Nat
  BY <1>1 DEF Chained
<1>3. PICK i \in 1 .. Len(o) : o[i] = c
  BY <1>1 DEF Chained
<1>4. keepalive_next[c] = IF i = Len(o) THEN NoConn ELSE o[i + 1]
  BY <1>1, <1>3 DEF Chained
<1>5. CASE i = Len(o)
  BY <1>4, <1>5, NullIsNoSlot
<1>6. CASE i # Len(o)
  <2>1. i + 1 \in 1 .. Len(o) /\ i + 1 # i /\ o[i + 1] \in Slots
    BY <1>2, <1>6
  <2> QED
    BY <1>1, <1>3, <1>4, <1>6, <2>1 DEF Chained
<1> QED
  BY <1>5, <1>6

--------------------------------------------------------------------------------
(* Every action keeps the invariant.                                           *)

\* The steps that move the loop along and touch no connection.
LEMMA TurnInv ==
  ASSUME LoopInv, TableInv', ChainInv',
         TestRunning \/ Submitted \/ ReturnEvents \/ BatchDone \/ DispatchCrash
           \/ Signal \/ Stopped \/ UNCHANGED vars
  PROVE  LoopInv'
<1>1. UNCHANGED <<poolVars, listVars, sockVars, changelist, events, cursor>>
  BY DEF TestRunning, Submitted, ReturnEvents, BatchDone, DispatchCrash, Signal, Stopped,
         vars, loopVars
<1>2. StoreInv' /\ Live' = Live
  BY <1>1, StoreSame DEF LoopInv
<1>3. Runs' => Runs
  BY DEF TestRunning, Submitted, ReturnEvents, BatchDone, DispatchCrash, Signal, Blocking,
         Stopped, vars, loopVars, Runs
<1>4. QueueInv'
  BY <1>1, <1>2, <1>3, QueueSame DEF LoopInv, sockVars
<1>5. BatchFresh'
  BY <1>1 DEF LoopInv, BatchFresh, sockVars
<1>6. RoundInv'
  <2>1. CASE TestRunning \/ Submitted
    BY <1>1, <2>1, LiveFinite
       DEF TestRunning, Submitted, LoopInv, RoundInv, sockVars, listVars
  <2>2. CASE ReturnEvents \/ BatchDone \/ DispatchCrash
    BY <1>1, <2>2, LiveFinite
       DEF ReturnEvents, BatchDone, DispatchCrash, LoopInv, RoundInv, sockVars, listVars
  <2>3. CASE Signal
    BY <1>1, <2>3 DEF Signal, Blocking, LoopInv, RoundInv, sockVars, listVars
  <2>4. CASE Stopped \/ UNCHANGED vars
    BY <1>1, <2>4 DEF Stopped, vars, loopVars, LoopInv, RoundInv, sockVars, listVars
  <2> QED
    BY <2>1, <2>2, <2>3, <2>4
<1> QED
  BY <1>2, <1>4, <1>5, <1>6 DEF LoopInv

\* The steps of the dispatch and of the sweep that touch no connection.
LEMMA StrollInv ==
  ASSUME LoopInv, TableInv', ChainInv',
         DispatchNothing \/ DispatchListener \/ DispatchTimer \/ AcceptNone
           \/ AcceptRefused \/ SweepKept \/ SweepDone
  PROVE  LoopInv'
<1>1. /\ UNCHANGED <<poolVars, listVars, sockVars, changelist, g_running, crowd>>
      /\ Runs /\ Runs'
      /\ events' = events \/ (events # <<>> /\ events' = Tail(events))
      /\ pc \in {"dispatch", "accept", "sweep"} /\ pc' \in {"dispatch", "accept", "sweep"}
  BY DEF DispatchNothing, DispatchListener, DispatchTimer, AcceptNone, AcceptRefused,
         AcquireFull, SweepKept, SweepDone, Dispatching, Runs
<1>2. StoreInv' /\ Live' = Live
  BY <1>1, StoreSame DEF LoopInv
<1>3. QueueInv'
  BY <1>1, <1>2, QueueSame DEF LoopInv, sockVars
<1>4. BatchFresh'
  BY <1>1, BatchKept DEF LoopInv, sockVars
<1>5. /\ cursor' \in Slots \union {NoConn}
      /\ pc' = "sweep" /\ cursor' # NoConn => in_keepalive_list[cursor']
  <2>1. CASE DispatchTimer
    BY <2>1 DEF DispatchTimer, LoopInv, StoreInv, TableInv, ListInv, ListTypeOK,
                Pointers, LinksAgree
  <2>2. CASE SweepKept
    <3>1. cursor \in Slots /\ in_keepalive_list[cursor] /\ cursor' = keepalive_next[cursor]
      BY <2>2 DEF SweepKept, LoopInv, RoundInv
    <3> QED
      BY <3>1, NextIsAnother DEF LoopInv, StoreInv
  <2>3. CASE DispatchNothing \/ DispatchListener \/ AcceptNone \/ AcceptRefused \/ SweepDone
    BY <2>3 DEF DispatchNothing, DispatchListener, AcceptNone, AcceptRefused, SweepDone,
                Dispatching, LoopInv, RoundInv
  <2> QED
    BY <2>1, <2>2, <2>3
<1>6. RoundInv'
  BY <1>1, <1>5 DEF LoopInv, RoundInv, listVars
<1> QED
  BY <1>2, <1>3, <1>4, <1>6 DEF LoopInv

\* What kevent cannot carry out is a deletion: who is to be registered is live.
LEMMA FailsOnlyToDelete ==
  ASSUME LoopInv, changelist # <<>>, ~Applies(Head(changelist))
  PROVE  /\ Head(changelist) \in Changes
         /\ Head(changelist).op = "DELETE"
         /\ Head(changelist).udata = NoConn
<1> DEFINE ch == Head(changelist)
<1>1. /\ ch \in Changes
      /\ ch.udata \in Slots => ch.fd = fd_[ch.udata]
      /\ ch.op = "ADD" <=> ch.udata # NoConn
  BY DEF LoopInv, QueueInv
<1>2. ch.udata = NoConn
  <2> SUFFICES ASSUME ch.udata \in Slots PROVE FALSE
    BY <1>1 DEF Changes
  <2>1. ch.fd = fd_[ch.udata] /\ ch.fd \in Fds /\ ch.op # "DELETE"
    BY <1>1, SlotIsNoNull DEF Changes
  <2>2. fd_[ch.udata] \in open_fds
    BY <2>1, Owns DEF LoopInv
  <2> QED
    BY <2>1, <2>2 DEF Applies
<1> QED
  BY <1>1, <1>2 DEF Changes

\* kevent carries out a change, ...
LEMMA ApplyInv ==
  ASSUME LoopInv, TableInv', ChainInv', ApplyChange
  PROVE  LoopInv'
<1> DEFINE ch == Head(changelist)
<1>1. /\ ch \in Changes
      /\ ch.udata \in Slots => ch.fd = fd_[ch.udata]
  BY DEF ApplyChange, LoopInv, QueueInv
<1>2. /\ kq' = [kq EXCEPT ![ch.fd][ch.filter] = ch.udata]
      /\ changelist # <<>> /\ changelist' = Tail(changelist) /\ pc = "submit"
      /\ UNCHANGED <<poolVars, listVars, conn, fd_, open_fds>>
      /\ UNCHANGED <<events, pc, cursor, g_running, crowd>>
  BY DEF ApplyChange
<1>3. /\ StoreInv'
      /\ \A f \in Fds, x \in Filters :
           kq'[f][x] = IF About(ch, f, x) THEN ch.udata ELSE kq[f][x]
  BY <1>1, <1>2, ApplyStore DEF LoopInv
<1>4. open_fds \subseteq Fds
  BY DEF LoopInv, StoreInv, SockTypes
<1>5. QueueInv'
  BY <1>2, <1>3, <1>4, TailQueue DEF LoopInv
<1>6. BatchFresh' /\ RoundInv'
  BY <1>2, SlotIsNoNull DEF LoopInv, BatchFresh, RoundInv, listVars
<1> QED
  BY <1>3, <1>5, <1>6 DEF LoopInv

\* ... or finds that it deletes what is not there.
LEMMA RejectInv ==
  ASSUME LoopInv, TableInv', ChainInv', RejectChange
  PROVE  LoopInv'
<1> DEFINE ch == Head(changelist)
           e == Event("ERROR", ch.fd, ch.filter, ch.udata)
<1>1. /\ ~Applies(ch) /\ events' = Append(events, e)
      /\ changelist # <<>> /\ changelist' = Tail(changelist) /\ pc = "submit"
      /\ UNCHANGED <<poolVars, listVars, sockVars, pc, cursor, g_running, crowd>>
  BY DEF RejectChange
<1>2. ch \in Changes /\ ch.op = "DELETE" /\ ch.udata = NoConn
  BY <1>1, FailsOnlyToDelete
<1>3. StoreInv'
  BY <1>1, StoreSame DEF LoopInv
<1>4. \A f \in open_fds, x \in Filters :
        kq'[f][x] = IF About(ch, f, x) THEN ch.udata ELSE kq[f][x]
  BY <1>1, <1>2 DEF Applies, About, sockVars
<1>5. QueueInv'
  BY <1>1, <1>4, TailQueue DEF LoopInv, sockVars
<1>6. /\ e \in Events /\ e.udata = NoConn
      /\ events' \in Seq(Events)
      /\ \A i \in 1 .. Len(events') :
           \/ i \in 1 .. Len(events) /\ events'[i] = events[i]
           \/ events'[i] = e
  <2>1. e \in Events /\ e.udata = NoConn
    BY <1>2 DEF Event, Events, Changes
  <2>2. events \in Seq(Events)
    BY DEF LoopInv, BatchFresh
  <2> HIDE DEF e
  <2> QED
    BY <1>1, <2>1, <2>2
<1>7. \A i \in 1 .. Len(events') : events'[i].udata = NoConn
  BY <1>1, <1>6 DEF LoopInv, RoundInv
<1>8. BatchFresh' /\ RoundInv'
  BY <1>1, <1>6, <1>7, SlotIsNoNull DEF LoopInv, BatchFresh, RoundInv, listVars
<1> QED
  BY <1>3, <1>5, <1>8 DEF LoopInv

\* No room for the error: the loop stops.
LEMMA NoRoomInv ==
  ASSUME LoopInv, TableInv', ChainInv', RejectWithoutRoom
  PROVE  LoopInv'
<1>1. /\ UNCHANGED <<poolVars, listVars, sockVars, cursor, g_running, crowd>>
      /\ pc' = "stopped" /\ changelist' = <<>> /\ events' = <<>>
  BY DEF RejectWithoutRoom
<1>2. StoreInv'
  BY <1>1, StoreSame DEF LoopInv
<1>3. QueueInv'
  BY <1>1, NeverDeafIsHeard DEF QueueInv, Runs
<1>4. BatchFresh' /\ RoundInv'
  BY <1>1 DEF LoopInv, BatchFresh, RoundInv
<1> QED
  BY <1>2, <1>3, <1>4 DEF LoopInv

\* kevent returns an event: a connection has one registration, so it is named
\* once.
LEMMA CollectInv ==
  ASSUME LoopInv, TableInv', ChainInv', NEW e \in ReadyEvents, Collect(e)
  PROVE  LoopInv'
<1>1. /\ pc = "wait" /\ changelist = <<>> /\ events' = Append(events, e)
      /\ \A i \in 1 .. Len(events) : ~SameKnote(events[i], e)
      /\ UNCHANGED <<poolVars, listVars, sockVars, changelist, pc, cursor, g_running, crowd>>
  BY DEF Collect, LoopInv, RoundInv
<1>2. StoreInv' /\ Live' = Live
  BY <1>1, StoreSame DEF LoopInv
<1>3. QueueInv'
  BY <1>1, <1>2, QueueSame DEF LoopInv, sockVars, Runs
<1>4. /\ e \in Events
      /\ e.udata \in Slots =>
           e.fd \in Fds /\ e.filter \in Filters /\ kq[e.fd][e.filter] = e.udata
  <2>1. CASE e \in {TagEvent(Listener), TagEvent(Timer)}
    BY <2>1, SlotIsNoNull DEF TagEvent, Event, Events, Filters
  <2>2. ASSUME NEW flag \in {"none", "EOF"}, NEW f \in Fds, NEW x \in Filters,
               kq[f][x] # NoConn, e = Event(flag, f, x, kq[f][x])
        PROVE  e \in Events /\ e.fd \in Fds /\ e.filter \in Filters
                 /\ kq[e.fd][e.filter] = e.udata
    BY <2>2 DEF Event, Events, LoopInv, StoreInv, SockTypes
  <2>3. ASSUME e \notin {TagEvent(Listener), TagEvent(Timer)}
        PROVE  \E flag \in {"none", "EOF"}, f \in Fds, x \in Filters :
                 kq[f][x] # NoConn /\ e = Event(flag, f, x, kq[f][x])
    BY <2>3 DEF ReadyEvents
  <2> QED
    BY <2>1, <2>2, <2>3
<1>5. events \in Seq(Events)
  BY DEF LoopInv, BatchFresh
<1>6. /\ events' \in Seq(Events)
      /\ Len(events) \in Nat /\ Len(events') = Len(events) + 1
      /\ events'[Len(events')] = e
      /\ \A i \in 1 .. Len(events') :
           \/ i \in 1 .. Len(events) /\ events'[i] = events[i]
           \/ i = Len(events') /\ events'[i] = e
  BY <1>1, <1>4, <1>5
<1>7. e.udata \in Slots => e.fd = fd_[e.udata]
  BY <1>4, SlotIsNoNull DEF LoopInv, StoreInv, KqFresh
<1>8. e.udata \in Slots => \A i \in 1 .. Len(events) : events[i].udata # e.udata
  <2> SUFFICES ASSUME NEW i \in 1 .. Len(events), e.udata \in Slots, events[i].udata = e.udata
               PROVE  FALSE
    OBVIOUS
  <2> DEFINE d == events[i]
             c == e.udata
  <2>1. d \in Events
    BY <1>5
  <2>2. /\ d.udata = c /\ d.fd = fd_[c] /\ e.fd = fd_[c]
        /\ kq[d.fd][d.filter] = c /\ kq[e.fd][e.filter] = c
        /\ d.filter \in Filters /\ e.filter \in Filters /\ c \in Slots
    BY <1>1, <1>4, <1>7, <2>1 DEF Events, LoopInv, BatchFresh, RoundInv
  <2>3. d.filter # e.filter
    BY <1>1, <2>2 DEF SameKnote
  <2>4. c \in Live
    BY <1>4, <2>2, Owns DEF LoopInv
  <2>5. Hears(changelist, kq, conn[c], fd_[c], c)
    BY <1>1, <2>4, NeverDeafIsHeard DEF LoopInv, QueueInv, Runs
  <2>6. \A x \in Filters : RegIn(changelist, kq, fd_[c], x) = kq[fd_[c]][x]
    BY <1>1, RegNone
  <2> HIDE DEF d, c
  <2> QED
    BY <2>2, <2>3, <2>5, <2>6, SlotIsNoNull DEF Hears
<1>9. BatchFresh'
  <2> SUFFICES ASSUME NEW i \in 1 .. Len(events'), events'[i].udata \in Slots
               PROVE  /\ events'[i].fd \in Fds
                      /\ events'[i].fd = fd_[events'[i].udata]
                      /\ \A j \in 1 .. Len(events') :
                           events'[j].udata = events'[i].udata => i = j
    BY <1>1, <1>6 DEF BatchFresh, sockVars
  <2>1. CASE i = Len(events') /\ events'[i] = e
    BY <1>4, <1>6, <1>7, <1>8, <2>1
  <2>2. CASE i \in 1 .. Len(events) /\ events'[i] = events[i]
    BY <1>6, <1>8, <2>2 DEF LoopInv, BatchFresh
  <2> QED
    BY <1>6, <2>1, <2>2
<1>10. RoundInv'
  BY <1>1, <1>4, <1>6 DEF LoopInv, RoundInv, sockVars, listVars
<1> QED
  BY <1>2, <1>3, <1>9, <1>10 DEF LoopInv

\* The two ways to destroy a connection that nothing names any more.
LEMMA DestroyKeeps ==
  ASSUME LoopInv, TableInv', ChainInv', NEW c \in Live,
         DestroyConnection(c) \/ DestroyClosed(c), Runs,
         \A j \in 1 .. Len(changelist) : changelist[j].udata # c,
         events' = events \/ (events # <<>> /\ events' = Tail(events)),
         \A i \in 1 .. Len(events') : events'[i].udata # c
  PROVE  /\ StoreInv' /\ QueueInv' /\ BatchFresh'
         /\ \A d \in Slots : in_keepalive_list'[d] <=> in_keepalive_list[d] /\ d # c
<1>1. /\ RemoveFromKeepAliveList(c) /\ Close(c) /\ Release(c)
      /\ changelist' \in {changelist, changelist \o DeleteBoth(fd_[c])}
  BY DEF DestroyConnection, DestroyClosed
<1>2. c \in Slots
  BY DEF Live
<1>3. \A d \in Slots : in_keepalive_list'[d] <=> in_keepalive_list[d] /\ d # c
  BY <1>1, <1>2, Removed DEF LoopInv, StoreInv, TableInv
<1>4. StoreInv'
  BY <1>1, <1>3, CloseStore DEF LoopInv, Release
<1>5. QueueInv' /\ BatchFresh'
  BY <1>1, CloseKeeps DEF LoopInv
<1> QED
  BY <1>3, <1>4, <1>5

\* EV_EOF or EV_ERROR.
LEMMA GoneInv ==
  ASSUME LoopInv, TableInv', ChainInv', DispatchGone
  PROVE  LoopInv'
<1> DEFINE c == ev.udata
<1>1. /\ pc = "dispatch" /\ events # <<>> /\ events' = Tail(events)
      /\ c \in Slots /\ DestroyConnection(c) /\ UNCHANGED <<pc, cursor, g_running, crowd>>
  BY DEF DispatchGone, Dispatching
<1>2. c \in Live
  BY <1>1, EventNamesLive, HeadIsFirst DEF LoopInv
<1>3. /\ \A i \in 1 .. Len(events') : events'[i].udata # c
      /\ \A j \in 1 .. Len(changelist) : changelist[j].udata # c
  BY <1>1, HeadIsAlone DEF LoopInv
<1> HIDE DEF c
<1>4. StoreInv' /\ QueueInv' /\ BatchFresh'
  BY <1>1, <1>2, <1>3, DestroyKeeps DEF Runs
<1>5. RoundInv'
  BY <1>1 DEF LoopInv, RoundInv
<1> QED
  BY <1>4, <1>5 DEF LoopInv

\* The sweep reaps a connection of which nothing is under way.
LEMMA ReapInv ==
  ASSUME LoopInv, TableInv', ChainInv', SweepExpired, ~ExpiryRace
  PROVE  LoopInv'
<1>1. /\ pc = "sweep" /\ cursor # NoConn /\ cursor' = keepalive_next[cursor]
      /\ DestroyConnection(cursor) /\ ~UnderWay(cursor)
      /\ UNCHANGED <<events, pc, g_running, crowd>>
  BY DEF SweepExpired, Expires
<1>2. cursor \in Slots /\ in_keepalive_list[cursor]
  BY <1>1 DEF LoopInv, RoundInv
<1>3. cursor \in Live
  BY <1>2 DEF LoopInv, StoreInv, Live
<1>4. /\ \A i \in 1 .. Len(events') : events'[i].udata # cursor
      /\ \A j \in 1 .. Len(changelist) : changelist[j].udata # cursor
  BY <1>1 DEF UnderWay
<1>5. /\ StoreInv' /\ QueueInv' /\ BatchFresh'
      /\ \A d \in Slots : in_keepalive_list'[d] <=> in_keepalive_list[d] /\ d # cursor
  BY <1>1, <1>3, <1>4, DestroyKeeps DEF Runs
<1>6. /\ cursor' \in Slots \union {NoConn} /\ cursor' # cursor
      /\ cursor' # NoConn => in_keepalive_list[cursor']
  BY <1>1, <1>2, NextIsAnother DEF LoopInv, StoreInv
<1>7. RoundInv'
  BY <1>1, <1>5, <1>6 DEF LoopInv, RoundInv
<1> QED
  BY <1>5, <1>7 DEF LoopInv

\* process_connection.
LEMMA ProcessInv ==
  ASSUME LoopInv, TableInv', ChainInv', DispatchConnection
  PROVE  LoopInv'
<1> DEFINE c == ev.udata
<1>1. /\ pc = "dispatch" /\ events # <<>> /\ events' = Tail(events)
      /\ c \in Slots /\ ProcessConnection(c) /\ UNCHANGED <<pc, cursor, g_running, crowd>>
  BY DEF DispatchConnection, Dispatching
<1>2. c \in Live
  BY <1>1, EventNamesLive, HeadIsFirst DEF LoopInv
<1>3. /\ \A i \in 1 .. Len(events') : events'[i].udata # c
      /\ \A j \in 1 .. Len(changelist) : changelist[j].udata # c
  BY <1>1, HeadIsAlone DEF LoopInv
<1> HIDE DEF c
<1>4. RoundInv'
  BY <1>1 DEF LoopInv, RoundInv
<1>5. ConnOK(conn[c]) /\ conn[c].state # "CLOSED"
  BY <1>1, <1>2 DEF LoopInv, StoreInv, Live
<1>6. CASE ProcessDied(c)
  <2>1. DestroyClosed(c)
    BY <1>6 DEF ProcessDied
  <2>2. StoreInv' /\ QueueInv' /\ BatchFresh'
    BY <1>1, <1>2, <1>3, <2>1, DestroyKeeps DEF Runs
  <2> QED
    BY <1>4, <2>2 DEF LoopInv
<1>7. CASE ProcessClosedInline(c)
  <2>1. /\ SyncKeepAliveList(c, "CLOSED") /\ Close(c)
        /\ UNCHANGED <<poolVars, changelist>>
    BY <1>7 DEF ProcessClosedInline
  <2>2. \A d \in Slots : in_keepalive_list'[d] <=>
                         IF d = c THEN "CLOSED" = "KEEP_ALIVE" ELSE in_keepalive_list[d]
    BY <1>2, <2>1, SyncIsTableStep DEF LoopInv
  <2>3. StoreInv'
    BY <1>2, <2>1, <2>2, CloseStore DEF LoopInv, poolVars
  <2>4. QueueInv' /\ BatchFresh'
    BY <1>1, <1>2, <1>3, <2>1, CloseKeeps DEF LoopInv, Runs
  <2> QED
    BY <1>4, <2>3, <2>4 DEF LoopInv
<1>8. CASE ProcessCarried(c)
  <2>1. PICK o \in Carried(conn[c]) :
          /\ o.conn.state # "CLOSED"
          /\ conn' = [conn EXCEPT ![c] = o.conn]
          /\ SyncKeepAliveList(c, o.conn.state)
          /\ changelist' = changelist \o WantChanges(c, fd_[c], o.want)
          /\ UNCHANGED <<poolVars, fd_, open_fds, kq>>
    BY <1>8 DEF ProcessCarried
  <2>2. ConnOK(o.conn) /\ o.want \in Wants /\ (Listens(o.conn) => o.want = "READ")
    BY <1>5, <2>1, CarriedFits
  <2>3. \A d \in Slots : in_keepalive_list'[d] <=>
                         IF d = c THEN o.conn.state = "KEEP_ALIVE" ELSE in_keepalive_list[d]
    BY <1>2, <2>1, SyncIsTableStep DEF LoopInv
  <2>4. StoreInv' /\ Live' = Live
    BY <1>2, <2>1, <2>2, <2>3, UpdateStore DEF LoopInv, poolVars
  <2>5. /\ QueueInv'
        /\ \A d \in Slots :
             d # c /\ (\A j \in 1 .. Len(changelist) : changelist[j].udata # d)
               => \A j \in 1 .. Len(changelist') : changelist'[j].udata # d
    BY <1>1, <1>2, <2>1, <2>2, <2>4, CarryQueue DEF LoopInv, Runs
  <2>6. BatchFresh'
    BY <1>1, <1>3, <2>1, <2>5, BatchKept DEF LoopInv
  <2> QED
    BY <1>4, <2>4, <2>5, <2>6 DEF LoopInv
<1> QED
  BY <1>1, <1>5, <1>6, <1>7, <1>8 DEF ProcessConnection

\* accept() and create_connection.
LEMMA AcceptInv ==
  ASSUME LoopInv, TableInv', ChainInv', AcceptConnection
  PROVE  LoopInv'
<1>1. PICK f \in Fds \ open_fds, s \in Slots : CreateConnection(s, f)
  BY DEF AcceptConnection
<1>2. pc = "accept" /\ UNCHANGED <<kq, events, pc, cursor, g_running, crowd>>
  BY DEF AcceptConnection
<1>3. StoreInv'
  BY <1>1, <1>2, OpenStore DEF LoopInv
<1>4. /\ QueueInv'
      /\ \A d \in Slots :
           d # s /\ (\A j \in 1 .. Len(changelist) : changelist[j].udata # d)
             => \A j \in 1 .. Len(changelist') : changelist'[j].udata # d
  BY <1>1, <1>2, OpenQueue DEF LoopInv, Runs
<1>5. s \notin Live /\ \A d \in Slots : d # s => fd_'[d] = fd_[d]
  BY <1>1, OpensTo DEF LoopInv
<1>6. \A i \in 1 .. Len(events) : events[i].udata # s
  BY <1>5, EventNamesLive DEF LoopInv
<1>7. BatchFresh'
  BY <1>2, <1>4, <1>5, <1>6, BatchKept DEF LoopInv
<1>8. RoundInv'
  BY <1>2 DEF LoopInv, RoundInv
<1> QED
  BY <1>3, <1>4, <1>7, <1>8 DEF LoopInv

\* A connection grows old.
LEMMA AgeInv ==
  ASSUME LoopInv, TableInv', ChainInv', NEW c \in Slots, TimePasses(c)
  PROVE  LoopInv'
<1> DEFINE k == [conn[c] EXCEPT !.idle = TRUE]
<1>1. /\ conn[c].state = "KEEP_ALIVE" /\ conn' = [conn EXCEPT ![c].idle = TRUE]
      /\ UNCHANGED <<poolVars, listVars, fd_, open_fds, kq, loopVars>>
  BY DEF TimePasses
<1>2. conn \in [Slots -> ConnRecords] /\ ConnOK(conn[c])
  BY DEF LoopInv, StoreInv, SockTypes
<1>3. conn' = [conn EXCEPT ![c] = k]
  BY <1>1
<1>4. ConnOK(k) /\ k.state = "KEEP_ALIVE" /\ k.ssl = conn[c].ssl
  BY <1>1, <1>2 DEF ConnOK, ConnRecords
<1> HIDE DEF k
<1>5. c \in Live /\ in_keepalive_list[c]
  BY <1>1 DEF Live, LoopInv, StoreInv
<1>6. \A d \in Slots : in_keepalive_list'[d] <=>
                       IF d = c THEN k.state = "KEEP_ALIVE" ELSE in_keepalive_list[d]
  BY <1>1, <1>4, <1>5 DEF listVars
<1>7. StoreInv' /\ Live' = Live
  BY <1>1, <1>3, <1>4, <1>5, <1>6, UpdateStore DEF LoopInv, poolVars
<1>8. \A d \in Live : Listens(conn'[d]) => Listens(conn[d])
  BY <1>1, <1>2, <1>3, <1>4 DEF Listens, Live
<1>9. QueueInv'
  BY <1>1, <1>7, <1>8, QueueSame DEF LoopInv, loopVars, Runs
<1>10. BatchFresh' /\ RoundInv'
  BY <1>1 DEF LoopInv, BatchFresh, RoundInv, loopVars, listVars
<1> QED
  BY <1>7, <1>9, <1>10 DEF LoopInv

\* The step of the induction.
LEMMA LoopNextInv ==
  ASSUME ~ExpiryRace, LoopInv, [Next]_vars
  PROVE  LoopInv'
<1>1. TableInv' /\ ChainInv'
  BY TableKept
<1>2. CASE Thread
  BY <1>1, <1>2, TurnInv, StrollInv, ApplyInv, RejectInv, NoRoomInv, GoneInv, ReapInv,
     ProcessInv, AcceptInv DEF Thread, Submit, Dispatch, Accept, Sweep
<1>3. CASE \E e \in ReadyEvents : Collect(e)
  BY <1>1, <1>3, CollectInv
<1>4. CASE \E c \in Slots : TimePasses(c)
  BY <1>1, <1>4, AgeInv
<1>5. CASE Signal \/ Stopped \/ UNCHANGED vars
  BY <1>1, <1>5, TurnInv
<1> QED
  BY <1>2, <1>3, <1>4, <1>5 DEF Next

\* Its beginning.
LEMMA LoopInitInv == Init => LoopInv
<1> SUFFICES ASSUME Init PROVE LoopInv
  OBVIOUS
<1>1. TableInv /\ ChainInv
  BY PoolInitInv, ListInitInv, ChainInit DEF Init, TableInv, MembersAreLent, ListInit
<1>2. Live = {} /\ SockTypes
  BY ClosedFields DEF Init, Live, SockTypes, Filters
<1>3. StoreInv
  BY <1>1, <1>2, ClosedFields
     DEF Init, ListInit, StoreInv, DescriptorsOwned, KqFresh, ConnOK
<1>4. QueueInv
  BY <1>2 DEF Init, QueueInv, NeverDeaf
<1>5. BatchFresh /\ RoundInv
  BY PoolAssumption DEF Init, BatchFresh, RoundInv
<1> QED
  BY <1>3, <1>4, <1>5 DEF LoopInv

\* The invariant holds in every reachable state, as long as no connection
\* expires with something of its own under way in the same round.
THEOREM LoopInvariance == ~ExpiryRace => (Spec => []LoopInv)
<1> SUFFICES ASSUME ~ExpiryRace PROVE Spec => []LoopInv
  OBVIOUS
<1>1. LoopInv /\ [Next]_vars => LoopInv'
  BY LoopNextInv
<1> QED
  BY <1>1, LoopInitInv, PTL DEF Spec

--------------------------------------------------------------------------------
(* What it gives.                                                              *)

\* Types of the composed state.
THEOREM LoopTypesCorrect == ~ExpiryRace => (Spec => []TypeOK)
<1> SUFFICES ASSUME ~ExpiryRace PROVE Spec => []TypeOK
  OBVIOUS
<1>1. LoopInv => TypeOK
  BY DEF LoopInv, StoreInv, RoundInv, SockTypes, TypeOK, TableInv, PoolInv, ListInv
<1> QED
  BY <1>1, LoopInvariance, PTL

\* Every live connection owns one open descriptor, and every open descriptor
\* has an owner.
THEOREM DescriptorsAlwaysOwned == ~ExpiryRace => (Spec => []DescriptorsOwned)
<1> SUFFICES ASSUME ~ExpiryRace PROVE Spec => []DescriptorsOwned
  OBVIOUS
<1>1. LoopInv => DescriptorsOwned
  BY DEF LoopInv, StoreInv
<1> QED
  BY <1>1, LoopInvariance, PTL

\* The keep-alive list holds the connections in KEEP_ALIVE, and the sweep can
\* see each of them.
THEOREM ListAlwaysFollowsState == ~ExpiryRace => (Spec => []ListFollowsState)
<1> SUFFICES ASSUME ~ExpiryRace PROVE Spec => []ListFollowsState
  OBVIOUS
<1>1. LoopInv => ListFollowsState
  BY ChainIsWalked DEF LoopInv, StoreInv, TableInv, ListInv, ListFollowsState
<1> QED
  BY <1>1, LoopInvariance, PTL

\* No udata pointer outlives its connection, and no batch names a connection
\* twice or one whose registration is under way.
THEOREM PointersAlwaysFresh == ~ExpiryRace => (Spec => []PointersFresh)
<1> SUFFICES ASSUME ~ExpiryRace PROVE Spec => []PointersFresh
  OBVIOUS
<1>1. LoopInv => PointersFresh
  BY DEF LoopInv, StoreInv, KqFresh, QueueInv, BatchFresh, RoundInv, PointersFresh,
         NamedOnce
<1> QED
  BY <1>1, LoopInvariance, PTL

\* The loop hears of every live connection.
THEOREM NeverGoesDeaf == ~ExpiryRace => (Spec => []NeverDeaf)
<1> SUFFICES ASSUME ~ExpiryRace PROVE Spec => []NeverDeaf
  OBVIOUS
<1>1. LoopInv => NeverDeaf
  BY DEF LoopInv, QueueInv
<1> QED
  BY <1>1, LoopInvariance, PTL

--------------------------------------------------------------------------------
(* The loop and the table.                                                     *)

\* The loop uses the pool and the list as they ask for: acquired slots only are
\* released, each once, and only unlinked ones.
THEOREM LoopImplementsTable == ~ExpiryRace => (Spec => TableSpec)
<1> SUFFICES ASSUME ~ExpiryRace PROVE Spec => TableSpec
  OBVIOUS
<1>1. Init => TableInit
  BY DEF Init, TableInit
<1>2. LoopInv /\ [Next]_vars => [TableNext]_tableVars
  BY LoopIsTableStep
<1> QED
  BY <1>1, <1>2, LoopInvariance, PTL DEF Spec, TableSpec

\* So under the loop the pool is an allocator that hands out no slot twice, and
\* the list a sequence of the idle connections, latest first.
THEOREM LoopImplementsBoth == ~ExpiryRace => (Spec => AllocatorSpec /\ RecencySpec)
<1> SUFFICES ASSUME ~ExpiryRace PROVE Spec => AllocatorSpec /\ RecencySpec
  OBVIOUS
<1> QED
  BY LoopImplementsTable, TableImplementsBoth, PTL

\* release() only gets what acquire() handed out and nobody returned.
THEOREM ReleasesAreLent == ~ExpiryRace => (Spec => ReleasesOnlyLentSlots)
<1> SUFFICES ASSUME ~ExpiryRace PROVE Spec => ReleasesOnlyLentSlots
  OBVIOUS
<1>1. PoolInv /\ [PoolNext]_poolVars
        => [active_count' = Dec(active_count) => lent' # lent]_poolVars
  <2> SUFFICES ASSUME PoolInv, PoolNext, UNCHANGED lent PROVE UNCHANGED poolVars
    BY DEF poolVars
  <2>1. ASSUME NEW s \in Slots, Acquire(s) PROVE FALSE
    BY <2>1, AcquireInv DEF Acquire
  <2>2. ASSUME NEW s \in lent, Release(s) PROVE FALSE
    BY <2>2 DEF Release
  <2> QED
    BY <2>1, <2>2 DEF PoolNext, AcquireFull
<1> QED
  BY <1>1, LoopImplementsTable, TableImplementsPool, PoolInvariance, PTL
     DEF PoolSpec, ReleasesOnlyLentSlots

--------------------------------------------------------------------------------
(* What a step does to a connection.                                           *)

\* Each step leaves a connection as it is, closes it, opens it in a free slot,
\* or carries it on; only the write right after parsing closes one whose slot
\* stays lent.
LEMMA Moves ==
  ASSUME LoopInv, Next
  PROVE  \/ UNCHANGED <<conn, lent>>
         \/ \E c \in Live : Close(c) /\ lent' = lent \ {c}
         \/ \E c \in Live : Close(c) /\ lent' = lent /\ InlineSendMayFail
         \/ \E s \in Slots, f \in Fds \ open_fds : CreateConnection(s, f)
         \/ \E c \in Live, k \in ConnRecords :
              /\ conn' = [conn EXCEPT ![c] = k] /\ lent' = lent
              /\ k.state # "CLOSED" /\ (conn[c].ssl => k.ssl)
<1>1. ASSUME NEW c \in Live, DestroyConnection(c) \/ DestroyClosed(c)
      PROVE  Close(c) /\ lent' = lent \ {c}
  BY <1>1 DEF DestroyConnection, DestroyClosed, Release
<1>2. CASE DispatchGone
  <2>1. ev.udata \in Live
    BY <1>2, EventNamesLive, HeadIsFirst DEF DispatchGone, Dispatching, LoopInv
  <2> QED
    BY <1>1, <1>2, <2>1 DEF DispatchGone
<1>3. CASE SweepExpired
  <2>1. cursor \in Live
    BY <1>3 DEF SweepExpired, LoopInv, RoundInv, StoreInv, Live
  <2> QED
    BY <1>1, <1>3, <2>1 DEF SweepExpired
<1>4. CASE DispatchConnection
  <2> DEFINE c == ev.udata
  <2>1. c \in Live
    BY <1>4, EventNamesLive, HeadIsFirst DEF DispatchConnection, Dispatching, LoopInv
  <2>2. ConnOK(conn[c]) /\ conn[c].state # "CLOSED" /\ ProcessConnection(c)
    BY <1>4, <2>1 DEF DispatchConnection, LoopInv, StoreInv, Live
  <2> HIDE DEF c
  <2>3. CASE ProcessDied(c)
    BY <1>1, <2>1, <2>3 DEF ProcessDied
  <2>4. CASE ProcessClosedInline(c)
    BY <2>1, <2>2, <2>4, CarriedFits DEF ProcessClosedInline, poolVars
  <2>5. CASE ProcessCarried(c)
    <3>1. PICK o \in Carried(conn[c]) :
            o.conn.state # "CLOSED" /\ conn' = [conn EXCEPT ![c] = o.conn] /\ UNCHANGED poolVars
      BY <2>5 DEF ProcessCarried
    <3>2. o.conn \in ConnRecords /\ (conn[c].ssl => o.conn.ssl)
      BY <2>2, <3>1, CarriedFits DEF ConnOK
    <3> QED
      BY <2>1, <3>1, <3>2 DEF poolVars
  <2> QED
    BY <2>2, <2>3, <2>4, <2>5 DEF ProcessConnection
<1>5. CASE AcceptConnection
  BY <1>5 DEF AcceptConnection
<1>6. ASSUME NEW c \in Slots, TimePasses(c)
      PROVE  \E d \in Live, k \in ConnRecords :
               /\ conn' = [conn EXCEPT ![d] = k] /\ lent' = lent
               /\ k.state # "CLOSED" /\ (conn[d].ssl => k.ssl)
  <2> DEFINE k == [conn[c] EXCEPT !.idle = TRUE]
  <2>1. conn \in [Slots -> ConnRecords] /\ conn[c].state = "KEEP_ALIVE"
    BY <1>6 DEF LoopInv, StoreInv, SockTypes, TimePasses
  <2>2. k \in ConnRecords /\ k.state = "KEEP_ALIVE" /\ k.ssl = conn[c].ssl
    BY <2>1 DEF ConnRecords
  <2>3. conn' = [conn EXCEPT ![c] = k] /\ lent' = lent /\ c \in Live
    BY <1>6, <2>1 DEF TimePasses, poolVars, Live
  <2> HIDE DEF k
  <2> QED
    BY <2>2, <2>3
<1>7. CASE \/ TestRunning \/ Submit \/ ReturnEvents \/ BatchDone \/ DispatchCrash
           \/ Signal \/ Stopped \/ \E e \in ReadyEvents : Collect(e)
  BY <1>7 DEF TestRunning, Submit, ApplyChange, RejectChange, RejectWithoutRoom, Submitted,
              ReturnEvents, BatchDone, DispatchCrash, Signal, Stopped, Collect, vars,
              poolVars, sockVars
<1>8. CASE DispatchNothing \/ DispatchListener \/ DispatchTimer \/ AcceptNone
             \/ AcceptRefused \/ SweepKept \/ SweepDone
  BY <1>8 DEF DispatchNothing, DispatchListener, DispatchTimer, AcceptNone, AcceptRefused,
              AcquireFull, SweepKept, SweepDone, poolVars, sockVars
<1> QED
  BY <1>2, <1>3, <1>4, <1>5, <1>6, <1>7, <1>8 DEF Next, Thread, Dispatch, Accept, Sweep

\* A connection that speaks TLS does so until it is closed.
THEOREM TlsStaysUntilClosed == ~ExpiryRace => (Spec => TlsUntilClosed)
<1> SUFFICES ASSUME ~ExpiryRace PROVE Spec => TlsUntilClosed
  OBVIOUS
<1>1. LoopInv /\ [Next]_vars
        => [\A c \in Slots : conn[c].ssl => conn'[c].ssl \/ conn'[c].state = "CLOSED"]_vars
  <2> SUFFICES ASSUME LoopInv, Next, NEW d \in Slots, conn[d].ssl
               PROVE  conn'[d].ssl \/ conn'[d].state = "CLOSED"
    OBVIOUS
  <2>1. CASE UNCHANGED conn
    BY <2>1
  <2>2. ASSUME NEW c \in Live, Close(c) PROVE conn'[d].ssl \/ conn'[d].state = "CLOSED"
    BY <2>2, ClosesTo, ClosedFields DEF LoopInv
  <2>3. ASSUME NEW s \in Slots, NEW f \in Fds \ open_fds, CreateConnection(s, f)
        PROVE  conn'[d].ssl
    BY <2>3, OpensTo DEF LoopInv, StoreInv, ConnOK, Live
  <2>4. ASSUME NEW c \in Live, NEW k \in ConnRecords,
               conn' = [conn EXCEPT ![c] = k], conn[c].ssl => k.ssl
        PROVE  conn'[d].ssl
    BY <2>4 DEF LoopInv, StoreInv, SockTypes, Live
  <2> QED
    BY <2>1, <2>2, <2>3, <2>4, Moves
<1> QED
  BY <1>1, LoopInvariance, PTL DEF Spec, TlsUntilClosed

\* As long as no write right after parsing meets a dead socket, whatever closes
\* a connection gives its slot back: no slot leaks and none is in use when free.
THEOREM SlotsAlwaysAccounted ==
  ~ExpiryRace /\ ~InlineSendMayFail => (Spec => []SlotsInUseAreLive)
<1> SUFFICES ASSUME ~ExpiryRace, ~InlineSendMayFail PROVE Spec => []SlotsInUseAreLive
  OBVIOUS
<1>1. Init => SlotsInUseAreLive
  BY ClosedFields DEF Init, PoolInit, SlotsInUseAreLive, Live
<1>2. SlotsInUseAreLive /\ LoopInv /\ [Next]_vars => SlotsInUseAreLive'
  <2> SUFFICES ASSUME lent = Live, LoopInv, [Next]_vars PROVE lent' = Live'
    BY DEF SlotsInUseAreLive
  <2>1. CASE UNCHANGED <<conn, lent>> \/ UNCHANGED vars
    BY <2>1 DEF Live, vars, poolVars, sockVars
  <2>2. ASSUME NEW c \in Live, Close(c), lent' = lent \ {c} PROVE lent' = Live'
    BY <2>2, ClosesTo DEF LoopInv
  <2>3. ASSUME NEW s \in Slots, NEW f \in Fds \ open_fds, CreateConnection(s, f)
        PROVE  lent' = Live'
    BY <2>3, OpensTo DEF LoopInv
  <2>4. ASSUME NEW c \in Live, NEW k \in ConnRecords,
               conn' = [conn EXCEPT ![c] = k], lent' = lent, k.state # "CLOSED"
        PROVE  lent' = Live'
    BY <2>4 DEF LoopInv, StoreInv, SockTypes, Live
  <2> QED
    BY <2>1, <2>2, <2>3, <2>4, Moves
<1> QED
  BY <1>1, <1>2, LoopInvariance, PTL DEF Spec

--------------------------------------------------------------------------------
(* How many changes of a round can fail. A deletion may find nothing to delete *)
(* or a descriptor that is closed; a connection that the round has not touched *)
(* yet can still cost two of them, and each is touched once. crowd counts the  *)
(* connections when the round began: those accepted later cost a registration, *)
(* which does not fail, and are not touched again before the next round.       *)

Deletions(cl) == {i \in 1 .. Len(cl) : cl[i].op = "DELETE"}

\* The live connections of which no registration is queued.
Untouched == {c \in Live : \A j \in 1 .. Len(changelist) : changelist[j].udata # c}

\* The loop works through a batch.
InBatch == pc \in {"dispatch", "accept", "sweep"}

\* The errors of this round so far and those that may still come.
BoundInv ==
  /\ pc = "submit" => Len(events) + Cardinality(Deletions(changelist)) <= 2 * crowd
  /\ pc \in {"check", "wait"} => Cardinality(Deletions(changelist)) <= 2 * crowd
  /\ InBatch =>
       Cardinality(Deletions(changelist)) + 2 * Cardinality(Untouched) <= 2 * crowd

LEMMA DeletionsFinite ==
  ASSUME NEW cl \in Seq(Changes)
  PROVE  /\ IsFiniteSet(Deletions(cl)) /\ Cardinality(Deletions(cl)) \in Nat
         /\ cl = <<>> => Cardinality(Deletions(cl)) = 0
<1>1. IsFiniteSet(1 .. Len(cl)) /\ Deletions(cl) \in SUBSET (1 .. Len(cl))
  <2>1. Len(cl) \in Nat /\ 1 \in Int
    OBVIOUS
  <2>2. Deletions(cl) \in SUBSET (1 .. Len(cl))
    BY DEF Deletions
  <2> QED
    BY <2>1, <2>2, FS_Interval
<1>2. IsFiniteSet(Deletions(cl)) /\ Cardinality(Deletions(cl)) \in Nat
  BY <1>1, FS_Subset, FS_CardinalityType
<1>3. cl = <<>> => Deletions(cl) = {}
  BY DEF Deletions
<1> QED
  BY <1>2, <1>3, FS_EmptySet

LEMMA DeletionsAppend ==
  ASSUME NEW cl \in Seq(Changes), NEW ch \in Changes
  PROVE  Cardinality(Deletions(Append(cl, ch))) =
           Cardinality(Deletions(cl)) + IF ch.op = "DELETE" THEN 1 ELSE 0
<1> DEFINE m == Append(cl, ch)
<1>1. /\ Len(cl) \in Nat /\ Len(m) = Len(cl) + 1 /\ m[Len(cl) + 1] = ch
      /\ \A i \in 1 .. Len(cl) : m[i] = cl[i]
  OBVIOUS
<1> HIDE DEF m
<1>2. Len(cl) + 1 \notin Deletions(cl)
  BY <1>1 DEF Deletions
<1>3. CASE ch.op = "DELETE"
  <2>1. Deletions(m) = Deletions(cl) \union {Len(cl) + 1}
    BY <1>1, <1>3 DEF Deletions
  <2> QED
    BY <1>2, <1>3, <2>1, DeletionsFinite, FS_AddElement DEF m
<1>4. CASE ch.op # "DELETE"
  <2>1. Deletions(m) = Deletions(cl)
    BY <1>1, <1>4 DEF Deletions
  <2> QED
    BY <1>4, <2>1, DeletionsFinite DEF m
<1> QED
  BY <1>3, <1>4

LEMMA DeletionsTail ==
  ASSUME NEW cl \in Seq(Changes), cl # <<>>
  PROVE  Cardinality(Deletions(Tail(cl))) + (IF Head(cl).op = "DELETE" THEN 1 ELSE 0)
           <= Cardinality(Deletions(cl))
<1> DEFINE m == Tail(cl)
           rest == Deletions(cl) \ {1}
           f == [i \in Deletions(m) |-> i + 1]
<1>1. /\ m \in Seq(Changes) /\ Len(cl) \in Nat /\ Len(cl) >= 1 /\ Len(m) = Len(cl) - 1
      /\ cl[1] = Head(cl)
      /\ \A i \in 1 .. Len(m) : m[i] = cl[i + 1]
  OBVIOUS
<1> HIDE DEF m
<1>2. \A i \in Deletions(m) : i \in Nat /\ i + 1 \in rest
  BY <1>1 DEF Deletions
<1>3. 1 \in Deletions(cl) <=> Head(cl).op = "DELETE"
  BY <1>1 DEF Deletions
<1>4. /\ IsFiniteSet(rest)
      /\ Cardinality(rest) = Cardinality(Deletions(cl))
                               - IF Head(cl).op = "DELETE" THEN 1 ELSE 0
  BY <1>3, DeletionsFinite, FS_RemoveElement
<1>5. f \in Injection(Deletions(m), rest)
  BY <1>2 DEF Injection, IsInjective
<1> HIDE DEF rest, f
<1>6. Cardinality(Deletions(m)) <= Cardinality(rest)
  BY <1>4, <1>5, FS_Injection
<1>7. Cardinality(Deletions(m)) \in Nat /\ Cardinality(Deletions(cl)) \in Nat
  BY <1>1, DeletionsFinite
<1> QED
  BY <1>4, <1>6, <1>7 DEF m

LEMMA UntouchedFinite ==
  /\ IsFiniteSet(Untouched) /\ Cardinality(Untouched) \in 0 .. MAX_CONNECTIONS
  /\ IsFiniteSet(Untouched') /\ Cardinality(Untouched') \in 0 .. MAX_CONNECTIONS
<1>1. Cardinality(Slots) = MAX_CONNECTIONS /\ IsFiniteSet(Slots)
  BY PoolAssumption, FS_Interval DEF Slots
<1>2. Untouched \in SUBSET Slots /\ Untouched' \in SUBSET Slots
  BY DEF Untouched, Live
<1> QED
  BY <1>1, <1>2, FS_Subset, FS_CardinalityType

\* The numbers that it adds up.
LEMMA Counts ==
  ASSUME LoopInv
  PROVE  /\ Cardinality(Deletions(changelist)) \in Nat
         /\ Cardinality(Untouched) \in Nat /\ Cardinality(Untouched') \in Nat
         /\ crowd \in Nat /\ Len(events) \in Nat
<1>1. Cardinality(Untouched) \in Nat /\ Cardinality(Untouched') \in Nat
  BY UntouchedFinite
<1>2. Cardinality(Deletions(changelist)) \in Nat
  BY DeletionsFinite DEF LoopInv, QueueInv
<1>3. crowd \in Nat /\ Len(events) \in Nat
  BY PoolAssumption DEF LoopInv, RoundInv, BatchFresh
<1> QED
  BY <1>1, <1>2, <1>3

\* A connection that is touched leaves the untouched ones, and no other joins.
LEMMA UntouchedShrinks ==
  ASSUME changelist \in Seq(Changes), NEW more \in Seq(Changes),
         changelist' = changelist \o more,
         NEW c, Live' \subseteq Live \union {c},
         c \notin Live' \/ \E j \in 1 .. Len(more) : more[j].udata = c
  PROVE  Untouched' \subseteq Untouched \ {c}
<1>1. /\ \A j \in 1 .. Len(changelist) :
           j \in 1 .. Len(changelist') /\ changelist'[j] = changelist[j]
      /\ \A j \in 1 .. Len(more) :
           Len(changelist) + j \in 1 .. Len(changelist')
           /\ changelist'[Len(changelist) + j] = more[j]
  OBVIOUS
<1>2. c \notin Untouched'
  BY <1>1 DEF Untouched
<1>3. ASSUME NEW d \in Untouched' PROVE d \in Untouched
  BY <1>1, <1>2, <1>3 DEF Untouched
<1> QED
  BY <1>2, <1>3

\* So what was kept for it pays for two deletions.
LEMMA TouchedPays ==
  ASSUME changelist \in Seq(Changes), changelist' \in Seq(Changes),
         NEW c \in Untouched, Untouched' \subseteq Untouched \ {c},
         Cardinality(Deletions(changelist')) <= Cardinality(Deletions(changelist)) + 2
  PROVE  Cardinality(Deletions(changelist')) + 2 * Cardinality(Untouched')
           <= Cardinality(Deletions(changelist)) + 2 * Cardinality(Untouched)
<1>1. /\ IsFiniteSet(Untouched \ {c})
      /\ Cardinality(Untouched \ {c}) = Cardinality(Untouched) - 1
  BY UntouchedFinite, FS_RemoveElement
<1>2. Cardinality(Untouched') <= Cardinality(Untouched) - 1
  BY <1>1, FS_Subset
<1>3. /\ Cardinality(Deletions(changelist)) \in Nat /\ Cardinality(Deletions(changelist')) \in Nat
      /\ Cardinality(Untouched) \in Nat /\ Cardinality(Untouched') \in Nat
  BY DeletionsFinite, UntouchedFinite
<1> QED
  BY <1>2, <1>3

LEMMA TwoDeletions ==
  ASSUME NEW cl \in Seq(Changes), NEW a \in Changes, NEW b \in Changes
  PROVE  Cardinality(Deletions(cl \o <<a, b>>)) <= Cardinality(Deletions(cl)) + 2
<1> DEFINE one == Append(cl, a)
           two == Append(one, b)
<1>1. one \in Seq(Changes) /\ two \in Seq(Changes) /\ cl \o <<a, b>> = two
  OBVIOUS
<1>2. Cardinality(Deletions(one)) =
        Cardinality(Deletions(cl)) + IF a.op = "DELETE" THEN 1 ELSE 0
  BY DeletionsAppend
<1> HIDE DEF one
<1>3. Cardinality(Deletions(two)) =
        Cardinality(Deletions(one)) + IF b.op = "DELETE" THEN 1 ELSE 0
  BY <1>1, DeletionsAppend
<1>4. Cardinality(Deletions(cl)) \in Nat
  BY DeletionsFinite
<1> HIDE DEF two
<1>5. Cardinality(Deletions(two)) <= Cardinality(Deletions(cl)) + 2
  BY <1>2, <1>3, <1>4
<1> QED
  BY <1>1, <1>5

\* What update_events queues for a Want names the connection and deletes once.
LEMMA WantTouches ==
  ASSUME NEW cl \in Seq(Changes), NEW c \in Slots, NEW f \in Fds,
         NEW want \in {"READ", "WRITE"}
  PROVE  /\ WantChanges(c, f, want) \in Seq(Changes)
         /\ \E j \in 1 .. Len(WantChanges(c, f, want)) : WantChanges(c, f, want)[j].udata = c
         /\ Cardinality(Deletions(cl \o WantChanges(c, f, want)))
              <= Cardinality(Deletions(cl)) + 2
<1> DEFINE add == Change("ADD", f, want, c)
           del == Change("DELETE", f, IF want = "READ" THEN "WRITE" ELSE "READ", NoConn)
           pair == IF want = "READ" THEN <<add, del>> ELSE <<del, add>>
<1>1. /\ add \in Changes /\ add.op = "ADD" /\ add.udata = c
      /\ del \in Changes /\ del.op = "DELETE"
  BY ChangeFields DEF Filters
<1>2. WantChanges(c, f, want) = pair
  BY DEF WantChanges
<1> HIDE DEF add, del
<1>3. pair \in Seq(Changes) /\ \E j \in 1 .. Len(pair) : pair[j].udata = c
  <2>1. CASE want = "READ"
    <3>1. pair = <<add, del>> /\ 1 \in 1 .. Len(pair) /\ pair[1] = add
      BY <2>1
    <3> QED
      BY <1>1, <3>1
  <2>2. CASE want = "WRITE"
    <3>1. pair = <<del, add>> /\ 2 \in 1 .. Len(pair) /\ pair[2] = add
      BY <2>2
    <3> QED
      BY <1>1, <3>1
  <2> QED
    BY <2>1, <2>2
<1>4. Cardinality(Deletions(cl \o pair)) <= Cardinality(Deletions(cl)) + 2
  <2>1. \A a, b \in Changes : Cardinality(Deletions(cl \o <<a, b>>))
                                <= Cardinality(Deletions(cl)) + 2
    BY TwoDeletions
  <2> QED
    BY <1>1, <2>1
<1> QED
  BY <1>2, <1>3, <1>4

\* The steps of a batch that queue nothing and open or close no connection.
LEMMA RestBounds ==
  ASSUME LoopInv, BoundInv, UNCHANGED <<changelist, crowd>>, Live' = Live,
         InBatch, InBatch' \/ pc' \in {"check", "crashed"}
  PROVE  BoundInv'
<1>1. Untouched' = Untouched
  BY DEF Untouched
<1>2. Cardinality(Deletions(changelist)) + 2 * Cardinality(Untouched) <= 2 * crowd
  BY DEF BoundInv
<1>3. Cardinality(Deletions(changelist)) <= 2 * crowd
  BY <1>2, Counts
<1> QED
  BY <1>1, <1>2, <1>3 DEF BoundInv, InBatch

\* A round begins with all connections untouched and nothing queued.
LEMMA RoundBegins ==
  ASSUME changelist' = <<>>, Live' = Live, crowd' = Cardinality(Live), pc' = "dispatch"
  PROVE  BoundInv'
<1>1. Untouched' \subseteq Live
  BY DEF Untouched
<1>2. Cardinality(Untouched') <= Cardinality(Live)
  BY <1>1, LiveFinite, FS_Subset
<1>3. changelist' \in Seq(Changes)
  OBVIOUS
<1>4. Cardinality(Deletions(changelist')) = 0
  BY <1>3, DeletionsFinite
<1>5. Cardinality(Untouched') \in Nat /\ Cardinality(Live) \in Nat
  BY UntouchedFinite, LiveFinite, PoolAssumption
<1> QED
  BY <1>2, <1>4, <1>5 DEF BoundInv, InBatch

\* The steps of kevent.
LEMMA SubmitBounds ==
  ASSUME LoopInv, BoundInv, Submit
  PROVE  BoundInv'
<1>1. changelist \in Seq(Changes) /\ events \in Seq(Events)
  BY DEF LoopInv, QueueInv, BatchFresh
<1>2. Cardinality(Deletions(changelist)) \in Nat /\ Len(events) \in Nat
  BY <1>1, DeletionsFinite
<1>3. ASSUME changelist # <<>>, changelist' = Tail(changelist)
      PROVE  /\ Cardinality(Deletions(changelist')) \in Nat
             /\ Cardinality(Deletions(changelist'))
                  + (IF Head(changelist).op = "DELETE" THEN 1 ELSE 0)
                  <= Cardinality(Deletions(changelist))
  <2>1. changelist' \in Seq(Changes)
    BY <1>1, <1>3
  <2> QED
    BY <1>1, <1>3, <2>1, DeletionsFinite, DeletionsTail
<1>4. CASE ApplyChange
  <2>1. /\ pc = "submit" /\ UNCHANGED <<pc, events, crowd>>
        /\ changelist # <<>> /\ changelist' = Tail(changelist)
    BY <1>4 DEF ApplyChange
  <2>2. /\ Cardinality(Deletions(changelist')) \in Nat
        /\ Cardinality(Deletions(changelist')) <= Cardinality(Deletions(changelist))
    BY <1>2, <1>3, <2>1
  <2>3. Len(events) + Cardinality(Deletions(changelist)) <= 2 * crowd
    BY <2>1 DEF BoundInv
  <2>4. Len(events') + Cardinality(Deletions(changelist')) <= 2 * crowd
    BY <1>2, <2>1, <2>2, <2>3, Counts
  <2> QED
    BY <2>1, <2>4 DEF BoundInv, InBatch
<1>5. CASE RejectChange
  <2>1. /\ pc = "submit" /\ UNCHANGED <<pc, crowd>> /\ Len(events') = Len(events) + 1
        /\ changelist # <<>> /\ ~Applies(Head(changelist)) /\ changelist' = Tail(changelist)
    BY <1>1, <1>5 DEF RejectChange
  <2>2. Head(changelist).op = "DELETE"
    BY <2>1, FailsOnlyToDelete
  <2>3. /\ Cardinality(Deletions(changelist')) \in Nat
        /\ Cardinality(Deletions(changelist')) + 1 <= Cardinality(Deletions(changelist))
    BY <1>3, <2>1, <2>2
  <2>4. Len(events) + Cardinality(Deletions(changelist)) <= 2 * crowd
    BY <2>1 DEF BoundInv
  <2>5. Len(events') + Cardinality(Deletions(changelist')) <= 2 * crowd
    BY <1>2, <2>1, <2>3, <2>4, Counts
  <2> QED
    BY <2>1, <2>5 DEF BoundInv, InBatch
<1>6. CASE RejectWithoutRoom
  BY <1>6 DEF RejectWithoutRoom, BoundInv, InBatch
<1>7. CASE Submitted
  <2>1. /\ changelist' = <<>> /\ UNCHANGED conn /\ Live' = Live
        /\ \/ pc' = "wait" /\ crowd' = crowd
           \/ pc' = "dispatch" /\ crowd' = Cardinality(Live)
    BY <1>7 DEF Submitted, sockVars, Live
  <2>2. CASE pc' = "wait" /\ crowd' = crowd
    <3>1. changelist' \in Seq(Changes)
      BY <2>1
    <3>2. Cardinality(Deletions(changelist')) = 0
      BY <2>1, <3>1, DeletionsFinite
    <3> QED
      BY <2>2, <3>2, Counts DEF BoundInv, InBatch
  <2>3. CASE pc' = "dispatch" /\ crowd' = Cardinality(Live)
    BY <2>1, <2>3, RoundBegins
  <2> QED
    BY <2>1, <2>2, <2>3
<1> QED
  BY <1>4, <1>5, <1>6, <1>7 DEF Submit

\* A connection is closed: at most two deletions are queued.
LEMMA CloseBounds ==
  ASSUME LoopInv, BoundInv, NEW c \in Live, Close(c),
         changelist' \in {changelist, changelist \o DeleteBoth(fd_[c])},
         \A j \in 1 .. Len(changelist) : changelist[j].udata # c,
         InBatch, UNCHANGED <<pc, crowd>>
  PROVE  BoundInv'
<1>1. changelist \in Seq(Changes) /\ c \in Untouched /\ Live' = Live \ {c}
  BY ClosesTo DEF LoopInv, QueueInv, Untouched
<1>2. fd_[c] \in Fds
  BY Owns DEF LoopInv, Live
<1>3. DeleteBoth(fd_[c]) \in Seq(Changes)
  BY <1>2, ChangeFields DEF DeleteBoth, Filters
<1>4. PICK more \in Seq(Changes) : changelist' = changelist \o more
  <2>1. <<>> \in Seq(Changes) /\ changelist = changelist \o <<>>
    BY <1>1
  <2> QED
    BY <1>3, <2>1
<1>5. Untouched' \subseteq Untouched \ {c}
  BY <1>1, <1>4, UntouchedShrinks
<1>6. /\ changelist' \in Seq(Changes)
      /\ Cardinality(Deletions(changelist')) <= Cardinality(Deletions(changelist)) + 2
  <2>1. CASE changelist' = changelist
    BY <1>1, <2>1, DeletionsFinite
  <2>2. CASE changelist' = changelist \o DeleteBoth(fd_[c])
    <3>1. /\ Change("DELETE", fd_[c], "READ", NoConn) \in Changes
          /\ Change("DELETE", fd_[c], "WRITE", NoConn) \in Changes
      BY <1>2, ChangeFields DEF Filters
    <3>2. changelist' \in Seq(Changes)
      BY <1>1, <1>3, <2>2
    <3> QED
      BY <1>1, <2>2, <3>1, <3>2, TwoDeletions DEF DeleteBoth
  <2> QED
    BY <2>1, <2>2
<1>7. Cardinality(Deletions(changelist')) + 2 * Cardinality(Untouched')
        <= Cardinality(Deletions(changelist)) + 2 * Cardinality(Untouched)
  BY <1>1, <1>5, <1>6, TouchedPays
<1>8. Cardinality(Deletions(changelist')) \in Nat
  BY <1>6, DeletionsFinite
<1>9. Cardinality(Deletions(changelist)) + 2 * Cardinality(Untouched) <= 2 * crowd
  BY DEF BoundInv
<1>10. Cardinality(Deletions(changelist')) + 2 * Cardinality(Untouched') <= 2 * crowd
  BY <1>7, <1>8, <1>9, Counts
<1> QED
  BY <1>10 DEF BoundInv, InBatch

\* process_connection: a connection is closed, or its Want is queued.
LEMMA ProcessBounds ==
  ASSUME LoopInv, BoundInv, DispatchConnection
  PROVE  BoundInv'
<1> DEFINE c == ev.udata
<1>1. /\ pc = "dispatch" /\ InBatch /\ UNCHANGED <<pc, crowd>>
      /\ events # <<>> /\ events' = Tail(events)
      /\ c \in Slots /\ ProcessConnection(c)
  BY DEF DispatchConnection, Dispatching, InBatch
<1>2. c \in Live /\ conn[c].state # "CLOSED"
  BY <1>1, EventNamesLive, HeadIsFirst DEF LoopInv, Live
<1>3. \A j \in 1 .. Len(changelist) : changelist[j].udata # c
  BY <1>1, HeadIsAlone DEF LoopInv
<1> HIDE DEF c
<1>4. CASE ProcessDied(c) \/ ProcessClosedInline(c)
  <2>1. Close(c) /\ changelist' = changelist
    BY <1>4 DEF ProcessDied, DestroyClosed, ProcessClosedInline
  <2> QED
    BY <1>1, <1>2, <1>3, <2>1, CloseBounds
<1>5. CASE ProcessCarried(c)
  <2>1. ConnOK(conn[c])
    BY <1>1 DEF LoopInv, StoreInv
  <2>2. PICK o \in Carried(conn[c]) :
          /\ o.conn.state # "CLOSED"
          /\ conn' = [conn EXCEPT ![c] = o.conn]
          /\ changelist' = changelist \o WantChanges(c, fd_[c], o.want)
    BY <1>5 DEF ProcessCarried
  <2>3. o.want \in Wants
    BY <1>2, <2>1, <2>2, CarriedFits
  <2>4. Live' = Live
    BY <1>2, <2>2 DEF LoopInv, StoreInv, SockTypes, Live
  <2>5. changelist \in Seq(Changes) /\ c \in Slots /\ fd_[c] \in Fds
    BY <1>1, <1>2, Owns DEF LoopInv, QueueInv
  <2>6. CASE o.want = "NONE"
    <3>1. changelist' = changelist
      BY <2>2, <2>5, <2>6 DEF WantChanges
    <3> QED
      BY <1>1, <2>4, <3>1, RestBounds DEF InBatch
  <2>7. CASE o.want # "NONE"
    <3> DEFINE want == o.want
               more == WantChanges(c, fd_[c], want)
    <3>1. want \in {"READ", "WRITE"}
      BY <2>3, <2>7 DEF Wants
    <3> HIDE DEF want
    <3>2. /\ more \in Seq(Changes)
          /\ \E j \in 1 .. Len(more) : more[j].udata = c
          /\ Cardinality(Deletions(changelist \o more))
               <= Cardinality(Deletions(changelist)) + 2
      BY <2>5, <3>1, WantTouches
    <3> HIDE DEF more
    <3>3. changelist' = changelist \o more /\ changelist' \in Seq(Changes)
      BY <2>2, <2>5, <3>2 DEF more, want
    <3>4. Untouched' \subseteq Untouched \ {c} /\ c \in Untouched
      BY <1>2, <1>3, <2>4, <2>5, <3>2, <3>3, UntouchedShrinks DEF Untouched
    <3>5. Cardinality(Deletions(changelist')) + 2 * Cardinality(Untouched')
            <= Cardinality(Deletions(changelist)) + 2 * Cardinality(Untouched)
      BY <2>5, <3>2, <3>3, <3>4, TouchedPays
    <3>6. Cardinality(Deletions(changelist')) \in Nat
      BY <3>3, DeletionsFinite
    <3>7. Cardinality(Deletions(changelist)) + 2 * Cardinality(Untouched) <= 2 * crowd
      BY <1>1 DEF BoundInv
    <3>8. Cardinality(Deletions(changelist')) + 2 * Cardinality(Untouched') <= 2 * crowd
      BY <3>5, <3>6, <3>7, Counts
    <3> QED
      BY <1>1, <3>8 DEF BoundInv, InBatch
  <2> QED
    BY <2>6, <2>7
<1> QED
  BY <1>1, <1>2, <1>4, <1>5 DEF ProcessConnection

\* create_connection queues a registration, and the newcomer is touched.
LEMMA AcceptBounds ==
  ASSUME LoopInv, BoundInv, AcceptConnection
  PROVE  BoundInv'
<1>1. PICK f \in Fds \ open_fds, s \in Slots : CreateConnection(s, f)
  BY DEF AcceptConnection
<1>2. pc = "accept" /\ UNCHANGED <<pc, crowd>>
  BY DEF AcceptConnection
<1>3. Live' = Live \union {s}
  BY <1>1, OpensTo DEF LoopInv
<1> DEFINE ch == Change("ADD", f, "READ", s)
<1>4. ch \in Changes /\ ch.op = "ADD" /\ ch.udata = s
  BY ChangeFields DEF Filters
<1>5. changelist \in Seq(Changes) /\ changelist' = Append(changelist, ch)
  BY <1>1 DEF CreateConnection, LoopInv, QueueInv
<1> HIDE DEF ch
<1>6. /\ changelist' = changelist \o <<ch>> /\ <<ch>> \in Seq(Changes)
      /\ 1 \in 1 .. Len(<<ch>>) /\ <<ch>>[1] = ch
  BY <1>4, <1>5
<1>7. Untouched' \subseteq Untouched \ {s}
  BY <1>3, <1>4, <1>5, <1>6, UntouchedShrinks
<1>8. Cardinality(Deletions(changelist')) = Cardinality(Deletions(changelist))
  BY <1>4, <1>5, DeletionsAppend, DeletionsFinite
<1>9. Cardinality(Untouched') <= Cardinality(Untouched)
  BY <1>7, UntouchedFinite, FS_Subset
<1>10. Cardinality(Deletions(changelist)) + 2 * Cardinality(Untouched) <= 2 * crowd
  BY <1>2 DEF BoundInv, InBatch
<1>11. Cardinality(Deletions(changelist')) + 2 * Cardinality(Untouched') <= 2 * crowd
  BY <1>8, <1>9, <1>10, Counts
<1> QED
  BY <1>2, <1>11 DEF BoundInv, InBatch

LEMMA RoundBounds ==
  ASSUME ~ExpiryRace, LoopInv, BoundInv, [Next]_vars
  PROVE  BoundInv'
<1>1. CASE \/ BatchDone \/ DispatchNothing \/ DispatchListener \/ DispatchTimer
           \/ DispatchCrash \/ AcceptNone \/ AcceptRefused \/ SweepKept \/ SweepDone
  <2>1. /\ UNCHANGED <<changelist, conn, crowd>>
        /\ InBatch /\ (InBatch' \/ pc' \in {"check", "crashed"})
    BY <1>1 DEF BatchDone, DispatchNothing, DispatchListener, DispatchTimer, DispatchCrash,
                AcceptNone, AcceptRefused, SweepKept, SweepDone, Dispatching, sockVars, InBatch
  <2>2. Live' = Live
    BY <2>1 DEF Live
  <2> QED
    BY <2>1, <2>2, RestBounds
<1>2. CASE TestRunning
  <2>1. /\ pc = "check" /\ pc' \in {"submit", "stopped"} /\ events' = <<>>
        /\ UNCHANGED <<changelist, crowd>>
    BY <1>2 DEF TestRunning, LoopInv, RoundInv
  <2>2. Cardinality(Deletions(changelist)) <= 2 * crowd
    BY <2>1 DEF BoundInv
  <2>3. Len(events') + Cardinality(Deletions(changelist')) <= 2 * crowd
    BY <2>1, <2>2, Counts
  <2> QED
    BY <2>1, <2>3 DEF BoundInv, InBatch
<1>3. CASE Submit
  BY <1>3, SubmitBounds
<1>4. CASE DispatchGone
  <2> DEFINE c == ev.udata
  <2>1. /\ InBatch /\ UNCHANGED <<pc, crowd>> /\ events # <<>> /\ events' = Tail(events)
        /\ c \in Slots /\ DestroyConnection(c)
    BY <1>4 DEF DispatchGone, Dispatching, InBatch
  <2>2. c \in Live /\ \A j \in 1 .. Len(changelist) : changelist[j].udata # c
    BY <2>1, EventNamesLive, HeadIsFirst, HeadIsAlone DEF LoopInv
  <2> HIDE DEF c
  <2> QED
    BY <2>1, <2>2, CloseBounds DEF DestroyConnection
<1>5. CASE SweepExpired
  <2>1. /\ pc = "sweep" /\ InBatch /\ UNCHANGED <<pc, crowd>> /\ cursor # NoConn
        /\ DestroyConnection(cursor) /\ ~UnderWay(cursor)
    BY <1>5 DEF SweepExpired, Expires, InBatch
  <2>2. cursor \in Live
    BY <2>1 DEF LoopInv, StoreInv, RoundInv, Live
  <2>3. \A j \in 1 .. Len(changelist) : changelist[j].udata # cursor
    BY <2>1 DEF UnderWay
  <2> QED
    BY <2>1, <2>2, <2>3, CloseBounds DEF DestroyConnection
<1>6. ASSUME NEW c \in Slots, TimePasses(c) PROVE BoundInv'
  <2>1. /\ conn[c].state = "KEEP_ALIVE" /\ conn' = [conn EXCEPT ![c].idle = TRUE]
        /\ UNCHANGED loopVars
    BY <1>6 DEF TimePasses
  <2>2. Live' = Live
    BY <2>1 DEF LoopInv, StoreInv, SockTypes, ConnRecords, Live
  <2>3. Untouched' = Untouched
    BY <2>1, <2>2 DEF Untouched, loopVars
  <2> QED
    BY <2>1, <2>3 DEF BoundInv, InBatch, loopVars
<1>7. CASE Signal \/ Stopped \/ UNCHANGED vars
  <2>1. /\ UNCHANGED <<conn, changelist, events, crowd>>
        /\ pc' = pc \/ (pc = "wait" /\ pc' = "check")
    BY <1>7 DEF Signal, Blocking, Stopped, vars, loopVars, sockVars
  <2>2. Untouched' = Untouched
    BY <2>1 DEF Untouched, Live
  <2> QED
    BY <2>1, <2>2 DEF BoundInv, InBatch
<1>8. ASSUME NEW e \in ReadyEvents, Collect(e) PROVE BoundInv'
  BY <1>8 DEF Collect, BoundInv, InBatch
<1>9. CASE ReturnEvents
  <2>1. changelist' = <<>> /\ UNCHANGED conn /\ pc' = "dispatch" /\ crowd' = Cardinality(Live)
    BY <1>9 DEF ReturnEvents, LoopInv, RoundInv, sockVars
  <2>2. Live' = Live
    BY <2>1 DEF Live
  <2> QED
    BY <2>1, <2>2, RoundBegins
<1> QED
  BY <1>1, <1>2, <1>3, <1>4, <1>5, <1>6, <1>7, <1>8, <1>9, ProcessBounds, AcceptBounds
     DEF Next, Thread, Dispatch, Accept, Sweep

\* The count is an invariant.
LEMMA BoundInvariance == ~ExpiryRace => (Spec => [](LoopInv /\ BoundInv))
<1> SUFFICES ASSUME ~ExpiryRace PROVE Spec => [](LoopInv /\ BoundInv)
  OBVIOUS
<1>1. Init => BoundInv
  <2> SUFFICES ASSUME Init PROVE BoundInv
    OBVIOUS
  <2>1. changelist \in Seq(Changes) /\ changelist = <<>> /\ pc = "check"
    BY DEF Init
  <2>2. Cardinality(Deletions(changelist)) = 0
    BY <2>1, DeletionsFinite
  <2>3. crowd = 0
    BY DEF Init
  <2> QED
    BY <2>1, <2>2, <2>3 DEF BoundInv, InBatch
<1>2. LoopInv /\ BoundInv /\ [Next]_vars => BoundInv'
  BY RoundBounds
<1> QED
  BY <1>1, <1>2, LoopInvariance, PTL DEF Spec

\* A round makes at most two errors per connection that was open when it began,
\* however many connections end in it and however often their slots and
\* descriptors are used again (destroy_connection, update_events, run).
THEOREM RoundErrorsAreBounded ==
  ~ExpiryRace => (Spec => [](pc = "submit" => Len(events) <= 2 * crowd))
<1> SUFFICES ASSUME ~ExpiryRace
             PROVE  Spec => [](pc = "submit" => Len(events) <= 2 * crowd)
  OBVIOUS
<1>1. LoopInv /\ BoundInv => (pc = "submit" => Len(events) <= 2 * crowd)
  <2> SUFFICES ASSUME LoopInv, BoundInv, pc = "submit"
               PROVE  Len(events) <= 2 * crowd
    OBVIOUS
  <2>1. Len(events) + Cardinality(Deletions(changelist)) <= 2 * crowd
    BY DEF BoundInv
  <2> QED
    BY <2>1, Counts
<1> QED
  BY <1>1, BoundInvariance, PTL

\* Without a signal run() ends only if more than half as many connections were
\* open when the round began as kevent has room for events: more than 512 in the
\* program. The run events_full shows that it can end then.
THEOREM StopsOnlyWhenCrowded == ~ExpiryRace => (Spec => []StopsOnlyIfCrowded)
<1> SUFFICES ASSUME ~ExpiryRace PROVE Spec => []StopsOnlyIfCrowded
  OBVIOUS
<1>1. Init => StopsOnlyIfCrowded
  BY DEF Init, StopsOnlyIfCrowded
<1>2. LoopInv /\ BoundInv /\ StopsOnlyIfCrowded /\ [Next]_vars => StopsOnlyIfCrowded'
  <2> SUFFICES ASSUME LoopInv, BoundInv, StopsOnlyIfCrowded, [Next]_vars,
                      pc' = "stopped", g_running'
               PROVE  2 * crowd' > MAX_EVENTS
    BY DEF StopsOnlyIfCrowded
  <2>1. CASE RejectWithoutRoom
    <3>1. /\ pc = "submit" /\ changelist # <<>> /\ ~Applies(Head(changelist))
          /\ Len(events) = MAX_EVENTS /\ crowd' = crowd
      BY <2>1 DEF RejectWithoutRoom
    <3>2. Head(changelist).op = "DELETE" /\ changelist \in Seq(Changes)
      BY <3>1, FailsOnlyToDelete DEF LoopInv, QueueInv
    <3>3. Tail(changelist) \in Seq(Changes)
      BY <3>1, <3>2
    <3>4. /\ Cardinality(Deletions(Tail(changelist))) \in Nat
          /\ Cardinality(Deletions(Tail(changelist))) + 1 <= Cardinality(Deletions(changelist))
      BY <3>1, <3>2, <3>3, DeletionsFinite, DeletionsTail
    <3>5. MAX_EVENTS + Cardinality(Deletions(changelist)) <= 2 * crowd
      BY <3>1 DEF BoundInv
    <3> QED
      BY <3>1, <3>4, <3>5, Counts, LoopAssumption
  <2>2. CASE TestRunning
    BY <2>2 DEF TestRunning
  <2>3. CASE Signal \/ Stopped \/ UNCHANGED vars
    BY <2>3 DEF Signal, Blocking, Stopped, vars, loopVars, StopsOnlyIfCrowded
  <2>4. CASE \/ ApplyChange \/ RejectChange \/ Submitted \/ ReturnEvents
             \/ \E e \in ReadyEvents : Collect(e)
    BY <2>4 DEF ApplyChange, RejectChange, Submitted, ReturnEvents, Collect
  <2>5. CASE Dispatch
    BY <2>5 DEF Dispatch, DispatchNothing, DispatchGone, DispatchListener, DispatchTimer,
                DispatchConnection, DispatchCrash, BatchDone, Dispatching
  <2>6. CASE Accept \/ Sweep
    BY <2>6 DEF Accept, AcceptConnection, AcceptNone, AcceptRefused,
                Sweep, SweepExpired, SweepKept, SweepDone
  <2>7. CASE \E c \in Slots : TimePasses(c)
    BY <2>7 DEF TimePasses, loopVars, StopsOnlyIfCrowded
  <2> QED
    BY <2>1, <2>2, <2>3, <2>4, <2>5, <2>6, <2>7 DEF Next, Thread, Submit
<1> QED
  BY <1>1, <1>2, BoundInvariance, PTL DEF Spec
================================================================================
