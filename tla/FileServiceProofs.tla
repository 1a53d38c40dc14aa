---------------------------- MODULE FileServiceProofs ----------------------------
(* Proofs about FileService, for every root, every tree and every request.     *)
(* Between two system calls the tree may become anything, so what open and     *)
(* prepare_response know is never what is there but what was there: the        *)
(* invariant says for every place in the code which trees this request must    *)
(* have seen to get there, and what the response is made of when it is ready.  *)
EXTENDS FileService, FiniteSetTheorems, SetInduction, TLAPS

--------------------------------------------------------------------------------
(* The invariant.                                                              *)

\* The response between reset() and the first setter (do_parse).
Fresh == [ResetResponse(response) EXCEPT
            !.keep_alive = Parse(request.lines).ok /\ IsKeepAlive(request.version, headers)]

Calls == {"lstat", "realpath", "stat", "index", "opendir", "open"}

\* The request, and the trees it met.
MetInv ==
  /\ \A t \in seen : TreeOK(t)
  /\ pc # "idle" =>
       tree \in seen /\ LinesOK(request.lines) /\ headers = Parse(request.lines).headers

\* Until the response is ready nothing of it is there, and only open() makes a
\* FileInfo.
AskedInv ==
  /\ pc \in Calls \union {"respond"} => Reached /\ response = Fresh /\ sender = NoFile
  /\ pc \in Calls => info = NoInfo
  /\ pc \in {"idle"} \union (Calls \ {"open"}) => place = "at"
  /\ pc = "idle" => info = NoInfo /\ sender = NoFile

\* realpath leads below the root, as far as is_within_root can tell; Inside is what
\* open has seen to before it goes on.
Within(t) == t.at.kind # "none" /\ IsWithinRoot(t.at.real, ROOT)
Inside(t) == IsLink(t.at) => Within(t)

\* open() is about to open a regular file, or has.
FileFound ==
  /\ \E t \in seen : t[place].kind = "file" /\ st = StatOf(t[place])
  /\ \E t \in seen : Inside(t)
  /\ place = "index" => \E t \in seen : t.at.kind = "dir"

Opened(fd) ==
  /\ info = [fd |-> fd, size |-> st.size, last_modified |-> st.mtime,
             mime_type |-> DetectMimeType(IF place = "index" THEN TEXT_HTML ELSE request.ext)]
  /\ \E t \in seen : t[place].readable

\* What each system call was told before.
FoundInv ==
  /\ pc = "realpath" => \E t \in seen : IsLink(t.at)
  /\ pc = "stat" => \E t \in seen : t.at.kind # "none"
  /\ pc \in {"stat", "index", "opendir"} => \E t \in seen : Inside(t)
  /\ pc \in {"index", "opendir"} => \E t \in seen : t.at.kind = "dir"
  /\ pc = "opendir" => \E t \in seen : t.index.kind # "file"
  /\ pc \in {"open", "respond"} => FileFound
  /\ pc = "respond" => Opened(TRUE)

\* The responses that carry no file.
NothingSent(status) ==
  response = Page(Fresh, status) /\ info = NoInfo /\ sender = NoFile

NotUnderstood == ~Reached /\ NothingSent(Status.BAD_REQUEST)

Refusable ==
  \/ (\E t \in seen : ~Within(t)) /\ (\E t \in seen : IsLink(t.at))
  \/ \E t \in seen : t.at.kind = "other"

Refusal == NothingSent(Status.FORBIDDEN) /\ Refusable

Missed ==
  \/ place = "at" /\ \E t \in seen : t.at.kind = "none" /\ ~IsLink(t.at)
  \/ /\ place = "at"
     /\ (\E t \in seen : t.at.kind = "none") /\ (\E t \in seen : t.at.kind # "none")
  \/ FileFound /\ \E t \in seen : t[place].kind = "none" \/ ~t[place].readable

Lacking == NothingSent(Status.NOT_FOUND) /\ Missed

ListingSent ==
  /\ NothingSent(Status.OK)
  /\ \E t \in seen : Inside(t)
  /\ \E t \in seen : t.at.kind = "dir"
  /\ \E t \in seen : t.index.kind # "file"
  /\ \E t \in seen : listing.shown = IF t.at.kind = "dir" /\ t.at.readable
                                     THEN Visible(t.at) ELSE {}
  /\ listing.show_parent = (Normalize(request.path).names # <<>>)

NotModifiedSent ==
  /\ FileFound /\ Opened(FALSE)
  /\ IfModifiedSince(headers) >= info.last_modified
  /\ response = NotModified(Fresh, info.last_modified)
  /\ sender = NoFile

FileSent ==
  /\ FileFound /\ Opened(FALSE)
  /\ IfModifiedSince(headers) < info.last_modified
  /\ \E range \in RangesRead(headers) :
       LET part == Interval(range, info.size)
       IN /\ response = Contents(Fresh, info, part,
                                 IF info.size > 0 THEN part.last - part.first + 1 ELSE 0)
          /\ sender = [fd |-> TRUE, first |-> part.first,
                       remaining |-> IF part.last >= part.first
                                     THEN part.last - part.first + 1 ELSE 0]

AnsweredInv ==
  pc = "answered" =>
    /\ header = BuildHeaders(response)
    /\ \/ NotUnderstood
       \/ Reached /\ (Refusal \/ Lacking \/ ListingSent \/ NotModifiedSent \/ FileSent)

FileInv == FileTypeOK /\ FileHasOneOwner /\ MetInv /\ AskedInv /\ FoundInv /\ AnsweredInv

--------------------------------------------------------------------------------
(* What the functions return.                                                  *)

LEMMA MimeTyped ==
  ASSUME NEW ext
  PROVE  /\ DetectMimeType(ext) \in {FALLBACK_MIME} \union Extensions
         /\ DetectMimeType(ext) # NO_TYPE
<1> DEFINE row == LowerBound(ext) + 1
<1>1. CASE ext # NoExtension /\ row \in DOMAIN MIME_TABLE /\ MIME_TABLE[row] = ext
  <2>1. DetectMimeType(ext) = ext
    BY <1>1 DEF DetectMimeType
  <2> HIDE DEF row
  <2>2. MIME_TABLE[row] \in 1 .. 111
    BY <1>1 DEF MIME_TABLE
  <2> QED
    BY <1>1, <2>1, <2>2 DEF Extensions, NO_TYPE
<1>2. CASE ~(ext # NoExtension /\ row \in DOMAIN MIME_TABLE /\ MIME_TABLE[row] = ext)
  <2>1. DetectMimeType(ext) = FALLBACK_MIME
    BY <1>2 DEF DetectMimeType
  <2> QED
    BY <2>1 DEF FALLBACK_MIME, NO_TYPE
<1> QED
  BY <1>1, <1>2

\* A header is the value of the one line with its name.
LEMMA LookUp ==
  ASSUME NEW lines, LinesOK(lines), NEW name, NEW absent
  PROVE  \/ \E i \in DOMAIN lines : lines[i].name = name /\ Header(lines, name, absent) = lines[i].value
         \/ (\A i \in DOMAIN lines : lines[i].name # name) /\ Header(lines, name, absent) = absent
<1> DEFINE found == {line \in ToSet(lines) : line.name = name}
<1>1. CASE found = {}
  BY <1>1 DEF Header, ToSet
<1>2. CASE found # {}
  <2>1. Header(lines, name, absent) = (CHOOSE line \in found : TRUE).value
    BY <1>2 DEF Header
  <2>2. (CHOOSE line \in found : TRUE) \in found
    BY <1>2
  <2> QED
    BY <2>1, <2>2 DEF ToSet
<1> QED
  BY <1>1, <1>2

\* Parsing loses the last line and keeps the others.
LEMMA FrontLines ==
  ASSUME NEW lines, LinesOK(lines), lines # <<>>
  PROVE  /\ LinesOK(Front(lines))
         /\ Len(lines) \in Nat /\ Len(lines) \in DOMAIN lines /\ DOMAIN lines = 1 .. Len(lines)
         /\ DOMAIN Front(lines) = 1 .. Len(lines) - 1
         /\ \A i \in 1 .. Len(lines) - 1 : Front(lines)[i] = lines[i] /\ i \in DOMAIN lines
<1> DEFINE S == ToSet(lines)
           front == Front(lines)
<1>1. lines \in Seq(S) /\ Len(lines) \in Nat /\ DOMAIN lines = 1 .. Len(lines)
      /\ Len(lines) \in DOMAIN lines
  BY DEF LinesOK
<1>2. /\ DOMAIN front = 1 .. Len(lines) - 1
      /\ \A i \in 1 .. Len(lines) - 1 : front[i] = lines[i] /\ i \in DOMAIN lines
      /\ front = [i \in 1 .. Len(lines) - 1 |-> lines[i]]
  <2> HIDE DEF S
  <2> QED
    BY <1>1 DEF Front
<1>3. front \in Seq(ToSet(front))
  <2> DEFINE T == ToSet(front)
             n == Len(lines) - 1
  <2>1. \A i \in 1 .. n : front[i] \in T
    BY <1>2 DEF ToSet
  <2> HIDE DEF T
  <2>2. front = [i \in 1 .. n |-> front[i]] /\ n \in Nat
    BY <1>1, <1>2
  <2> HIDE DEF front, n
  <2>3. front \in Seq(T)
    BY <2>1, <2>2
  <2> QED
    BY <2>3 DEF T
<1>4. LinesOK(front)
  BY <1>2, <1>3 DEF LinesOK
<1> QED
  BY <1>1, <1>2, <1>4

\* The two headers that are numbers.
LEMMA NumbersRead ==
  ASSUME NEW lines, LinesOK(lines)
  PROVE  /\ IfModifiedSince(lines) \in Int
         /\ LET h == Header(lines, "range", NoHeader)
            IN h \in [form : {"none", "suffix", "from", "span"}, a : Nat, b : Nat]
<1>1. IfModifiedSince(lines) \in Int
  BY LookUp DEF IfModifiedSince, LinesOK, LineOK
<1>2. Header(lines, "range", NoHeader) \in [form : {"none", "suffix", "from", "span"}, a : Nat, b : Nat]
  BY LookUp DEF LinesOK, LineOK, NoHeader, RangeHeader
<1> QED
  BY <1>1, <1>2

\* As long as off_t can hold the numbers, the Range header is read as it stands.
LEMMA ReadsAsAsked ==
  ASSUME NEW lines, LinesOK(lines)
  PROVE  LET h == Header(lines, "range", NoHeader)
         IN /\ RangesRead(lines) \subseteq [form : {"none", "suffix", "from", "span"}, a : Int, b : Int]
            /\ RangeFits(lines) => RangesRead(lines) = {h}
<1> DEFINE h == Header(lines, "range", NoHeader)
<1>1. h \in [form : {"none", "suffix", "from", "span"}, a : Nat, b : Nat]
  BY NumbersRead
<1>2. OFF_MAX \in Nat
  BY OffAssumption
<1>3. RangesRead(lines) = {RangeHeader(h.form, a, b) : a \in Accumulated(h.a), b \in Accumulated(h.b)}
  BY DEF RangesRead
<1>4. Accumulated(h.a) \subseteq Int /\ Accumulated(h.b) \subseteq Int
  BY <1>1, <1>2 DEF Accumulated
<1>5. RangeFits(lines) => Accumulated(h.a) = {h.a} /\ Accumulated(h.b) = {h.b}
  BY DEF RangeFits, Accumulated
<1>6. h = RangeHeader(h.form, h.a, h.b)
  BY <1>1 DEF RangeHeader
<1> HIDE DEF h
<1>7. RangesRead(lines) \subseteq [form : {"none", "suffix", "from", "span"}, a : Int, b : Int]
  BY <1>1, <1>3, <1>4 DEF RangeHeader
<1>8. RangeFits(lines) => RangesRead(lines) = {h}
  BY <1>3, <1>5, <1>6
<1> QED
  BY <1>7, <1>8 DEF h

\* parse_range returns exactly the bytes the header asks for, or nothing when
\* there are none.
LEMMA RangeIsWanted ==
  ASSUME NEW h \in [form : {"none", "suffix", "from", "span"}, a : Nat, b : Nat],
         NEW size \in Nat
  PROVE  LET r == ParseRange(h, size)
         IN /\ r.set \in BOOLEAN
            /\ r.set <=> Wanted(h, size) # {}
            /\ r.set => /\ r.first \in Nat /\ r.last \in Nat
                        /\ r.first <= r.last /\ r.last < size
                        /\ Wanted(h, size) = r.first .. r.last
<1> DEFINE first == IF h.form = "suffix" THEN (IF size < h.a THEN 0 ELSE size - h.a) ELSE h.a
           last  == IF h.form = "span" THEN h.b ELSE size - 1
           none == \/ h.form = "none" \/ (h.form = "suffix" /\ h.a = 0)
                   \/ first >= size \/ first > last
           r == ParseRange(h, size)
           W == Wanted(h, size)
<1>1. /\ h.form \in {"none", "suffix", "from", "span"} /\ h.a \in Nat /\ h.b \in Nat
      /\ first \in Nat /\ last \in Int
  OBVIOUS
<1>2. r = IF none THEN NoRange
          ELSE [set |-> TRUE, first |-> first, last |-> IF last >= size THEN size - 1 ELSE last]
  BY DEF ParseRange
<1>3. CASE none
  <2>1. r.set = FALSE
    BY <1>2, <1>3 DEF NoRange
  <2>2. ASSUME NEW i \in W PROVE FALSE
    <3>1. i \in Int /\ 0 <= i /\ i <= size - 1
      BY DEF Wanted
    <3>2. h.form = "suffix" => i >= size - h.a
      BY DEF Wanted
    <3>3. h.form = "from" => i >= h.a
      BY DEF Wanted
    <3>4. h.form = "span" => h.a <= i /\ i <= h.b
      BY DEF Wanted
    <3>5. h.form # "none"
      BY DEF Wanted
    <3> QED
      BY <1>1, <1>3, <3>1, <3>2, <3>3, <3>4, <3>5
  <2> QED
    BY <2>1, <2>2
<1>4. CASE ~none
  <2>1. /\ r.set = TRUE /\ r.first = first
        /\ r.last = IF last >= size THEN size - 1 ELSE last
    BY <1>2, <1>4
  <2>2. /\ first < size /\ first <= last /\ h.form # "none"
        /\ h.form = "suffix" => h.a # 0
    BY <1>1, <1>4
  <2>3. r.first \in Nat /\ r.last \in Nat /\ r.first <= r.last /\ r.last < size
    BY <1>1, <2>1, <2>2
  <2>4. ASSUME NEW i \in Int
        PROVE  i \in W <=> r.first <= i /\ i <= r.last
    <3>1. CASE h.form = "suffix"
      <4>1. i \in W <=> 0 <= i /\ i <= size - 1 /\ i >= size - h.a
        BY <3>1 DEF Wanted
      <4> QED
        BY <1>1, <2>1, <3>1, <4>1
    <3>2. CASE h.form = "from"
      <4>1. i \in W <=> 0 <= i /\ i <= size - 1 /\ i >= h.a
        BY <3>2 DEF Wanted
      <4> QED
        BY <1>1, <2>1, <3>2, <4>1
    <3>3. CASE h.form = "span"
      <4>1. i \in W <=> 0 <= i /\ i <= size - 1 /\ h.a <= i /\ i <= h.b
        BY <3>3 DEF Wanted
      <4> QED
        BY <1>1, <2>1, <3>3, <4>1
    <3> QED
      BY <1>1, <2>2, <3>1, <3>2, <3>3
  <2>5. W \subseteq Int
    BY DEF Wanted
  <2> HIDE DEF r, W
  <2>6. W = r.first .. r.last
    <3> DEFINE lo == r.first
               hi == r.last
    <3>1. /\ lo \in Int /\ hi \in Int /\ W \subseteq Int
          /\ \A i \in Int : i \in W <=> lo <= i /\ i <= hi
      BY <2>3, <2>4, <2>5
    <3> HIDE DEF lo, hi
    <3>2. W \subseteq lo .. hi /\ lo .. hi \subseteq W
      BY <3>1
    <3>3. W = lo .. hi
      BY <3>2
    <3> QED
      BY <3>3 DEF lo, hi
  <2>7. r.first \in W
    BY <2>3, <2>6
  <2> QED
    BY <2>1, <2>3, <2>6, <2>7 DEF r, W
<1> QED
  BY <1>3, <1>4

\* What is sent of a file, whatever the numbers of the range came to.
LEMMA IntervalTyped ==
  ASSUME NEW h \in [form : {"none", "suffix", "from", "span"}, a : Int, b : Int],
         NEW size \in Nat
  PROVE  LET p == Interval(h, size)
         IN p \in [set : BOOLEAN, first : Int, last : Int]
BY DEF Interval, ParseRange, NoRange

\* ... and when they fit: the bytes asked for, or else the whole file.
LEMMA IntervalIsPart ==
  ASSUME NEW h \in [form : {"none", "suffix", "from", "span"}, a : Nat, b : Nat],
         NEW size \in Nat
  PROVE  LET p == Interval(h, size)
         IN /\ p.first .. p.last = IF Wanted(h, size) # {} THEN Wanted(h, size) ELSE 0 .. size - 1
            /\ p.set <=> Wanted(h, size) # {}
            /\ p.set => 0 <= p.first /\ p.first <= p.last /\ p.last < size
            /\ size > 0 => p.first <= p.last
            /\ size = 0 => p.first = 0 /\ p.last = -1 /\ ~p.set
            /\ p.first \in Nat /\ p.last \in Int /\ p.set \in BOOLEAN
<1> DEFINE r == ParseRange(h, size)
           W == Wanted(h, size)
           p == Interval(h, size)
<1>1. /\ r.set \in BOOLEAN
      /\ r.set <=> W # {}
      /\ r.set => /\ r.first \in Nat /\ r.last \in Nat
                  /\ r.first <= r.last /\ r.last < size /\ W = r.first .. r.last
  BY RangeIsWanted
<1>2. p = IF r.set THEN r ELSE [set |-> FALSE, first |-> 0, last |-> size - 1]
  BY DEF Interval
<1> HIDE DEF r, W, p
<1>3. /\ p.first .. p.last = IF W # {} THEN W ELSE 0 .. size - 1
      /\ p.set <=> W # {}
      /\ p.set => 0 <= p.first /\ p.first <= p.last /\ p.last < size
      /\ size > 0 => p.first <= p.last
      /\ size = 0 => p.first = 0 /\ p.last = -1 /\ ~p.set
      /\ p.first \in Nat /\ p.last \in Int /\ p.set \in BOOLEAN
  <2>1. CASE r.set
    <3>1. p = r /\ r.first \in Nat /\ r.last \in Nat /\ r.first <= r.last /\ r.last < size
          /\ W = r.first .. r.last /\ W # {} /\ r.set \in BOOLEAN
      BY <1>1, <1>2, <2>1
    <3>2. p.first .. p.last = W
      BY <3>1
    <3>3. p.set = TRUE
      BY <2>1, <3>1
    <3>4. /\ p.first \in Nat /\ p.last \in Int /\ 0 <= p.first /\ p.first <= p.last
          /\ p.last < size /\ size # 0
      BY <3>1
    <3> QED
      BY <3>1, <3>2, <3>3, <3>4
  <2>2. CASE ~r.set
    <3>1. p.set = FALSE /\ p.first = 0 /\ p.last = size - 1 /\ W = {}
      BY <1>1, <1>2, <2>2
    <3>2. p.first .. p.last = 0 .. size - 1
      BY <3>1
    <3>3. /\ p.first \in Nat /\ p.last \in Int
          /\ size > 0 => p.first <= p.last
          /\ size = 0 => p.last = -1
      BY <3>1
    <3> QED
      BY <3>1, <3>2, <3>3
  <2> QED
    BY <2>1, <2>2
<1> QED
  BY <1>3 DEF p, W

--------------------------------------------------------------------------------
(* The pieces of a path.                                                       *)

Text(p) == \E V : p \in Seq(V)
Rank(p, i) == Cardinality(Begins(p) \cap 1 .. i)

\* Beginnings are counted from the left.
LEMMA Ranks ==
  ASSUME NEW p, Text(p)
  PROVE  /\ Len(p) \in Nat /\ DOMAIN p = 1 .. Len(p)
         /\ Begins(p) \subseteq 1 .. Len(p)
         /\ Cardinality(Begins(p)) = Rank(p, Len(p))
         /\ \A i \in Nat : Rank(p, i) \in Nat /\ IsFiniteSet(Begins(p) \cap 1 .. i)
         /\ \A i \in Nat, j \in Begins(p) : i < j => Rank(p, i) < Rank(p, j)
         /\ \A i, j \in Nat : i <= j => Rank(p, i) <= Rank(p, j)
<1>1. Len(p) \in Nat /\ DOMAIN p = 1 .. Len(p) /\ Begins(p) \subseteq 1 .. Len(p)
  BY DEF Text, Begins
<1>2. \A i \in Nat : Rank(p, i) \in Nat /\ IsFiniteSet(Begins(p) \cap 1 .. i)
  <2> TAKE i \in Nat
  <2>1. IsFiniteSet(1 .. i)
    BY FS_Interval
  <2>2. IsFiniteSet(Begins(p) \cap 1 .. i)
    BY <2>1, FS_Subset
  <2> QED
    BY <2>2, FS_CardinalityType DEF Rank
<1>3. \A i, j \in Nat : i <= j => Rank(p, i) <= Rank(p, j)
  <2> TAKE i, j \in Nat
  <2> HAVE i <= j
  <2>1. (Begins(p) \cap 1 .. i) \subseteq (Begins(p) \cap 1 .. j)
    OBVIOUS
  <2> QED
    BY <1>2, <2>1, FS_Subset DEF Rank
<1>4. \A i \in Nat, j \in Begins(p) : i < j => Rank(p, i) < Rank(p, j)
  <2> TAKE i \in Nat, j \in Begins(p)
  <2> HAVE i < j
  <2>0. j \in Nat
    BY <1>1
  <2> DEFINE I == Begins(p) \cap 1 .. i
             J == Begins(p) \cap 1 .. j
  <2>1. I \subseteq J /\ j \in J /\ j \notin I
    BY <1>1, <2>0
  <2>2. IsFiniteSet(J) /\ Cardinality(I) <= Cardinality(J) /\ Cardinality(I) # Cardinality(J)
    BY <1>2, <2>0, <2>1, FS_Subset
  <2> QED
    BY <1>2, <2>0, <2>2 DEF Rank
<1>5. Begins(p) = Begins(p) \cap 1 .. Len(p)
  BY <1>1
<1> QED
  BY <1>1, <1>2, <1>3, <1>4, <1>5 DEF Rank

\* Every number up to the number of pieces has its beginning.
LEMMA RankOnto ==
  ASSUME NEW p, Text(p), NEW n \in 1 .. Cardinality(Begins(p))
  PROVE  \E i \in Begins(p) : Rank(p, i) = n
<1> DEFINE T == {k \in Nat : \A m \in 1 .. Rank(p, k) : \E i \in Begins(p) : Rank(p, i) = m}
<1>1. 0 \in T
  <2>1. Begins(p) \cap 1 .. 0 = {}
    OBVIOUS
  <2>2. Rank(p, 0) = 0
    BY <2>1, FS_EmptySet DEF Rank
  <2> QED
    BY <2>2
<1>2. ASSUME NEW k \in T PROVE k + 1 \in T
  <2>0. k \in Nat /\ k + 1 \in Nat
    OBVIOUS
  <2>1. CASE k + 1 \in Begins(p)
    <3>1. Begins(p) \cap 1 .. (k + 1) = (Begins(p) \cap 1 .. k) \union {k + 1}
      BY <2>0, <2>1
    <3>2. k + 1 \notin Begins(p) \cap 1 .. k
      BY <2>0
    <3>3. IsFiniteSet(Begins(p) \cap 1 .. k)
      BY <2>0, Ranks
    <3>4. Rank(p, k + 1) = Rank(p, k) + 1
      BY <3>1, <3>2, <3>3, FS_AddElement DEF Rank
    <3>5. Rank(p, k) \in Nat
      BY <2>0, Ranks
    <3>6. \A m \in 1 .. Rank(p, k + 1) : m \in 1 .. Rank(p, k) \/ m = Rank(p, k + 1)
      BY <3>4, <3>5
    <3> QED
      BY <2>0, <2>1, <3>6
  <2>2. CASE k + 1 \notin Begins(p)
    <3>1. Begins(p) \cap 1 .. (k + 1) = Begins(p) \cap 1 .. k
      BY <2>0, <2>2
    <3>2. Rank(p, k + 1) = Rank(p, k)
      BY <3>1 DEF Rank
    <3> QED
      BY <2>0, <3>2
  <2> QED
    BY <2>1, <2>2
<1>3. T = Nat
  <2>1. T \in SUBSET Nat
    OBVIOUS
  <2> HIDE DEF T
  <2> QED
    BY <1>1, <1>2, <2>1, NatSetInduction
<1>4. Len(p) \in T /\ Cardinality(Begins(p)) = Rank(p, Len(p))
  BY <1>3, Ranks
<1> QED
  BY <1>4

\* The n-th beginning is the one with rank n.
LEMMA Nth ==
  ASSUME NEW p, Text(p)
  PROVE  /\ \A n \in 1 .. Cardinality(Begins(p)) :
              NthBegin(p, n) \in Begins(p) /\ Rank(p, NthBegin(p, n)) = n
         /\ \A i \in Begins(p) :
              /\ Rank(p, i) \in 1 .. Cardinality(Begins(p))
              /\ NthBegin(p, Rank(p, i)) = i
<1>1. \A n \in 1 .. Cardinality(Begins(p)) :
        NthBegin(p, n) \in Begins(p) /\ Rank(p, NthBegin(p, n)) = n
  <2> TAKE n \in 1 .. Cardinality(Begins(p))
  <2>1. \E i \in Begins(p) : Rank(p, i) = n
    BY RankOnto
  <2> QED
    BY <2>1 DEF NthBegin, Rank
<1>2. \A i \in Begins(p) : Rank(p, i) \in 1 .. Cardinality(Begins(p))
  <2> TAKE i \in Begins(p)
  <2>1. i \in 1 .. Len(p) /\ i \in Nat /\ 0 \in Nat /\ 0 < i /\ i <= Len(p)
    BY Ranks
  <2>2. Rank(p, 0) < Rank(p, i) /\ Rank(p, i) <= Rank(p, Len(p))
    BY <2>1, Ranks
  <2>3. Rank(p, 0) \in Nat /\ Rank(p, i) \in Nat /\ Rank(p, Len(p)) = Cardinality(Begins(p))
        /\ Cardinality(Begins(p)) \in Nat
    BY <2>1, Ranks
  <2> QED
    BY <2>2, <2>3
<1>3. \A i \in Begins(p) : NthBegin(p, Rank(p, i)) = i
  <2> TAKE i \in Begins(p)
  <2> DEFINE j == NthBegin(p, Rank(p, i))
  <2>1. j \in Begins(p) /\ Rank(p, j) = Rank(p, i)
    BY <1>1, <1>2
  <2> HIDE DEF j
  <2>2. i \in Nat /\ j \in Nat
    <3>1. Begins(p) \subseteq 1 .. Len(p)
      BY Ranks
    <3> QED
      BY <2>1, <3>1
  <2>3. ~(i < j) /\ ~(j < i)
    <3>1. Rank(p, i) \in Nat /\ Rank(p, j) \in Nat
      BY <2>2, Ranks
    <3>2. (i < j => Rank(p, i) < Rank(p, j)) /\ (j < i => Rank(p, j) < Rank(p, i))
      BY <2>1, <2>2, Ranks
    <3> QED
      BY <2>1, <3>1, <3>2
  <2> QED
    BY <2>2, <2>3 DEF j
<1> QED
  BY <1>1, <1>2, <1>3

\* Where a piece ends is where the next slash or the text's end stands.
Ends(p, i, j) ==
  /\ j \in i .. Len(p)
  /\ \A k \in i .. j : p[k] # "/"
  /\ j = Len(p) \/ p[j + 1] = "/"

LEMMA EndUnique ==
  ASSUME NEW p, Text(p), NEW i \in 1 .. Len(p), p[i] # "/"
  PROVE  /\ Ends(p, i, EndOf(p, i))
         /\ \A j : Ends(p, i, j) => j = EndOf(p, i)
<1>0. Len(p) \in Nat /\ i \in Nat
  BY DEF Text
<1>1. \E j \in i .. Len(p) : Ends(p, i, j)
  <2> SUFFICES ASSUME \A j \in i .. Len(p) : ~Ends(p, i, j) PROVE FALSE
    OBVIOUS
  <2> DEFINE T == {n \in Nat : i + n <= Len(p) => \A k \in i .. i + n : p[k] # "/"}
  <2>1. 0 \in T
    BY <1>0
  <2>2. ASSUME NEW n \in T PROVE n + 1 \in T
    <3> SUFFICES ASSUME i + (n + 1) <= Len(p), NEW k \in i .. i + (n + 1) PROVE p[k] # "/"
      OBVIOUS
    <3>1. n \in Nat /\ i + n <= Len(p) /\ i + n \in i .. Len(p) /\ i + n # Len(p)
          /\ (i + n) + 1 = i + (n + 1)
      BY <1>0
    <3>2. \A l \in i .. i + n : p[l] # "/"
      BY <3>1
    <3>3. p[(i + n) + 1] # "/"
      BY <3>1, <3>2 DEF Ends
    <3>4. k \in i .. i + n \/ k = i + (n + 1)
      BY <1>0, <3>1
    <3> QED
      BY <3>1, <3>2, <3>3, <3>4
  <2>3. T = Nat
    <3>1. T \in SUBSET Nat
      OBVIOUS
    <3> HIDE DEF T
    <3> QED
      BY <2>1, <2>2, <3>1, NatSetInduction
  <2>4. Len(p) - i \in T /\ i + (Len(p) - i) = Len(p)
    <3>1. Len(p) - i \in Nat /\ i + (Len(p) - i) = Len(p)
      BY <1>0
    <3> HIDE DEF T
    <3> QED
      BY <2>3, <3>1
  <2>5. \A k \in i .. Len(p) : p[k] # "/"
    BY <1>0, <2>4
  <2> QED
    BY <1>0, <2>5 DEF Ends
<1>2. Ends(p, i, EndOf(p, i))
  BY <1>1 DEF EndOf, Ends
<1>3. \A j, l : Ends(p, i, j) /\ Ends(p, i, l) => ~(j < l)
  <2> SUFFICES ASSUME NEW j, NEW l, Ends(p, i, j), Ends(p, i, l), j < l PROVE FALSE
    OBVIOUS
  <2>1. j + 1 \in i .. l /\ j # Len(p)
    BY <1>0 DEF Ends
  <2> QED
    BY <2>1 DEF Ends
<1>4. \A j : Ends(p, i, j) => j = EndOf(p, i)
  <2> TAKE j
  <2> HAVE Ends(p, i, j)
  <2> DEFINE e == EndOf(p, i)
  <2>1. Ends(p, i, e)
    BY <1>2
  <2> HIDE DEF e
  <2>2. j \in Int /\ e \in Int
    BY <2>1, <1>0 DEF Ends
  <2>3. ~(j < e) /\ ~(e < j)
    BY <1>3, <2>1
  <2>4. j = e
    BY <2>2, <2>3
  <2> QED
    BY <2>4 DEF e
<1> QED
  BY <1>2, <1>4

\* Every character that is no slash is in a piece.
LEMMA BeginOf ==
  ASSUME NEW p, Text(p), NEW c \in 1 .. Len(p), p[c] # "/"
  PROVE  \E i \in Begins(p) : i <= c /\ \A k \in i .. c : p[k] # "/"
<1> DEFINE In(c0) == \E i \in Begins(p) : i <= c0 /\ \A k \in i .. c0 : p[k] # "/"
           T == {n \in Nat : n \in 1 .. Len(p) /\ p[n] # "/" => In(n)}
<1>0. Len(p) \in Nat /\ DOMAIN p = 1 .. Len(p) /\ Begins(p) \subseteq 1 .. Len(p)
  BY Ranks
<1>1. 0 \in T
  OBVIOUS
<1>2. ASSUME NEW n \in T PROVE n + 1 \in T
  <2> SUFFICES ASSUME n + 1 \in 1 .. Len(p), p[n + 1] # "/" PROVE In(n + 1)
    OBVIOUS
  <2>0. n \in Nat
    OBVIOUS
  <2>1. CASE n = 0 \/ p[n] = "/"
    <3>1. n + 1 \in Begins(p)
      <4>1. n + 1 = 1 \/ p[(n + 1) - 1] = "/"
        BY <2>0, <2>1
      <4> QED
        BY <1>0, <4>1 DEF Begins
    <3>2. \A k \in n + 1 .. n + 1 : p[k] # "/"
      BY <2>0
    <3> QED
      BY <2>0, <3>1, <3>2
  <2>2. CASE n # 0 /\ p[n] # "/"
    <3>1. In(n)
      BY <1>0, <2>0, <2>2
    <3>2. PICK i \in Begins(p) : i <= n /\ \A k \in i .. n : p[k] # "/"
      BY <3>1
    <3>3. i \in Nat /\ \A k \in i .. n + 1 : k \in i .. n \/ k = n + 1
      BY <1>0, <2>0
    <3> QED
      BY <2>0, <3>2, <3>3
  <2> QED
    BY <2>1, <2>2
<1>3. T = Nat
  <2>1. T \in SUBSET Nat
    OBVIOUS
  <2> HIDE DEF T
  <2> QED
    BY <1>1, <1>2, <2>1, NatSetInduction
<1>4. c \in T
  <2>1. c \in Nat
    BY <1>0
  <2> HIDE DEF T
  <2> QED
    BY <1>3, <2>1
<1> QED
  BY <1>4

\* The piece that begins at i.
LEMMA Piece ==
  ASSUME NEW p, Text(p)
  PROVE  /\ Len(Segments(p)) = Cardinality(Begins(p))
         /\ DOMAIN Segments(p) = 1 .. Cardinality(Begins(p))
         /\ Cardinality(Begins(p)) \in Nat
         /\ \A i \in Begins(p) :
              /\ Ends(p, i, EndOf(p, i)) /\ i \in 1 .. Len(p)
              /\ Segments(p)[Rank(p, i)] = SubSeq(p, i, EndOf(p, i))
              /\ Len(SubSeq(p, i, EndOf(p, i))) = EndOf(p, i) - i + 1
              /\ \A k \in i .. EndOf(p, i) : SubSeq(p, i, EndOf(p, i))[k - i + 1] = p[k]
<1>1. Cardinality(Begins(p)) \in Nat /\ Begins(p) \subseteq 1 .. Len(p) /\ Len(p) \in Nat
  BY Ranks
<1>2. Len(Segments(p)) = Cardinality(Begins(p)) /\ DOMAIN Segments(p) = 1 .. Cardinality(Begins(p))
  BY <1>1 DEF Segments
<1>3. ASSUME NEW i \in Begins(p)
      PROVE  /\ Ends(p, i, EndOf(p, i)) /\ i \in 1 .. Len(p)
             /\ Segments(p)[Rank(p, i)] = SubSeq(p, i, EndOf(p, i))
             /\ Len(SubSeq(p, i, EndOf(p, i))) = EndOf(p, i) - i + 1
             /\ \A k \in i .. EndOf(p, i) : SubSeq(p, i, EndOf(p, i))[k - i + 1] = p[k]
  <2>1. i \in 1 .. Len(p) /\ p[i] # "/"
    BY <1>1 DEF Begins
  <2>2. Ends(p, i, EndOf(p, i))
    BY <2>1, EndUnique
  <2>3. Rank(p, i) \in 1 .. Cardinality(Begins(p)) /\ NthBegin(p, Rank(p, i)) = i
    BY Nth
  <2>4. Segments(p)[Rank(p, i)] = SubSeq(p, i, EndOf(p, i))
    BY <2>3 DEF Segments
  <2> DEFINE e == EndOf(p, i)
  <2>5. e \in i .. Len(p)
    BY <2>2 DEF Ends
  <2> HIDE DEF e
  <2>6. /\ Len(SubSeq(p, i, e)) = e - i + 1
        /\ \A k \in i .. e : SubSeq(p, i, e)[k - i + 1] = p[k]
    BY <1>1, <2>1, <2>5 DEF Text
  <2> QED
    BY <2>1, <2>2, <2>4, <2>6 DEF e
<1> QED
  BY <1>1, <1>2, <1>3

\* The first n pieces.
LEMMA PrefixOf ==
  ASSUME NEW p, Text(p), NEW q, Text(q)
  PROVE  IsPrefix(Segments(p), Segments(q)) <=>
           /\ Cardinality(Begins(p)) <= Cardinality(Begins(q))
           /\ \A n \in 1 .. Cardinality(Begins(p)) : Segments(p)[n] = Segments(q)[n]
<1> DEFINE s == Segments(p)
           t == Segments(q)
           V == {s[n] : n \in DOMAIN s} \union {t[n] : n \in DOMAIN t}
<1>1. /\ Len(s) = Cardinality(Begins(p)) /\ DOMAIN s = 1 .. Cardinality(Begins(p))
      /\ Len(t) = Cardinality(Begins(q)) /\ DOMAIN t = 1 .. Cardinality(Begins(q))
      /\ Cardinality(Begins(p)) \in Nat /\ Cardinality(Begins(q)) \in Nat
  BY Piece
<1>2. s = [n \in DOMAIN s |-> s[n]] /\ t = [n \in DOMAIN t |-> t[n]]
  BY DEF Segments
<1>3. (\A n \in DOMAIN s : s[n] \in V) /\ (\A n \in DOMAIN t : t[n] \in V)
  OBVIOUS
<1> HIDE DEF s, t, V
<1>4. s \in Seq(V) /\ t \in Seq(V)
  BY <1>1, <1>2, <1>3
<1>5. CASE Len(s) <= Len(t)
  <2> DEFINE l == Len(s)
  <2>1. /\ l \in Nat /\ Len(SubSeq(s, 1, l)) = l /\ Len(SubSeq(t, 1, l)) = l
        /\ \A n \in 1 .. l : SubSeq(s, 1, l)[n] = s[n] /\ SubSeq(t, 1, l)[n] = t[n]
        /\ SubSeq(s, 1, l) \in Seq(V) /\ SubSeq(t, 1, l) \in Seq(V)
    BY <1>1, <1>4, <1>5
  <2>2. SubSeq(s, 1, l) = SubSeq(t, 1, l) <=> \A n \in 1 .. l : s[n] = t[n]
    BY <2>1
  <2> QED
    BY <1>1, <1>5, <2>1, <2>2 DEF IsPrefix, s, t
<1>6. CASE ~(Len(s) <= Len(t))
  BY <1>1, <1>6 DEF IsPrefix, s, t
<1> QED
  BY <1>5, <1>6

\* Texts that agree up to c have the same beginnings up to there.
LEMMA SameBegins ==
  ASSUME NEW p, Text(p), NEW q, Text(q), NEW c \in Nat, c <= Len(p), c <= Len(q),
         \A k \in 1 .. c : p[k] = q[k]
  PROVE  /\ Begins(p) \cap 1 .. c = Begins(q) \cap 1 .. c
         /\ \A i \in 1 .. c : Rank(p, i) = Rank(q, i)
         /\ Rank(p, c) = Rank(q, c)
<1>0. Len(p) \in Nat /\ Len(q) \in Nat /\ DOMAIN p = 1 .. Len(p) /\ DOMAIN q = 1 .. Len(q)
  BY DEF Text
<1>1. \A k \in 1 .. c : k \in Begins(p) <=> k \in Begins(q)
  <2> TAKE k \in 1 .. c
  <2>1. k = 1 \/ k - 1 \in 1 .. c
    OBVIOUS
  <2>2. k \in DOMAIN p /\ k \in DOMAIN q
    BY <1>0
  <2> QED
    BY <2>1, <2>2 DEF Begins
<1>2. \A i \in 1 .. c : Begins(p) \cap 1 .. i = Begins(q) \cap 1 .. i
  <2> TAKE i \in 1 .. c
  <2>1. 1 .. i \subseteq 1 .. c
    OBVIOUS
  <2> QED
    BY <1>1, <2>1
<1>3. Begins(p) \cap 1 .. c = Begins(q) \cap 1 .. c
  BY <1>1
<1> QED
  BY <1>2, <1>3 DEF Rank

\* What is_within_root accepts is below the root, name by name.
LEMMA WithinIsBelow ==
  ASSUME NEW root, IsRealPath(root), root # <<"/">>, NEW path, IsRealPath(path),
         IsWithinRoot(path, root)
  PROVE  IsPrefix(Segments(root), Segments(path))
<1> DEFINE m == Len(root)
<1>0. /\ Text(root) /\ Text(path) /\ m \in Nat /\ Len(path) \in Nat /\ m <= Len(path)
      /\ \A k \in 1 .. m : path[k] = root[k]
      /\ Len(path) = m \/ path[m + 1] = "/"
  <2>1. root \in Seq(STRING) /\ path \in Seq(STRING)
    BY DEF IsRealPath
  <2>2. Len(root) <= Len(path) /\ SubSeq(root, 1, Len(root)) = SubSeq(path, 1, Len(root))
    BY DEF IsWithinRoot, IsPrefix
  <2>3. \A k \in 1 .. m : SubSeq(root, 1, m)[k] = root[k] /\ SubSeq(path, 1, m)[k] = path[k]
    BY <2>1, <2>2
  <2> QED
    BY <2>1, <2>2, <2>3 DEF Text, IsWithinRoot
<1>1. /\ Begins(root) \cap 1 .. m = Begins(path) \cap 1 .. m
      /\ \A i \in 1 .. m : Rank(root, i) = Rank(path, i)
      /\ Rank(root, m) = Rank(path, m)
  BY <1>0, SameBegins
<1>2. /\ Begins(root) \subseteq 1 .. m /\ Begins(root) \subseteq Begins(path)
      /\ Cardinality(Begins(root)) = Rank(root, m)
      /\ Rank(path, m) <= Cardinality(Begins(path))
      /\ Cardinality(Begins(root)) \in Nat /\ Cardinality(Begins(path)) \in Nat
  <2>1. Begins(root) \subseteq 1 .. m /\ Cardinality(Begins(root)) = Rank(root, m)
    BY <1>0, Ranks
  <2>2. Cardinality(Begins(path)) = Rank(path, Len(path)) /\ Rank(path, m) <= Rank(path, Len(path))
    BY <1>0, Ranks
  <2> QED
    BY <1>0, <1>1, <2>1, <2>2, Piece
<1>3. ASSUME NEW n \in 1 .. Cardinality(Begins(root))
      PROVE  Segments(root)[n] = Segments(path)[n]
  <2>1. PICK i \in Begins(root) : Rank(root, i) = n
    BY <1>0, RankOnto
  <2>2. i \in 1 .. m /\ i \in Begins(path) /\ Rank(path, i) = n /\ path[i] # "/" /\ i \in 1 .. Len(path)
    BY <1>0, <1>1, <1>2, <2>1 DEF Begins, Text
  <2> DEFINE e == EndOf(root, i)
  <2>3. Ends(root, i, e)
    BY <1>0, <2>1, Piece
  <2> HIDE DEF e
  <2>4. e \in i .. m /\ (\A k \in i .. e : root[k] # "/") /\ (e = m \/ root[e + 1] = "/")
    BY <2>3 DEF Ends
  <2>5. Ends(path, i, e)
    <3>1. e \in i .. Len(path)
      BY <1>0, <2>2, <2>4
    <3>2. \A k \in i .. e : path[k] # "/"
      BY <1>0, <2>2, <2>4
    <3>3. e = Len(path) \/ path[e + 1] = "/"
      <4>1. CASE e = m
        BY <1>0, <4>1
      <4>2. CASE e # m
        <5>1. e + 1 \in 1 .. m
          BY <1>0, <2>2, <2>4, <4>2
        <5> QED
          BY <1>0, <2>4, <4>2, <5>1
      <4> QED
        BY <4>1, <4>2
    <3> QED
      BY <3>1, <3>2, <3>3 DEF Ends
  <2>6. EndOf(path, i) = e
    BY <1>0, <2>2, <2>5, EndUnique
  <2>7. /\ Segments(root)[n] = SubSeq(root, i, e) /\ Segments(path)[n] = SubSeq(path, i, e)
    BY <1>0, <2>1, <2>2, <2>6, Piece DEF e
  <2>8. SubSeq(root, i, e) = SubSeq(path, i, e)
    <3>1. /\ SubSeq(root, i, e) = [k \in 1 .. e - i + 1 |-> root[i + k - 1]]
          /\ SubSeq(path, i, e) = [k \in 1 .. e - i + 1 |-> path[i + k - 1]]
      BY <1>0, <2>2, <2>4 DEF Text
    <3>2. \A k \in 1 .. e - i + 1 : root[i + k - 1] = path[i + k - 1]
      <4> TAKE k \in 1 .. e - i + 1
      <4>1. i + k - 1 \in 1 .. m
        BY <1>0, <2>2, <2>4
      <4> QED
        BY <1>0, <4>1
    <3> QED
      BY <3>1, <3>2
  <2> QED
    BY <2>7, <2>8
<1>4. Cardinality(Begins(root)) <= Cardinality(Begins(path))
  BY <1>1, <1>2
<1> QED
  BY <1>0, <1>3, <1>4, PrefixOf

\* ... and the other way: a path that is below the root name by name starts with
\* the root's characters.
LEMMA BelowIsWithin ==
  ASSUME NEW root, IsRealPath(root), root # <<"/">>, NEW path, IsRealPath(path),
         IsPrefix(Segments(root), Segments(path))
  PROVE  IsWithinRoot(path, root)
<1> DEFINE m == Len(root)
<1>0. /\ Text(root) /\ Text(path) /\ m \in Nat /\ Len(path) \in Nat
      /\ root[1] = "/" /\ path[1] = "/" /\ m >= 1 /\ Len(path) >= 1
      /\ \A i \in 1 .. m : root[i] = "/" => i < m /\ root[i + 1] # "/"
      /\ DOMAIN path = 1 .. Len(path)
  <2>1. /\ root \in Seq(STRING) /\ path \in Seq(STRING) /\ root # <<>> /\ path # <<>>
        /\ root[1] = "/" /\ path[1] = "/"
        /\ \A i \in DOMAIN root : root[i] = "/" => i < m /\ root[i + 1] # "/"
    BY DEF IsRealPath
  <2>2. /\ m \in Nat /\ Len(path) \in Nat /\ m >= 1 /\ Len(path) >= 1
        /\ DOMAIN root = 1 .. m /\ DOMAIN path = 1 .. Len(path)
    BY <2>1
  <2> QED
    BY <2>1, <2>2 DEF Text
<1>1. /\ Cardinality(Begins(root)) <= Cardinality(Begins(path))
      /\ \A n \in 1 .. Cardinality(Begins(root)) : Segments(root)[n] = Segments(path)[n]
      /\ Cardinality(Begins(root)) \in Nat /\ Cardinality(Begins(path)) \in Nat
  BY <1>0, PrefixOf, Piece
<1>2. \A i \in 1 .. Len(path) : path[i] = "/" => i < Len(path) /\ path[i + 1] # "/"
  <2>1. path # <<"/">>
    <3> SUFFICES ASSUME path = <<"/">> PROVE FALSE
      OBVIOUS
    <3>1. Begins(path) = {}
      BY DEF Begins
    <3>2. Cardinality(Begins(path)) = 0
      BY <3>1, FS_EmptySet
    <3>3. 2 \in Begins(root)
      <4>1. 1 < m /\ root[2] # "/"
        BY <1>0
      <4> QED
        BY <1>0, <4>1 DEF Begins, Text
    <3>4. Rank(root, 2) \in 1 .. Cardinality(Begins(root))
      BY <1>0, <3>3, Nth
    <3> QED
      BY <1>1, <3>2, <3>4
  <2>2. \A i \in DOMAIN path : path[i] = "/" => i < Len(path) /\ path[i + 1] # "/"
    BY <2>1 DEF IsRealPath
  <2> QED
    BY <1>0, <2>2
\* A piece of the root that begins at i, when the path has a beginning there too.
<1>3. ASSUME NEW i \in Begins(root), i \in Begins(path), Rank(path, i) = Rank(root, i)
      PROVE  /\ EndOf(path, i) = EndOf(root, i) /\ Ends(root, i, EndOf(root, i))
             /\ Ends(path, i, EndOf(root, i))
             /\ \A k \in i .. EndOf(root, i) : path[k] = root[k]
  <2> DEFINE e == EndOf(root, i)
             f == EndOf(path, i)
             s == SubSeq(root, i, e)
             t == SubSeq(path, i, f)
  <2>1. /\ Ends(root, i, e) /\ Ends(path, i, f) /\ i \in Nat
        /\ Segments(root)[Rank(root, i)] = s /\ Segments(path)[Rank(root, i)] = t
        /\ Len(s) = e - i + 1 /\ Len(t) = f - i + 1
        /\ \A k \in i .. e : s[k - i + 1] = root[k]
        /\ \A k \in i .. f : t[k - i + 1] = path[k]
    <3>1. /\ Ends(root, i, e) /\ i \in 1 .. m /\ Segments(root)[Rank(root, i)] = s
          /\ Len(s) = e - i + 1
          /\ \A k \in i .. e : s[k - i + 1] = root[k]
      BY <1>0, Piece
    <3>2. /\ Ends(path, i, f) /\ Segments(path)[Rank(path, i)] = t
          /\ Len(t) = f - i + 1
          /\ \A k \in i .. f : t[k - i + 1] = path[k]
      BY <1>0, <1>3, Piece
    <3> HIDE DEF s, t, e, f
    <3> QED
      BY <1>0, <1>3, <3>1, <3>2
  <2>2. Rank(root, i) \in 1 .. Cardinality(Begins(root))
    BY <1>0, Nth
  <2> HIDE DEF s, t, e, f
  <2>3. s = t
    BY <1>1, <2>1, <2>2
  <2>4. e \in Int /\ f \in Int
    <3>1. e \in i .. m /\ f \in i .. Len(path)
      BY <2>1 DEF Ends
    <3> QED
      BY <1>0, <2>1, <3>1
  <2>5. f = e
    BY <2>1, <2>3, <2>4
  <2>6. \A k \in i .. e : path[k] = root[k]
    BY <2>1, <2>3, <2>5
  <2> QED
    BY <2>1, <2>5, <2>6 DEF e, f
<1> DEFINE Agree(c) == c <= Len(path) /\ \A k \in 1 .. c : path[k] = root[k]
           T == {c \in Nat : c <= m => Agree(c)}
<1>4. 0 \in T
  BY <1>0
<1>5. ASSUME NEW c0 \in T PROVE c0 + 1 \in T
  <2> DEFINE c == c0 + 1
  <2> SUFFICES ASSUME c <= m PROVE Agree(c)
    OBVIOUS
  <2>0. /\ c0 \in Nat /\ c \in Nat /\ c0 <= m /\ Agree(c0) /\ c - 1 = c0 /\ c \in 1 .. m
        /\ \A k \in 1 .. c : k \in 1 .. c0 \/ k = c
    BY <1>0
  <2>1. /\ Begins(root) \cap 1 .. c0 = Begins(path) \cap 1 .. c0
        /\ \A i \in 1 .. c0 : Rank(root, i) = Rank(path, i)
        /\ Rank(root, c0) = Rank(path, c0)
    BY <1>0, <2>0, SameBegins
  <2>2. CASE root[c] # "/"
    <3>1. PICK i \in Begins(root) : i <= c /\ \A k \in i .. c : root[k] # "/"
      BY <1>0, <2>0, <2>2, BeginOf
    <3>2. i \in 1 .. m
      BY <1>0, Ranks
    <3>3. i \in Begins(path) /\ Rank(path, i) = Rank(root, i)
      <4>1. CASE i \in 1 .. c0
        BY <2>1, <4>1
      <4>2. CASE i = c
        <5>1. c # 1 /\ c0 \in 1 .. m /\ root[c0] = "/"
          BY <1>0, <2>0, <2>2, <3>1, <4>2 DEF Begins
        <5>2. path[c0] = "/" /\ c0 \in 1 .. Len(path)
          BY <2>0, <5>1
        <5>3. c \in 1 .. Len(path) /\ path[c] # "/"
          BY <1>0, <1>2, <2>0, <5>2
        <5>4. c \in Begins(path)
          BY <1>0, <2>0, <5>2, <5>3 DEF Begins, Text
        <5>5. Begins(root) \cap 1 .. c = (Begins(root) \cap 1 .. c0) \union {c}
          BY <2>0, <3>1, <4>2
        <5>6. Begins(path) \cap 1 .. c = (Begins(path) \cap 1 .. c0) \union {c}
          BY <2>0, <5>4
        <5>7. Begins(path) \cap 1 .. c = Begins(root) \cap 1 .. c
          BY <2>1, <5>5, <5>6
        <5> QED
          BY <4>2, <5>4, <5>7 DEF Rank
      <4> QED
        BY <2>0, <3>1, <3>2, <4>1, <4>2
    <3> DEFINE e == EndOf(root, i)
    <3>4. Ends(root, i, e) /\ Ends(path, i, e) /\ \A k \in i .. e : path[k] = root[k]
      BY <1>3, <3>3
    <3> HIDE DEF e
    <3>5. e \in i .. m /\ e \in i .. Len(path) /\ (e = m \/ root[e + 1] = "/")
      BY <3>4 DEF Ends
    <3>6. c <= e
      <4> SUFFICES ASSUME e < c PROVE FALSE
        BY <1>0, <2>0, <3>2, <3>5
      <4>1. e + 1 \in i .. c /\ e # m
        BY <1>0, <2>0, <3>2, <3>5
      <4> QED
        BY <3>1, <3>5, <4>1
    <3>7. c \in i .. e /\ c <= Len(path)
      BY <1>0, <2>0, <3>1, <3>2, <3>5, <3>6
    <3>8. path[c] = root[c]
      BY <3>4, <3>7
    <3> QED
      BY <2>0, <3>7, <3>8
  <2>3. CASE root[c] = "/"
    <3>1. CASE c = 1
      BY <1>0, <2>0, <3>1
    <3>2. CASE c # 1
      <4>1. c0 \in 1 .. m /\ c0 \in 1 .. c0 /\ c0 + 1 = c
        BY <2>0, <3>2
      <4>2. root[c0] # "/"
        BY <1>0, <2>3, <4>1
      <4>3. PICK i \in Begins(root) : i <= c0 /\ \A k \in i .. c0 : root[k] # "/"
        BY <1>0, <4>1, <4>2, BeginOf
      <4>4. i \in 1 .. m /\ i \in 1 .. c0 /\ root[i] # "/"
        <5>1. i \in 1 .. m
          BY <1>0, Ranks
        <5> QED
          BY <2>0, <4>3, <5>1 DEF Begins
      <4>5. i \in Begins(path) /\ Rank(path, i) = Rank(root, i)
        BY <2>1, <4>4
      <4>6. Ends(root, i, c0)
        <5>1. c0 \in i .. m
          BY <2>0, <4>1, <4>3, <4>4
        <5> QED
          BY <2>3, <4>1, <4>3, <5>1 DEF Ends
      <4>7. EndOf(root, i) = c0
        BY <1>0, <4>4, <4>6, EndUnique
      <4>8. Ends(path, i, c0)
        BY <1>3, <4>5, <4>7
      <4>9. c0 = Len(path) \/ path[c] = "/"
        BY <4>1, <4>8 DEF Ends
      <4>10. c0 # Len(path)
        <5> SUFFICES ASSUME c0 = Len(path) PROVE FALSE
          OBVIOUS
        <5>1. c < m /\ root[c + 1] # "/" /\ c + 1 \in 1 .. m
          BY <1>0, <2>0, <2>3
        <5>2. c + 1 \in Begins(root)
          <6>1. (c + 1) - 1 = c
            BY <2>0
          <6> QED
            BY <1>0, <2>3, <5>1, <6>1 DEF Begins, Text
        <5>3. Rank(root, c0) < Rank(root, c + 1)
          BY <1>0, <2>0, <5>2, Ranks
        <5>4. Rank(root, c + 1) \in 1 .. Cardinality(Begins(root))
          BY <1>0, <5>2, Nth
        <5>5. Cardinality(Begins(path)) = Rank(path, c0)
          BY <1>0, Ranks
        <5> QED
          BY <1>1, <2>1, <5>3, <5>4, <5>5
      <4>11. path[c] = root[c]
        BY <2>3, <4>9, <4>10
      <4>12. c <= Len(path)
        <5>1. c0 <= Len(path) /\ c0 \in Nat /\ Len(path) \in Nat
          BY <1>0, <2>0
        <5> QED
          BY <4>10, <5>1
      <4> QED
        BY <2>0, <4>11, <4>12
    <3> QED
      BY <3>1, <3>2
  <2> QED
    BY <2>2, <2>3
<1>6. T = Nat
  <2>1. T \in SUBSET Nat
    OBVIOUS
  <2> HIDE DEF T
  <2> QED
    BY <1>4, <1>5, <2>1, NatSetInduction
<1>7. m <= Len(path) /\ \A k \in 1 .. m : path[k] = root[k]
  <2>1. m \in T
    BY <1>0, <1>6
  <2> QED
    BY <1>0, <2>1
<1>8. Len(path) = m \/ path[m + 1] = "/"
  <2>1. m \in 1 .. m /\ root[m] # "/"
    BY <1>0
  <2>2. PICK i \in Begins(root) : i <= m /\ \A k \in i .. m : root[k] # "/"
    BY <1>0, <2>1, BeginOf
  <2>3. i \in 1 .. m /\ root[i] # "/"
    <3>1. i \in 1 .. m
      BY <1>0, Ranks
    <3> QED
      BY <3>1 DEF Begins
  <2>4. Ends(root, i, m)
    BY <1>0, <2>2, <2>3 DEF Ends
  <2>5. EndOf(root, i) = m
    BY <1>0, <2>3, <2>4, EndUnique
  <2>6. /\ Begins(root) \cap 1 .. m = Begins(path) \cap 1 .. m
        /\ \A j \in 1 .. m : Rank(root, j) = Rank(path, j)
    BY <1>0, <1>7, SameBegins
  <2>7. Ends(path, i, m)
    BY <1>3, <2>3, <2>5, <2>6
  <2> QED
    BY <2>7 DEF Ends
<1>9. IsPrefix(root, path)
  <2>1. /\ Len(SubSeq(root, 1, m)) = m /\ Len(SubSeq(path, 1, m)) = m
        /\ \A k \in 1 .. m : SubSeq(root, 1, m)[k] = root[k] /\ SubSeq(path, 1, m)[k] = path[k]
        /\ SubSeq(root, 1, m) \in Seq(STRING) /\ SubSeq(path, 1, m) \in Seq(STRING)
    BY <1>0, <1>7 DEF IsRealPath
  <2>2. SubSeq(root, 1, m) = SubSeq(path, 1, m)
    BY <1>7, <2>1
  <2> QED
    BY <1>7, <2>2 DEF IsPrefix
<1> QED
  BY <1>8, <1>9 DEF IsWithinRoot

\* is_within_root, a comparison of characters, accepts exactly the real paths
\* that lead through the names of the root.
THEOREM WithinRootIsBelow ==
  ASSUME NEW path, IsRealPath(path)
  PROVE  IsWithinRoot(path, ROOT) <=> IsPrefix(Segments(ROOT), Segments(path))
BY RootAssumption, WithinIsBelow, BelowIsWithin

--------------------------------------------------------------------------------
(* normalize: the loop takes a name back as soon as ".." asks for it, the       *)
(* reference looks at the whole path and counts.                               *)

Start == [ok |-> TRUE, names |-> <<>>]

\* `at` tells where the walk stands after each segment.
Trace(s, at) ==
  at = [n \in 0 .. Len(s) |-> IF n = 0 THEN Start ELSE Enter(at[n - 1], s[n])]

\* The recursive definition in Walk defines a function.
LEMMA WalkHasTrace ==
  ASSUME NEW V, NEW s \in Seq(V)
  PROVE  \E at : Trace(s, at) /\ Walk(s) = at[Len(s)]
<1> DEFINE Goes(at, m) == at = [n \in 0 .. m |-> IF n = 0 THEN Start ELSE Enter(at[n - 1], s[n])]
           T == {m \in Nat : \E at : Goes(at, m)}
<1>1. 0 \in T
  <2>1. Goes([n \in 0 .. 0 |-> Start], 0)
    OBVIOUS
  <2> QED
    BY <2>1
<1>2. ASSUME NEW m \in T PROVE m + 1 \in T
  <2>1. m \in Nat
    OBVIOUS
  <2>2. PICK f : f = [n \in 0 .. m |-> IF n = 0 THEN Start ELSE Enter(f[n - 1], s[n])]
    OBVIOUS
  <2> HIDE DEF T
  <2> DEFINE g == [n \in 0 .. m + 1 |-> IF n = m + 1 THEN Enter(f[m], s[n]) ELSE f[n]]
  <2>3. ASSUME NEW n \in 0 .. m + 1
        PROVE  g[n] = IF n = 0 THEN Start ELSE Enter(g[n - 1], s[n])
    <3>1. n # 0 => n - 1 \in 0 .. m /\ n - 1 # m + 1
      BY <2>1
    <3>2. n # 0 => g[n - 1] = f[n - 1]
      BY <2>1, <3>1
    <3>3. CASE n = m + 1
      BY <2>1, <3>2, <3>3
    <3>4. CASE n # m + 1
      <4>1. n \in 0 .. m /\ g[n] = f[n]
        BY <2>1, <3>4
      <4>2. f[n] = IF n = 0 THEN Start ELSE Enter(f[n - 1], s[n])
        BY <2>2, <4>1
      <4> QED
        BY <3>2, <4>1, <4>2
    <3> QED
      BY <3>3, <3>4
  <2>4. g = [n \in 0 .. m + 1 |-> g[n]]
    OBVIOUS
  <2> HIDE DEF g
  <2>5. g = [n \in 0 .. m + 1 |-> IF n = 0 THEN Start ELSE Enter(g[n - 1], s[n])]
    BY <2>3, <2>4
  <2> QED
    BY <2>1, <2>5 DEF T
<1>3. T = Nat
  <2> HIDE DEF T
  <2>1. T \in SUBSET Nat
    BY DEF T
  <2> QED
    BY <1>1, <1>2, <2>1, NatSetInduction
<1>4. \E at : Trace(s, at)
  BY <1>3 DEF Trace
<1> DEFINE W == CHOOSE at : Trace(s, at)
<1>5. Trace(s, W)
  BY <1>4, Zenon
<1>6. Walk(s) = W[Len(s)]
  BY Zenon DEF Walk, Trace, Start
<1> QED
  BY <1>5, <1>6, Zenon

\* How deep the walk is after n segments, if it has not been refused: the names
\* less the "..".
Ups(s) == {k \in DOMAIN s : s[k] = Up}
Count(X, n) == Cardinality(X \cap 1 .. n)
Depth(s, n) == Count(Names(s), n) - Count(Ups(s), n)

LEMMA Counts ==
  ASSUME NEW X, NEW n \in Nat
  PROVE  /\ Count(X, n) \in Nat /\ IsFiniteSet(X \cap 1 .. n)
         /\ Count(X, 0) = 0
         /\ Count(X, n + 1) = IF n + 1 \in X THEN Count(X, n) + 1 ELSE Count(X, n)
<1>1. IsFiniteSet(1 .. n)
  BY FS_Interval
<1>2. IsFiniteSet(X \cap 1 .. n)
  BY <1>1, FS_Intersection
<1>3. Count(X, n) \in Nat
  BY <1>2, FS_CardinalityType DEF Count
<1>4. X \cap 1 .. 0 = {}
  OBVIOUS
<1>5. Count(X, 0) = 0
  BY <1>4, FS_EmptySet DEF Count
<1>6. CASE n + 1 \in X
  <2>1. X \cap 1 .. (n + 1) = (X \cap 1 .. n) \union {n + 1} /\ n + 1 \notin X \cap 1 .. n
    BY <1>6
  <2> QED
    BY <1>2, <1>3, <1>5, <1>6, <2>1, FS_AddElement DEF Count
<1>7. CASE n + 1 \notin X
  <2>1. X \cap 1 .. (n + 1) = X \cap 1 .. n
    BY <1>7
  <2> QED
    BY <1>2, <1>3, <1>5, <1>7, <2>1 DEF Count
<1> QED
  BY <1>6, <1>7

\* What lies between two positions is what the second has more than the first.
LEMMA CountBetween ==
  ASSUME NEW X, NEW i \in Nat \ {0}, NEW j \in Nat, i <= j
  PROVE  Cardinality(X \cap i .. j) = Count(X, j) - Count(X, i - 1)
<1>1. i - 1 \in Nat
  OBVIOUS
<1>2. IsFiniteSet(X \cap 1 .. (i - 1)) /\ IsFiniteSet(X \cap 1 .. j)
  BY <1>1, Counts
<1>3. /\ X \cap 1 .. j = (X \cap 1 .. (i - 1)) \union (X \cap i .. j)
      /\ (X \cap 1 .. (i - 1)) \cap (X \cap i .. j) = {}
      /\ X \cap i .. j \in SUBSET (X \cap 1 .. j)
  BY <1>1
<1>4. IsFiniteSet(X \cap i .. j)
  BY <1>2, <1>3, FS_Subset
<1>5. Cardinality(X \cap 1 .. j)
        = Cardinality(X \cap 1 .. (i - 1)) + Cardinality(X \cap i .. j) - 0
  BY <1>2, <1>3, <1>4, FS_Union, FS_EmptySet
<1>6. Cardinality(X \cap 1 .. (i - 1)) \in Nat /\ Cardinality(X \cap i .. j) \in Nat
  BY <1>2, <1>4, FS_CardinalityType
<1> QED
  BY <1>5, <1>6 DEF Count

\* One segment moves the depth by one at most.
LEMMA Depths ==
  ASSUME NEW V, NEW s \in Seq(V)
  PROVE  /\ \A n \in Nat : Depth(s, n) \in Int
         /\ Depth(s, 0) = 0
         /\ \A n \in 1 .. Len(s) :
              Depth(s, n) = CASE s[n] = Here -> Depth(s, n - 1)
                              [] s[n] = Up   -> Depth(s, n - 1) - 1
                              [] OTHER       -> Depth(s, n - 1) + 1
<1>1. \A n \in Nat : Depth(s, n) \in Int
  <2> TAKE n \in Nat
  <2>1. Count(Names(s), n) \in Nat /\ Count(Ups(s), n) \in Nat
    BY Counts
  <2> QED
    BY <2>1 DEF Depth
<1>2. Depth(s, 0) = 0
  <2>1. 0 \in Nat
    OBVIOUS
  <2>2. Count(Names(s), 0) = 0 /\ Count(Ups(s), 0) = 0
    BY <2>1, Counts
  <2> QED
    BY <2>2 DEF Depth
<1>3. Here # Up
  BY DEF Here, Up
<1>4. ASSUME NEW n \in 1 .. Len(s)
      PROVE  Depth(s, n) = CASE s[n] = Here -> Depth(s, n - 1)
                             [] s[n] = Up   -> Depth(s, n - 1) - 1
                             [] OTHER       -> Depth(s, n - 1) + 1
  <2>0. n - 1 \in Nat /\ (n - 1) + 1 = n /\ n \in DOMAIN s
    OBVIOUS
  <2>1. /\ Count(Names(s), n) = IF n \in Names(s) THEN Count(Names(s), n - 1) + 1
                                ELSE Count(Names(s), n - 1)
        /\ Count(Ups(s), n) = IF n \in Ups(s) THEN Count(Ups(s), n - 1) + 1
                              ELSE Count(Ups(s), n - 1)
        /\ Count(Names(s), n - 1) \in Nat /\ Count(Ups(s), n - 1) \in Nat
    <3> DEFINE m == n - 1
    <3>1. m \in Nat /\ m + 1 = n
      BY <2>0
    <3> HIDE DEF m
    <3>2. /\ Count(Names(s), m + 1) = IF m + 1 \in Names(s) THEN Count(Names(s), m) + 1
                                      ELSE Count(Names(s), m)
          /\ Count(Names(s), m) \in Nat
      BY <3>1, Counts
    <3>3. /\ Count(Ups(s), m + 1) = IF m + 1 \in Ups(s) THEN Count(Ups(s), m) + 1
                                    ELSE Count(Ups(s), m)
          /\ Count(Ups(s), m) \in Nat
      BY <3>1, Counts
    <3> QED
      BY <3>1, <3>2, <3>3 DEF m
  <2>2. n \in Names(s) <=> s[n] # Here /\ s[n] # Up
    BY <2>0 DEF Names
  <2>3. n \in Ups(s) <=> s[n] = Up
    BY <2>0 DEF Ups
  <2>4. CASE s[n] = Here
    BY <1>3, <2>1, <2>2, <2>3, <2>4 DEF Depth
  <2>5. CASE s[n] = Up
    BY <1>3, <2>1, <2>2, <2>3, <2>5 DEF Depth
  <2>6. CASE s[n] # Here /\ s[n] # Up
    BY <2>1, <2>2, <2>3, <2>6 DEF Depth
  <2> QED
    BY <2>4, <2>5, <2>6
<1> QED
  BY <1>1, <1>2, <1>4

\* The name read at i is still there after n segments: the walk has not been
\* above it since.
KeptTo(s, i, n) == i \in Names(s) \cap 1 .. n /\ \A j \in i .. n : Depth(s, j) >= Depth(s, i)

\* Where the walk stands after n segments: as deep as its names, and each name is
\* the one kept at its depth.
StandsAt(V, s, at, n) ==
  IF \E j \in 1 .. n : Depth(s, j) < 0
  THEN at = Refused
  ELSE /\ at \in [ok : {TRUE}, names : Seq(V)]
       /\ Len(at.names) = Depth(s, n)
       /\ \A m \in 1 .. Depth(s, n) :
            \E i \in 1 .. n : KeptTo(s, i, n) /\ Depth(s, i) = m /\ at.names[m] = s[i]

\* One more segment.
LEMMA EnterStands ==
  ASSUME NEW V, NEW s \in Seq(V), NEW n \in 1 .. Len(s), NEW at, StandsAt(V, s, at, n - 1)
  PROVE  StandsAt(V, s, Enter(at, s[n]), n)
<1> DEFINE d == Depth(s, n - 1)
           e == Depth(s, n)
           new == Enter(at, s[n])
<1>0. /\ n - 1 \in Nat /\ n \in Nat /\ n \in DOMAIN s /\ s[n] \in V
      /\ d \in Int /\ e \in Int
      /\ \A j \in 1 .. n : j \in 1 .. n - 1 \/ j = n
      /\ \A j \in 1 .. n : Depth(s, j) \in Int
      /\ \A i \in 1 .. n - 1 : \A j \in i .. n : j \in i .. n - 1 \/ j = n
  <2>1. n - 1 \in Nat /\ n \in Nat /\ n \in DOMAIN s /\ s[n] \in V
    OBVIOUS
  <2>2. \A j \in Nat : Depth(s, j) \in Int
    BY Depths
  <2>3. \A j \in 1 .. n : j \in Nat
    OBVIOUS
  <2> QED
    BY <2>1, <2>2, <2>3
<1>1. e = CASE s[n] = Here -> d [] s[n] = Up -> d - 1 [] OTHER -> d + 1
  BY Depths
<1>2. Here # Up
  BY DEF Here, Up
<1> HIDE DEF d, e
<1>3. CASE \E j \in 1 .. n - 1 : Depth(s, j) < 0
  <2>1. at = Refused
    BY <1>3 DEF StandsAt
  <2>2. new = Refused
    BY <2>1 DEF Enter, Refused
  <2>3. \E j \in 1 .. n : Depth(s, j) < 0
    BY <1>0, <1>3
  <2> QED
    BY <2>2, <2>3 DEF StandsAt
<1>4. CASE ~\E j \in 1 .. n - 1 : Depth(s, j) < 0
  <2>1. /\ at \in [ok : {TRUE}, names : Seq(V)] /\ Len(at.names) = d
        /\ \A m \in 1 .. d :
             \E i \in 1 .. n - 1 :
               KeptTo(s, i, n - 1) /\ Depth(s, i) = m /\ at.names[m] = s[i]
    BY <1>4 DEF StandsAt, d
  <2>2. d \in Nat /\ (at.names = <<>> <=> d = 0)
    BY <2>1
  <2>3. ASSUME NEW i \in 1 .. n - 1, KeptTo(s, i, n - 1), e >= Depth(s, i)
        PROVE  KeptTo(s, i, n)
    BY <1>0, <2>3 DEF KeptTo, e
  <2>4. CASE s[n] = Here
    <3>1. new = at /\ e = d
      <4>1. new = at
        BY <1>2, <2>4 DEF Enter
      <4>2. e = d
        BY <1>1, <1>2, <2>4
      <4> QED
        BY <4>1, <4>2
    <3>2. ~\E j \in 1 .. n : Depth(s, j) < 0
      BY <1>0, <1>4, <2>2, <3>1 DEF e
    <3>3. ASSUME NEW m \in 1 .. e
          PROVE  \E i \in 1 .. n : KeptTo(s, i, n) /\ Depth(s, i) = m /\ new.names[m] = s[i]
      <4>1. PICK i \in 1 .. n - 1 : KeptTo(s, i, n - 1) /\ Depth(s, i) = m /\ at.names[m] = s[i]
        BY <2>1, <3>1
      <4>2. e >= Depth(s, i) /\ i \in 1 .. n
        BY <1>0, <4>1
      <4>3. KeptTo(s, i, n)
        BY <2>3, <4>1, <4>2
      <4> QED
        BY <3>1, <4>1, <4>2, <4>3
    <3> HIDE DEF new
    <3> QED
      BY <2>1, <3>1, <3>2, <3>3 DEF StandsAt, e, new
  <2>5. CASE s[n] = Up /\ d = 0
    <3>1. new = Refused
      BY <1>2, <2>1, <2>2, <2>5 DEF Enter
    <3>2. Depth(s, n) < 0 /\ n \in 1 .. n
      BY <1>0, <1>1, <1>2, <2>5 DEF e
    <3> QED
      BY <3>1, <3>2 DEF StandsAt
  <2>6. CASE s[n] = Up /\ d # 0
    <3>1. new = [at EXCEPT !.names = Front(at.names)] /\ e = d - 1
      BY <1>1, <1>2, <2>1, <2>2, <2>6 DEF Enter
    <3>2. /\ Front(at.names) \in Seq(V) /\ Len(Front(at.names)) = e
          /\ \A m \in 1 .. e : Front(at.names)[m] = at.names[m]
      <4> DEFINE q == at.names
      <4>1. q \in Seq(V) /\ Len(q) = d /\ d \in Nat /\ d # 0
        BY <2>1, <2>2, <2>6
      <4> HIDE DEF q
      <4>2. /\ Front(q) \in Seq(V) /\ Len(Front(q)) = e
            /\ \A m \in 1 .. e : Front(q)[m] = q[m]
        BY <3>1, <4>1 DEF Front
      <4> QED
        BY <4>2 DEF q
    <3>3. ~\E j \in 1 .. n : Depth(s, j) < 0
      BY <1>0, <1>4, <2>2, <2>6, <3>1 DEF e
    <3>4. new \in [ok : {TRUE}, names : Seq(V)] /\ new.names = Front(at.names)
      BY <2>1, <3>1, <3>2
    <3>5. ASSUME NEW m \in 1 .. e
          PROVE  \E i \in 1 .. n : KeptTo(s, i, n) /\ Depth(s, i) = m /\ new.names[m] = s[i]
      <4>1. m \in 1 .. d
        BY <1>0, <2>2, <3>1
      <4>2. PICK i \in 1 .. n - 1 : KeptTo(s, i, n - 1) /\ Depth(s, i) = m /\ at.names[m] = s[i]
        BY <2>1, <4>1
      <4>3. e >= Depth(s, i) /\ i \in 1 .. n
        BY <1>0, <4>2
      <4>4. KeptTo(s, i, n)
        BY <2>3, <4>2, <4>3
      <4> QED
        BY <3>2, <3>4, <4>2, <4>3, <4>4
    <3> HIDE DEF new
    <3> QED
      BY <3>2, <3>3, <3>4, <3>5 DEF StandsAt, e, new
  <2>7. CASE s[n] # Here /\ s[n] # Up
    <3>1. new = [at EXCEPT !.names = Append(at.names, s[n])] /\ e = d + 1
      BY <1>1, <2>1, <2>7 DEF Enter
    <3>2. /\ Append(at.names, s[n]) \in Seq(V) /\ Len(Append(at.names, s[n])) = e
          /\ Append(at.names, s[n])[e] = s[n]
          /\ \A m \in 1 .. d : Append(at.names, s[n])[m] = at.names[m]
      <4> DEFINE q == at.names
      <4>1. q \in Seq(V) /\ Len(q) = d /\ d \in Nat
        BY <2>1, <2>2
      <4> HIDE DEF q
      <4>2. /\ Append(q, s[n]) \in Seq(V) /\ Len(Append(q, s[n])) = e
            /\ Append(q, s[n])[e] = s[n]
            /\ \A m \in 1 .. d : Append(q, s[n])[m] = q[m]
        BY <1>0, <3>1, <4>1
      <4> QED
        BY <4>2 DEF q
    <3>3. ~\E j \in 1 .. n : Depth(s, j) < 0
      BY <1>0, <1>4, <2>2, <3>1 DEF e
    <3>4. new \in [ok : {TRUE}, names : Seq(V)] /\ new.names = Append(at.names, s[n])
      BY <2>1, <3>1, <3>2
    <3>5. ASSUME NEW m \in 1 .. e
          PROVE  \E i \in 1 .. n : KeptTo(s, i, n) /\ Depth(s, i) = m /\ new.names[m] = s[i]
      <4>1. CASE m \in 1 .. d
        <5>1. PICK i \in 1 .. n - 1 :
                KeptTo(s, i, n - 1) /\ Depth(s, i) = m /\ at.names[m] = s[i]
          BY <2>1, <4>1
        <5>2. e >= Depth(s, i) /\ i \in 1 .. n
          BY <1>0, <3>1, <4>1, <5>1
        <5>3. KeptTo(s, i, n)
          BY <2>3, <5>1, <5>2
        <5> QED
          BY <3>2, <3>4, <4>1, <5>1, <5>2, <5>3
      <4>2. CASE m = e
        <5>1. n \in 1 .. n /\ n \in Names(s) /\ Depth(s, n) = m
          BY <1>0, <2>7, <4>2 DEF Names, e
        <5>2. \A j \in n .. n : j = n
          BY <1>0
        <5>3. KeptTo(s, n, n)
          BY <1>0, <5>1, <5>2 DEF KeptTo, e
        <5>4. new.names[m] = s[n]
          BY <3>2, <3>4, <4>2
        <5> QED
          BY <5>1, <5>3, <5>4
      <4>3. m \in 1 .. d \/ m = e
        <5>1. e = d + 1 /\ d \in Nat
          BY <2>2, <3>1
        <5> QED
          BY <5>1
      <4> QED
        BY <4>1, <4>2, <4>3
    <3> HIDE DEF new
    <3> QED
      BY <3>2, <3>3, <3>4, <3>5 DEF StandsAt, e, new
  <2> QED
    BY <2>4, <2>5, <2>6, <2>7
<1> QED
  BY <1>3, <1>4

\* Where the walk ends.
LEMMA WalkStands ==
  ASSUME NEW V, NEW s \in Seq(V)
  PROVE  StandsAt(V, s, Walk(s), Len(s))
<1>1. PICK at : Trace(s, at) /\ Walk(s) = at[Len(s)]
  BY WalkHasTrace
<1> DEFINE T == {n \in Nat : n <= Len(s) => StandsAt(V, s, at[n], n)}
<1>2. 0 \in T
  <2>1. at[0] = Start
    BY <1>1 DEF Trace
  <2>2. Start \in [ok : {TRUE}, names : Seq(V)] /\ Len(Start.names) = 0
    BY DEF Start
  <2>3. Depth(s, 0) = 0
    BY Depths
  <2>4. ~(\E j \in 1 .. 0 : Depth(s, j) < 0) /\ \A m \in 1 .. Depth(s, 0) : FALSE
    BY <2>3
  <2>5. StandsAt(V, s, Start, 0)
    BY <2>2, <2>3, <2>4 DEF StandsAt
  <2> QED
    BY <2>1, <2>5
<1>3. ASSUME NEW n \in T PROVE n + 1 \in T
  <2> SUFFICES ASSUME n + 1 <= Len(s) PROVE StandsAt(V, s, at[n + 1], n + 1)
    OBVIOUS
  <2>1. n \in Nat /\ StandsAt(V, s, at[n], n) /\ n + 1 \in 1 .. Len(s) /\ (n + 1) - 1 = n
    OBVIOUS
  <2>2. at[n + 1] = Enter(at[n], s[n + 1])
    BY <1>1, <2>1 DEF Trace
  <2> HIDE DEF T
  <2> DEFINE k == n + 1
  <2>3. k \in 1 .. Len(s) /\ StandsAt(V, s, at[n], k - 1)
    BY <2>1
  <2> HIDE DEF k
  <2>4. StandsAt(V, s, Enter(at[n], s[k]), k)
    BY <2>3, EnterStands
  <2> QED
    BY <2>2, <2>4 DEF k
<1>4. T = Nat
  <2>1. T \in SUBSET Nat
    OBVIOUS
  <2> HIDE DEF T
  <2> QED
    BY <1>2, <1>3, <2>1, NatSetInduction
<1>5. Len(s) \in T
  <2>1. Len(s) \in Nat
    OBVIOUS
  <2> HIDE DEF T
  <2> QED
    BY <1>4, <2>1
<1> QED
  BY <1>1, <1>5

\* Both references in terms of the depth.
LEMMA ClimbsBelow ==
  ASSUME NEW V, NEW s \in Seq(V)
  PROVE  Climbs(s) <=> \E j \in 1 .. Len(s) : Depth(s, j) < 0
<1> SUFFICES ASSUME NEW j \in 1 .. Len(s)
             PROVE  Cardinality({k \in 1 .. j : s[k] = Up}) > Cardinality(Names(s) \cap 1 .. j)
                      <=> Depth(s, j) < 0
  <2>1. DOMAIN s = 1 .. Len(s)
    OBVIOUS
  <2> QED
    BY <2>1 DEF Climbs
<1>1. {k \in 1 .. j : s[k] = Up} = Ups(s) \cap 1 .. j
  BY DEF Ups
<1>2. Count(Names(s), j) \in Nat /\ Count(Ups(s), j) \in Nat
  <2>1. j \in Nat
    OBVIOUS
  <2> QED
    BY <2>1, Counts
<1>3. Cardinality({k \in 1 .. j : s[k] = Up}) = Count(Ups(s), j)
  BY <1>1 DEF Count
<1>4. Cardinality(Names(s) \cap 1 .. j) = Count(Names(s), j)
  BY DEF Count
<1>5. Depth(s, j) = Count(Names(s), j) - Count(Ups(s), j)
  BY DEF Depth
<1> QED
  BY <1>2, <1>3, <1>4, <1>5

LEMMA StaysIsKept ==
  ASSUME NEW V, NEW s \in Seq(V), NEW i \in Names(s)
  PROVE  Stays(s, i) <=> KeptTo(s, i, Len(s))
<1>0. /\ i \in 1 .. Len(s) /\ i \in Nat \ {0} /\ i - 1 \in Nat
      /\ s[i] # Here /\ s[i] # Up
  BY DEF Names
<1>1. Depth(s, i) = Depth(s, i - 1) + 1 /\ Depth(s, i - 1) \in Int
  BY <1>0, Depths
<1>2. ASSUME NEW j \in i .. Len(s)
      PROVE  Cardinality({k \in i .. j : s[k] = Up}) < Cardinality(Names(s) \cap i .. j)
               <=> Depth(s, j) >= Depth(s, i)
  <2>0. j \in Nat /\ i <= j /\ j <= Len(s)
    BY <1>0
  <2>1. {k \in i .. j : s[k] = Up} = Ups(s) \cap i .. j
    BY <1>0, <2>0 DEF Ups
  <2>2. /\ Cardinality(Ups(s) \cap i .. j) = Count(Ups(s), j) - Count(Ups(s), i - 1)
        /\ Cardinality(Names(s) \cap i .. j) = Count(Names(s), j) - Count(Names(s), i - 1)
    BY <1>0, <2>0, CountBetween
  <2>3. /\ Count(Ups(s), j) \in Nat /\ Count(Names(s), j) \in Nat
        /\ Count(Ups(s), i - 1) \in Nat /\ Count(Names(s), i - 1) \in Nat
    BY <1>0, <2>0, Counts
  <2>4. /\ Depth(s, j) = Count(Names(s), j) - Count(Ups(s), j)
        /\ Depth(s, i - 1) = Count(Names(s), i - 1) - Count(Ups(s), i - 1)
    BY DEF Depth
  <2>5. Cardinality({k \in i .. j : s[k] = Up}) = Count(Ups(s), j) - Count(Ups(s), i - 1)
    BY <2>1, <2>2
  <2> QED
    BY <1>1, <2>2, <2>3, <2>4, <2>5
<1> QED
  BY <1>0, <1>2 DEF Stays, KeptTo

\* The depth numbers the names that stay, in their order and without a gap.
LEMMA KeptAreNumbered ==
  ASSUME NEW V, NEW s \in Seq(V), ~Climbs(s),
         NEW K, K = {i \in Names(s) : Stays(s, i)},
         NEW N, N = Depth(s, Len(s)),
         \A m \in 1 .. N : \E i \in K : Depth(s, i) = m
  PROVE  /\ N \in Nat /\ Cardinality(K) = N
         /\ \A i \in K : Depth(s, i) \in 1 .. N
         /\ \A i \in K : Cardinality({k \in K : k <= i}) = Depth(s, i)
         /\ \A i, j \in K : Depth(s, i) = Depth(s, j) => i = j
<1>0. Len(s) \in Nat /\ \A n \in 0 .. Len(s) : Depth(s, n) \in Int
  <2>1. \A n \in 0 .. Len(s) : n \in Nat
    OBVIOUS
  <2> QED
    BY <2>1, Depths
<1>1. \A n \in 0 .. Len(s) : Depth(s, n) \in Nat
  <2> TAKE n \in 0 .. Len(s)
  <2>1. CASE n = 0
    BY <2>1, Depths
  <2>2. CASE n # 0
    <3>1. n \in 1 .. Len(s)
      BY <2>2
    <3>2. ~(Depth(s, n) < 0)
      BY <3>1, ClimbsBelow
    <3> QED
      BY <1>0, <3>2
  <2> QED
    BY <2>1, <2>2
<1>2. N \in Nat
  BY <1>0, <1>1
<1>3. \A i \in K : i \in 1 .. Len(s) /\ i \in Names(s) /\ KeptTo(s, i, Len(s))
  BY StaysIsKept DEF Names
<1>4. ASSUME NEW i \in K PROVE Depth(s, i) \in 1 .. N
  <2>1. i \in 1 .. Len(s) /\ i \in Names(s) /\ KeptTo(s, i, Len(s))
    BY <1>3
  <2>2. Depth(s, i) = Depth(s, i - 1) + 1
    BY <2>1, Depths DEF Names
  <2>3. Depth(s, i - 1) \in Nat /\ Depth(s, i) \in Nat
    BY <1>0, <1>1, <2>1
  <2>4. N >= Depth(s, i)
    BY <1>0, <2>1 DEF KeptTo
  <2> QED
    BY <1>2, <2>2, <2>3, <2>4
<1>5. ASSUME NEW i \in K, NEW j \in K, i < j PROVE Depth(s, i) < Depth(s, j)
  <2>1. /\ i \in 1 .. Len(s) /\ j \in 1 .. Len(s) /\ j \in Names(s)
        /\ KeptTo(s, i, Len(s))
    BY <1>3
  <2>2. Depth(s, j) = Depth(s, j - 1) + 1
    BY <2>1, Depths DEF Names
  <2>3. j - 1 \in i .. Len(s) /\ j - 1 \in 0 .. Len(s) /\ i \in 0 .. Len(s)
    BY <1>0, <1>5, <2>1
  <2>4. Depth(s, j - 1) >= Depth(s, i)
    BY <2>1, <2>3 DEF KeptTo
  <2>5. Depth(s, i) \in Int /\ Depth(s, j - 1) \in Int
    BY <1>0, <2>3
  <2> QED
    BY <2>2, <2>4, <2>5
<1>6. ASSUME NEW i \in K, NEW j \in K, Depth(s, i) = Depth(s, j) PROVE i = j
  <2>1. i \in Nat /\ j \in Nat /\ Depth(s, i) \in Int /\ Depth(s, j) \in Int
    BY <1>0, <1>3, <1>4
  <2>2. ~(i < j) /\ ~(j < i)
    BY <1>5, <1>6, <2>1
  <2> QED
    BY <2>1, <2>2
<1>7. ASSUME NEW d \in 0 .. N
      PROVE  Cardinality({k \in K : Depth(s, k) <= d}) = d
  <2> DEFINE S == {k \in K : Depth(s, k) <= d}
             f == [m \in 1 .. d |-> CHOOSE k \in K : Depth(s, k) = m]
  <2>1. ASSUME NEW m \in 1 .. d PROVE f[m] \in S /\ Depth(s, f[m]) = m
    <3>1. m \in 1 .. N /\ m <= d
      BY <1>2
    <3>2. \E k \in K : Depth(s, k) = m
      BY <3>1
    <3> QED
      BY <3>1, <3>2
  <2>2. f \in [1 .. d -> S]
    BY <2>1
  <2>3. \A m, n \in 1 .. d : f[m] = f[n] => m = n
    BY <2>1
  <2>4. \A k \in S : \E m \in 1 .. d : f[m] = k
    <3> TAKE k \in S
    <3>1. Depth(s, k) \in 1 .. d
      BY <1>2, <1>4
    <3>2. f[Depth(s, k)] \in K /\ Depth(s, f[Depth(s, k)]) = Depth(s, k)
      BY <2>1, <3>1
    <3>3. f[Depth(s, k)] = k
      BY <1>6, <3>2
    <3> QED
      BY <3>1, <3>3
  <2>5. d \in Nat /\ IsFiniteSet(1 .. d) /\ Cardinality(1 .. d) = d
    <3>1. d \in Nat /\ d \in Int /\ 1 \in Int
      BY <1>2
    <3> QED
      BY <3>1, FS_Interval
  <2> HIDE DEF f, S
  <2>6. f \in Bijection(1 .. d, S)
    <3>1. f \in Injection(1 .. d, S)
      BY <2>2, <2>3 DEF Injection, IsInjective
    <3>2. f \in Surjection(1 .. d, S)
      BY <2>2, <2>4 DEF Surjection
    <3> QED
      BY <3>1, <3>2 DEF Bijection
  <2>7. ExistsBijection(1 .. d, S)
    BY <2>6 DEF ExistsBijection
  <2>8. Cardinality(S) = d
    BY <2>5, <2>7, FS_Bijection
  <2> QED
    BY <2>8 DEF S
<1>8. Cardinality(K) = N
  <2>1. {k \in K : Depth(s, k) <= N} = K /\ N \in 0 .. N
    BY <1>2, <1>4
  <2> QED
    BY <1>7, <2>1
<1>9. ASSUME NEW i \in K PROVE Cardinality({k \in K : k <= i}) = Depth(s, i)
  <2>1. \A k \in K : k \in Nat /\ Depth(s, k) \in Int
    BY <1>0, <1>3, <1>4
  <2>2. ASSUME NEW k \in K PROVE k <= i <=> Depth(s, k) <= Depth(s, i)
    <3>1. k < i => Depth(s, k) < Depth(s, i)
      BY <1>5
    <3>2. i < k => Depth(s, i) < Depth(s, k)
      BY <1>5
    <3> QED
      BY <2>1, <3>1, <3>2
  <2>3. {k \in K : k <= i} = {k \in K : Depth(s, k) <= Depth(s, i)}
    BY <2>2
  <2>4. Depth(s, i) \in 0 .. N
    BY <1>2, <1>4
  <2> QED
    BY <1>7, <2>3, <2>4
<1> QED
  BY <1>2, <1>4, <1>6, <1>8, <1>9

\* The loop and the reference agree on every sequence of segments.
LEMMA WalkIsBalanced ==
  ASSUME NEW V, NEW s \in Seq(V)
  PROVE  Walk(s) = IF Climbs(s) THEN Refused ELSE [ok |-> TRUE, names |-> BalancedNames(s)]
<1>1. StandsAt(V, s, Walk(s), Len(s))
  BY WalkStands
<1>2. CASE Climbs(s)
  BY <1>1, <1>2, ClimbsBelow DEF StandsAt
<1>3. CASE ~Climbs(s)
  <2> DEFINE K == {i \in Names(s) : Stays(s, i)}
             N == Depth(s, Len(s))
             w == Walk(s)
             Nth0(n) == CHOOSE i \in K : Cardinality({k \in K : k <= i}) = n
  <2>1. /\ w \in [ok : {TRUE}, names : Seq(V)] /\ Len(w.names) = N
        /\ \A m \in 1 .. N :
             \E i \in 1 .. Len(s) :
               KeptTo(s, i, Len(s)) /\ Depth(s, i) = m /\ w.names[m] = s[i]
    BY <1>1, <1>3, ClimbsBelow DEF StandsAt
  <2> HIDE DEF N, w
  <2>2. ASSUME NEW m \in 1 .. N
        PROVE  \E i \in K : Depth(s, i) = m /\ w.names[m] = s[i]
    <3>1. PICK i \in 1 .. Len(s) :
            KeptTo(s, i, Len(s)) /\ Depth(s, i) = m /\ w.names[m] = s[i]
      BY <2>1
    <3>2. i \in Names(s)
      BY <3>1 DEF KeptTo
    <3>3. Stays(s, i)
      BY <3>1, <3>2, StaysIsKept
    <3> QED
      BY <3>1, <3>2, <3>3
  <2> HIDE DEF K
  <2>3. /\ N \in Nat /\ Cardinality(K) = N
        /\ \A i \in K : Cardinality({k \in K : k <= i}) = Depth(s, i)
        /\ \A i, j \in K : Depth(s, i) = Depth(s, j) => i = j
    <3>1. K = {i \in Names(s) : Stays(s, i)} /\ N = Depth(s, Len(s))
      BY DEF K, N
    <3>2. \A m \in 1 .. N : \E i \in K : Depth(s, i) = m
      BY <2>2
    <3> QED
      BY <1>3, <3>1, <3>2, KeptAreNumbered, SMTT(40)
  <2>4. ASSUME NEW m \in 1 .. N PROVE w.names[m] = s[Nth0(m)]
    <3>1. PICK i \in K : Depth(s, i) = m /\ w.names[m] = s[i]
      BY <2>2
    <3>2. Nth0(m) \in K /\ Cardinality({k \in K : k <= Nth0(m)}) = m
      BY <2>3, <3>1
    <3>3. Nth0(m) = i
      BY <2>3, <3>1, <3>2
    <3> QED
      BY <3>1, <3>3
  <2>5. BalancedNames(s) = [m \in 1 .. N |-> s[Nth0(m)]]
    BY <2>3 DEF BalancedNames, K
  <2>6. w.names = [m \in 1 .. N |-> w.names[m]]
    BY <2>1, <2>3
  <2> HIDE DEF Nth0
  <2>7. w.names = BalancedNames(s)
    BY <2>4, <2>5, <2>6
  <2>8. w = [ok |-> TRUE, names |-> w.names]
    BY <2>1
  <2> QED
    BY <1>3, <2>7, <2>8 DEF w
<1> QED
  BY <1>2, <1>3

\* What normalize splits has as many segments as beginnings.
LEMMA SegmentsOf ==
  ASSUME NEW p, Text(p)
  PROVE  \E V : Segments(Decode(p)) \in Seq(V)
<1> DEFINE text == Decode(p)
           s == Segments(text)
           V == {s[n] : n \in DOMAIN s}
           many == Cardinality(Begins(text))
<1>1. many \in Nat
  <2>1. DOMAIN text = 1 .. Len(p) /\ Len(p) \in Nat
    BY DEF Text, Decode
  <2> HIDE DEF text
  <2>2. Begins(text) \in SUBSET (1 .. Len(p))
    BY <2>1 DEF Begins
  <2>3. IsFiniteSet(1 .. Len(p))
    BY <2>1, FS_Interval
  <2> QED
    BY <2>2, <2>3, FS_Subset, FS_CardinalityType
<1> HIDE DEF text
<1>2. DOMAIN s = 1 .. many /\ s = [n \in DOMAIN s |-> s[n]]
  BY DEF Segments
<1>3. \A n \in DOMAIN s : s[n] \in V
  OBVIOUS
<1> HIDE DEF s, V
<1>4. s \in Seq(V)
  BY <1>1, <1>2, <1>3
<1> QED
  BY <1>4 DEF s, text

\* normalize, for every path.
LEMMA NormalizesTo ==
  ASSUME NEW path, Text(path)
  PROVE  LET text == Decode(path)
             segments == Segments(text)
             names == BalancedNames(segments)
         IN Normalize(path) =
              IF \/ "c" \in ToSet(text) \/ Climbs(segments)
                 \/ \E i \in DOMAIN names : Hidden(names[i])
              THEN Refused ELSE [ok |-> TRUE, names |-> names]
<1> DEFINE text == Decode(path)
           segments == Segments(text)
           names == BalancedNames(segments)
           walk == Walk(segments)
<1>1. walk = IF Climbs(segments) THEN Refused ELSE [ok |-> TRUE, names |-> names]
  <2>1. PICK V : segments \in Seq(V)
    BY SegmentsOf
  <2> HIDE DEF segments
  <2> QED
    BY <2>1, WalkIsBalanced
<1>2. Normalize(path) =
        IF \/ "c" \in ToSet(text)
           \/ \E i \in DOMAIN walk.names : Hidden(walk.names[i])
        THEN Refused ELSE walk
  BY DEF Normalize
<1> HIDE DEF walk, names, segments, text
<1>3. CASE Climbs(segments)
  <2>1. walk = Refused
    BY <1>1, <1>3
  <2> QED
    BY <1>2, <1>3, <2>1 DEF names, segments, text
<1>4. CASE ~Climbs(segments)
  <2>1. walk = [ok |-> TRUE, names |-> names]
    BY <1>1, <1>4
  <2>2. walk.names = names
    BY <2>1
  <2> QED
    BY <1>2, <1>4, <2>1, <2>2 DEF names, segments, text
<1> QED
  BY <1>3, <1>4

--------------------------------------------------------------------------------
(* The search in a table with one row out of place.                            *)

AllOpen == [first |-> 0, len |-> Len(MIME_TABLE)]

\* `at` tells where the search stands after each round.
Rounds(at, key) ==
  at = [n \in 0 .. Len(MIME_TABLE) |-> IF n = 0 THEN AllOpen ELSE Halve(at[n - 1], key)]

\* The order of the rows: only the second and the third are exchanged.
LEMMA Table ==
  /\ Len(MIME_TABLE) = 55 /\ DOMAIN MIME_TABLE = 1 .. 55
  /\ MIME_TABLE[2] = 6 /\ MIME_TABLE[3] = 4
  /\ \A row \in 1 .. 55 : row \notin {2, 3} => MIME_TABLE[row] = 2 * row
BY DEF MIME_TABLE

\* The recursive definition in LowerBound defines a function.
LEMMA SearchHasRounds ==
  ASSUME NEW key
  PROVE  \E at : Rounds(at, key) /\ LowerBound(key) = at[Len(MIME_TABLE)].first
<1> DEFINE Goes(at, m) == at = [n \in 0 .. m |-> IF n = 0 THEN AllOpen ELSE Halve(at[n - 1], key)]
           T == {m \in Nat : \E at : Goes(at, m)}
<1>1. 0 \in T
  <2>1. Goes([n \in 0 .. 0 |-> AllOpen], 0)
    OBVIOUS
  <2> QED
    BY <2>1
<1>2. ASSUME NEW m \in T PROVE m + 1 \in T
  <2>1. m \in Nat
    OBVIOUS
  <2>2. PICK f : f = [n \in 0 .. m |-> IF n = 0 THEN AllOpen ELSE Halve(f[n - 1], key)]
    OBVIOUS
  <2> HIDE DEF T
  <2> DEFINE g == [n \in 0 .. m + 1 |-> IF n = m + 1 THEN Halve(f[m], key) ELSE f[n]]
  <2>3. ASSUME NEW n \in 0 .. m + 1
        PROVE  g[n] = IF n = 0 THEN AllOpen ELSE Halve(g[n - 1], key)
    <3>1. n # 0 => n - 1 \in 0 .. m /\ n - 1 # m + 1
      BY <2>1
    <3>2. n # 0 => g[n - 1] = f[n - 1]
      BY <2>1, <3>1
    <3>3. CASE n = m + 1
      BY <2>1, <3>2, <3>3
    <3>4. CASE n # m + 1
      <4>1. n \in 0 .. m /\ g[n] = f[n]
        BY <2>1, <3>4
      <4>2. f[n] = IF n = 0 THEN AllOpen ELSE Halve(f[n - 1], key)
        BY <2>2, <4>1
      <4> QED
        BY <3>2, <4>1, <4>2
    <3> QED
      BY <3>3, <3>4
  <2>4. g = [n \in 0 .. m + 1 |-> g[n]]
    OBVIOUS
  <2> HIDE DEF g
  <2>5. g = [n \in 0 .. m + 1 |-> IF n = 0 THEN AllOpen ELSE Halve(g[n - 1], key)]
    BY <2>3, <2>4
  <2> QED
    BY <2>1, <2>5 DEF T
<1>3. T = Nat
  <2> HIDE DEF T
  <2>1. T \in SUBSET Nat
    BY DEF T
  <2> QED
    BY <1>1, <1>2, <2>1, NatSetInduction
<1>4. Len(MIME_TABLE) \in T
  <2> HIDE DEF T
  <2> QED
    BY <1>3, Table
<1>5. \E at : Rounds(at, key)
  BY <1>4 DEF Rounds
<1> DEFINE W == CHOOSE at : Rounds(at, key)
<1>6. Rounds(W, key)
  BY <1>5, Zenon
<1>7. LowerBound(key) = W[Len(MIME_TABLE)].first
  BY Zenon DEF LowerBound, Rounds, AllOpen
<1> QED
  BY <1>6, <1>7, Zenon

\* The row before those still open is before the key, the row behind them is not.
Bracket(at, n, key) ==
  /\ at \in [first : 0 .. 55, len : 0 .. 55]
  /\ at.first + at.len <= 55 /\ at.len <= 55 - n
  /\ at.first = 0 \/ MIME_TABLE[at.first] < key
  /\ at.first + at.len = 55 \/ ~(MIME_TABLE[at.first + at.len + 1] < key)

\* The way to ".avif", which stands too early.
OnTheWay(at) ==
  <<at.first, at.len>> \in {<<0, 55>>, <<0, 27>>, <<0, 13>>, <<0, 6>>, <<0, 3>>, <<0, 1>>, <<1, 0>>}

\* A round keeps the bracket and closes it.
LEMMA HalveBrackets ==
  ASSUME NEW key \in Int, NEW n \in 1 .. 55, NEW at, Bracket(at, n - 1, key)
  PROVE  Bracket(Halve(at, key), n, key)
<1> DEFINE half == at.len \div 2
           mid == at.first + half + 1
<1>1. /\ at \in [first : 0 .. 55, len : 0 .. 55] /\ at.first + at.len <= 55
      /\ at.len <= 55 - (n - 1)
      /\ at.first = 0 \/ MIME_TABLE[at.first] < key
      /\ at.first + at.len = 55 \/ ~(MIME_TABLE[at.first + at.len + 1] < key)
  BY DEF Bracket
<1>2. CASE at.len = 0
  <2>1. Halve(at, key) = at
    BY <1>2 DEF Halve
  <2> QED
    BY <1>1, <1>2, <2>1 DEF Bracket
<1>3. CASE at.len > 0
  <2>1. half \in Nat /\ half < at.len
    BY <1>1, <1>3
  <2> HIDE DEF half
  <2>2. CASE Before(mid, key)
    <3>1. Halve(at, key) = [first |-> mid, len |-> at.len - half - 1]
      BY <1>3, <2>2 DEF Halve, half
    <3>2. /\ mid \in 0 .. 55 /\ at.len - half - 1 \in 0 .. 55
          /\ mid + (at.len - half - 1) = at.first + at.len
          /\ at.len - half - 1 <= 55 - n
      BY <1>1, <2>1
    <3>3. MIME_TABLE[mid] < key
      BY <2>2 DEF Before
    <3> HIDE DEF mid
    <3> QED
      BY <1>1, <3>1, <3>2, <3>3 DEF Bracket
  <2>3. CASE ~Before(mid, key)
    <3>1. Halve(at, key) = [at EXCEPT !.len = half]
      BY <1>1, <1>3, <2>3 DEF Halve, half
    <3>2. half \in 0 .. 55 /\ half <= 55 - n /\ at.first + half <= 55 /\ mid = at.first + half + 1
      BY <1>1, <2>1
    <3>3. ~(MIME_TABLE[mid] < key)
      BY <2>3 DEF Before
    <3> HIDE DEF mid
    <3> QED
      BY <1>1, <3>1, <3>2, <3>3 DEF Bracket
  <2> QED
    BY <2>2, <2>3
<1> QED
  BY <1>1, <1>2, <1>3

\* No round on that way compares with the row that was exchanged with it.
LEMMA HalveToAvif ==
  ASSUME NEW at \in [first : 0 .. 55, len : 0 .. 55], OnTheWay(at)
  PROVE  OnTheWay(Halve(at, 6))
<1> DEFINE half == at.len \div 2
           mid == at.first + half + 1
<1>1. CASE at.first = 0 /\ at.len \in {55, 27, 13, 6, 3}
  <2>1. /\ at.len = 55 => half = 27
        /\ at.len = 27 => half = 13
        /\ at.len = 13 => half = 6
        /\ at.len = 6 => half = 3
        /\ at.len = 3 => half = 1
    OBVIOUS
  <2>2. mid \in {28, 14, 7, 4, 2} /\ half \in {27, 13, 6, 3, 1}
    BY <1>1, <2>1
  <2>3. ~Before(mid, 6)
    BY <2>2, Table DEF Before
  <2>4. Halve(at, 6) = [at EXCEPT !.len = half]
    BY <1>1, <2>3 DEF Halve
  <2> HIDE DEF half
  <2>5. Halve(at, 6).first = 0 /\ Halve(at, 6).len = half
    BY <1>1, <2>4
  <2> QED
    BY <2>2, <2>5 DEF OnTheWay
<1>2. CASE at.first = 0 /\ at.len = 1
  <2>1. half = 0 /\ mid = 1
    BY <1>2
  <2>2. Before(mid, 6)
    BY <2>1, Table DEF Before
  <2>3. Halve(at, 6) = [first |-> mid, len |-> at.len - half - 1]
    BY <1>2, <2>2 DEF Halve
  <2> QED
    BY <1>2, <2>1, <2>3 DEF OnTheWay
<1>3. CASE at.first = 1 /\ at.len = 0
  <2>1. Halve(at, 6) = at
    BY <1>3 DEF Halve
  <2> QED
    BY <2>1
<1> QED
  BY <1>1, <1>2, <1>3 DEF OnTheWay

\* What the search returns, in a table that is sorted or not.
LEMMA LowerBoundIs ==
  ASSUME NEW key \in Int
  PROVE  LET r == LowerBound(key)
         IN /\ r \in 0 .. 55
            /\ r = 0 \/ MIME_TABLE[r] < key
            /\ r = 55 \/ ~(MIME_TABLE[r + 1] < key)
            /\ key = 6 => r = 1
<1>0. PICK at : Rounds(at, key) /\ LowerBound(key) = at[Len(MIME_TABLE)].first
  BY SearchHasRounds
<1>1. /\ at = [n \in 0 .. 55 |-> IF n = 0 THEN AllOpen ELSE Halve(at[n - 1], key)]
      /\ LowerBound(key) = at[55].first
      /\ AllOpen = [first |-> 0, len |-> 55]
  BY <1>0, Table DEF Rounds, AllOpen
<1> DEFINE Good(n) == Bracket(at[n], n, key) /\ (key = 6 => OnTheWay(at[n]))
           T == {n \in Nat : n <= 55 => Good(n)}
<1>2. 0 \in T
  <2>1. at[0] = AllOpen
    BY <1>1
  <2>2. Bracket(AllOpen, 0, key) /\ OnTheWay(AllOpen)
    BY <1>1 DEF Bracket, OnTheWay
  <2> QED
    BY <2>1, <2>2
<1>3. ASSUME NEW n \in T PROVE n + 1 \in T
  <2> SUFFICES ASSUME n + 1 <= 55 PROVE Good(n + 1)
    OBVIOUS
  <2>1. n \in Nat /\ Good(n) /\ n + 1 \in 1 .. 55 /\ (n + 1) - 1 = n
    OBVIOUS
  <2> HIDE DEF T
  <2>2. at[n + 1] = Halve(at[n], key)
    BY <1>1, <2>1
  <2> DEFINE k == n + 1
  <2>3. k \in 1 .. 55 /\ Bracket(at[n], k - 1, key)
    BY <2>1
  <2> HIDE DEF k
  <2>4. Bracket(Halve(at[n], key), k, key)
    BY <2>3, HalveBrackets
  <2>5. key = 6 => OnTheWay(Halve(at[n], key))
    BY <2>1, HalveToAvif DEF Bracket
  <2> QED
    BY <2>2, <2>4, <2>5 DEF k
<1>4. T = Nat
  <2>1. T \in SUBSET Nat
    OBVIOUS
  <2> HIDE DEF T
  <2> QED
    BY <1>2, <1>3, <2>1, NatSetInduction
<1>5. Good(55)
  <2>1. 55 \in T
    <3> HIDE DEF T
    <3> QED
      BY <1>4
  <2> QED
    BY <2>1
<1> DEFINE end == at[55]
<1>6. Bracket(end, 55, key) /\ (key = 6 => OnTheWay(end)) /\ LowerBound(key) = end.first
  BY <1>1, <1>5
<1> HIDE DEF end
<1>7. end.len = 0 /\ end.first \in 0 .. 55
  BY <1>6 DEF Bracket
<1>8. key = 6 => end.first = 1
  BY <1>6, <1>7 DEF OnTheWay
<1> QED
  BY <1>6, <1>7, <1>8 DEF Bracket

\* An extension is found exactly when no greater one stands above it.
LEMMA FoundInPlace ==
  ASSUME NEW ext \in Extensions \union {NoExtension}
  PROVE  DetectMimeType(ext) =
           IF \E row \in DOMAIN MIME_TABLE : MIME_TABLE[row] = ext /\ InPlace(row)
           THEN ext ELSE FALLBACK_MIME
<1> DEFINE r == LowerBound(ext)
           hit == r + 1 \in DOMAIN MIME_TABLE /\ MIME_TABLE[r + 1] = ext
           known == \E row \in DOMAIN MIME_TABLE : MIME_TABLE[row] = ext /\ InPlace(row)
<1>0. ext \in 0 .. 111 /\ ext \in Int
  BY DEF Extensions, NoExtension
<1>1. /\ r \in 0 .. 55
      /\ r = 0 \/ MIME_TABLE[r] < ext
      /\ r = 55 \/ ~(MIME_TABLE[r + 1] < ext)
      /\ ext = 6 => r = 1
  BY <1>0, LowerBoundIs
<1>2. DetectMimeType(ext) = IF ext # NoExtension /\ hit THEN ext ELSE FALLBACK_MIME
  BY DEF DetectMimeType
<1> HIDE DEF r
<1>3. \A row \in 1 .. 55 : InPlace(row) <=> row # 3
  <2> TAKE row \in 1 .. 55
  <2>1. CASE row = 3
    BY <2>1, Table DEF InPlace
  <2>2. CASE row # 3
    <3> SUFFICES ASSUME NEW above \in 1 .. row - 1
                 PROVE  MIME_TABLE[above] < MIME_TABLE[row]
      BY <2>2 DEF InPlace
    <3>1. above \in 1 .. 55 /\ above < row
      OBVIOUS
    <3> QED
      BY <2>2, <3>1, Table
  <2> QED
    BY <2>1, <2>2
<1>4. CASE known
  <2>1. PICK row \in 1 .. 55 : MIME_TABLE[row] = ext /\ row # 3
    BY <1>3, <1>4, Table
  <2>2. r + 1 = row
    <3>1. CASE row = 2
      BY <1>1, <2>1, <3>1, Table
    <3>2. CASE row # 2
      <4>1. ext = 2 * row
        BY <2>1, <3>2, Table
      <4>2. r # 55 => ~(MIME_TABLE[r + 1] < 2 * row) /\ r + 1 \in 1 .. 55
        BY <1>1, <4>1
      <4>3. r # 0 => MIME_TABLE[r] < 2 * row /\ r \in 1 .. 55
        BY <1>1, <4>1
      <4>4. r < row
        <5>1. CASE r \in {0, 2, 3}
          BY <2>1, <3>2, <4>3, <5>1, Table
        <5>2. CASE r \notin {0, 2, 3}
          BY <1>1, <4>3, <5>2, Table
        <5> QED
          BY <5>1, <5>2
      <4>5. r + 1 >= row
        <5>1. CASE r + 1 \in {2, 3}
          BY <2>1, <3>2, <4>2, <5>1, Table
        <5>2. CASE r + 1 \notin {2, 3}
          BY <1>1, <4>2, <5>2, Table
        <5> QED
          BY <5>1, <5>2
      <4> QED
        BY <1>1, <4>4, <4>5
    <3> QED
      BY <3>1, <3>2
  <2>3. ext # NoExtension
    BY <2>1, Table DEF NoExtension
  <2> QED
    BY <1>2, <1>4, <2>1, <2>2, <2>3, Table
<1>5. CASE ~known
  <2>1. ~hit
    <3> SUFFICES ASSUME hit PROVE FALSE
      OBVIOUS
    <3>1. r + 1 \in 1 .. 55 /\ MIME_TABLE[r + 1] = ext
      BY Table
    <3>2. r + 1 = 3
      BY <1>3, <1>5, <3>1, Table
    <3>3. r = 2 /\ ext = 4 /\ MIME_TABLE[r] = 6
      BY <1>1, <3>1, <3>2, Table
    <3> QED
      BY <1>1, <3>3
  <2> QED
    BY <1>2, <1>5, <2>1
<1> QED
  BY <1>4, <1>5

--------------------------------------------------------------------------------
(* Steps that several actions share.                                           *)

LEMMA FreshSame ==
  ASSUME UNCHANGED <<request, headers>>
  PROVE  Fresh' = Fresh
BY DEF Fresh, ResetResponse

\* Every status that is sent is one of the table.
LEMMA StatusTyped ==
  {Status.OK, Status.PARTIAL_CONTENT, Status.NOT_MODIFIED, Status.BAD_REQUEST,
   Status.FORBIDDEN, Status.NOT_FOUND} \subseteq {Status[name] : name \in DOMAIN Status}
BY DEF Status

LEMMA FreshFields ==
  /\ Fresh.status = Status.OK /\ Fresh.headers = <<>> /\ Fresh.body = 0
  /\ Fresh.has_content_length = FALSE
  /\ Fresh.keep_alive = (Parse(request.lines).ok /\ IsKeepAlive(request.version, headers))
  /\ DOMAIN Fresh = {"status", "headers", "body", "content_type", "content_length",
                     "has_content_length", "accept_ranges", "keep_alive",
                     "last_modified", "has_last_modified"}
BY DEF Fresh, ResetResponse

\* The next system call: only what was found matters.
LEMMA ProceedInv ==
  ASSUME FileInv, pc \in Calls, NEW call \in Calls, Proceed(call),
         UNCHANGED <<request, headers, KernelVars, FileVars>>,
         st' \in [size : Nat, mtime : Nat],
         place' \in {"at", "index"}, call # "open" => place' = "at",
         FoundInv'
  PROVE  FileInv'
<1>1. /\ pc' = call /\ UNCHANGED <<request, headers, tree, changes, seen, info, sender, open_files,
                                  response, header, listing>>
      /\ call \in Calls /\ call # "idle" /\ call # "respond" /\ call # "answered"
  BY DEF Proceed, KernelVars, FileVars, Calls
<1>2. FileTypeOK'
  BY <1>1 DEF FileInv, FileTypeOK, Calls
<1>3. FileHasOneOwner'
  BY <1>1 DEF FileInv, FileHasOneOwner, Answered
<1>4. MetInv'
  BY <1>1 DEF FileInv, MetInv, Calls
<1>5. AskedInv'
  BY <1>1, FreshSame DEF FileInv, AskedInv, Reached
<1>6. AnsweredInv'
  BY <1>1 DEF AnsweredInv
<1> QED
  BY <1>2, <1>3, <1>4, <1>5, <1>6 DEF FileInv

\* An error page instead.
LEMMA RefuseInv ==
  ASSUME FileInv, pc \in Calls, NEW status, AnswerError(response, status),
         UNCHANGED <<request, headers, KernelVars, place, FileVars>>,
         st' \in [size : Nat, mtime : Nat],
         \/ status = Status.FORBIDDEN /\ Refusable'
         \/ status = Status.NOT_FOUND /\ Missed'
  PROVE  FileInv'
<1>1. /\ pc' = "answered" /\ response' = Page(response, status) /\ header' = BuildHeaders(response')
      /\ UNCHANGED <<request, headers, tree, changes, seen, place, info, sender, open_files, listing>>
  BY DEF AnswerError, PrepareHeaders, KernelVars, FileVars
<1>2. response = Fresh /\ Reached /\ info = NoInfo /\ sender = NoFile /\ pc # "idle"
  BY DEF FileInv, AskedInv, Calls
<1>3. NothingSent(status)' /\ Reached'
  BY <1>1, <1>2, FreshSame DEF NothingSent, Reached
<1>4. FileTypeOK'
  <2>1. response'.status = status
    BY <1>1, <1>2, FreshFields DEF Page
  <2>2. response'.status \in {Status[name] : name \in DOMAIN Status}
    BY <2>1, StatusTyped
  <2> QED
    BY <1>1, <2>2 DEF FileInv, FileTypeOK
<1>5. FileHasOneOwner'
  BY <1>1, <1>2 DEF FileInv, FileHasOneOwner, Answered, NoInfo, NoFile
<1>6. MetInv'
  BY <1>1, <1>2 DEF FileInv, MetInv
<1>7. AskedInv' /\ FoundInv'
  BY <1>1 DEF AskedInv, FoundInv, Calls
<1>8. AnsweredInv'
  <2>1. (Refusal \/ Lacking)'
    BY <1>3 DEF Refusal, Lacking, NothingSent
  <2> QED
    BY <1>1, <1>3, <2>1 DEF AnsweredInv
<1> QED
  BY <1>4, <1>5, <1>6, <1>7, <1>8 DEF FileInv

\* stat has answered: the kind decides.
LEMMA FoundStep ==
  ASSUME FileInv, pc \in {"lstat", "stat"}, Found(tree.at), tree.at.kind # "none",
         \E t \in seen : Inside(t),
         UNCHANGED <<request, headers, KernelVars, place, FileVars>>
  PROVE  FileInv'
<1>1. /\ pc \in Calls /\ place = "at" /\ place' = "at" /\ tree \in seen /\ TreeOK(tree)
      /\ seen' = seen
  BY DEF FileInv, AskedInv, MetInv, Calls, KernelVars
<1>2. st' = StatOf(tree.at) /\ st' \in [size : Nat, mtime : Nat]
  BY <1>1 DEF Found, StatOf, TreeOK, NodeOK
<1>3. CASE tree.at.kind = "dir"
  <2>1. Proceed("index")
    BY <1>3 DEF Found
  <2>2. FoundInv'
    BY <1>1, <1>3, <2>1 DEF Proceed, FoundInv, Inside, IsLink
  <2> QED
    BY <1>1, <1>2, <2>1, <2>2, ProceedInv DEF Calls
<1>4. CASE tree.at.kind = "file"
  <2>1. Proceed("open")
    BY <1>4 DEF Found
  <2>2. FileFound'
    BY <1>1, <1>2, <1>4 DEF FileFound, Inside, IsLink
  <2>3. FoundInv'
    BY <2>1, <2>2 DEF Proceed, FoundInv
  <2> QED
    BY <1>1, <1>2, <2>1, <2>3, ProceedInv DEF Calls
<1>5. CASE tree.at.kind \notin {"dir", "file"}
  <2>1. AnswerError(response, Status.FORBIDDEN) /\ tree.at.kind = "other"
    BY <1>1, <1>5 DEF Found, TreeOK, NodeOK
  <2>2. Refusable'
    BY <1>1, <2>1 DEF Refusable
  <2> QED
    BY <1>1, <1>2, <2>1, <2>2, RefuseInv
<1> QED
  BY <1>3, <1>4, <1>5

--------------------------------------------------------------------------------
(* Every action keeps the invariant.                                           *)

LEMMA LookAtInv ==
  ASSUME FileInv, LookAt
  PROVE  FileInv'
<1>1. /\ pc = "lstat" /\ pc \in Calls /\ place = "at" /\ tree \in seen
      /\ st \in [size : Nat, mtime : Nat]
      /\ UNCHANGED <<request, headers, KernelVars, place, FileVars>> /\ seen' = seen
  BY DEF LookAt, FileInv, FileTypeOK, AskedInv, MetInv, Calls, KernelVars
<1>2. CASE IsLink(tree.at)
  <2>1. Proceed("realpath") /\ st' = [size |-> Len(tree.at.real), mtime |-> 0]
    BY <1>2 DEF LookAt
  <2>2. FoundInv'
    BY <1>1, <1>2, <2>1 DEF Proceed, FoundInv, IsLink
  <2>3. st' \in [size : Nat, mtime : Nat]
    BY <2>1
  <2> QED
    BY <1>1, <2>1, <2>2, <2>3, ProceedInv DEF Calls
<1>3. CASE ~IsLink(tree.at) /\ tree.at.kind # "none"
  <2>1. Found(tree.at)
    BY <1>3 DEF LookAt
  <2>2. \E t \in seen : Inside(t)
    BY <1>1, <1>3 DEF Inside
  <2> QED
    BY <1>1, <1>3, <2>1, <2>2, FoundStep
<1>4. CASE ~IsLink(tree.at) /\ tree.at.kind = "none"
  <2>1. AnswerError(response, Status.NOT_FOUND) /\ st' = st
    BY <1>4 DEF LookAt
  <2>2. Missed'
    BY <1>1, <1>4 DEF Missed, IsLink
  <2> QED
    BY <1>1, <2>1, <2>2, RefuseInv
<1> QED
  BY <1>2, <1>3, <1>4

LEMMA FollowLinkInv ==
  ASSUME FileInv, FollowLink
  PROVE  FileInv'
<1>1. /\ pc = "realpath" /\ pc \in Calls /\ place = "at" /\ tree \in seen
      /\ st' \in [size : Nat, mtime : Nat]
      /\ UNCHANGED <<request, headers, KernelVars, place, FileVars>> /\ seen' = seen
  BY DEF FollowLink, FileInv, FileTypeOK, AskedInv, MetInv, Calls, KernelVars
<1>2. CASE Resolves(tree.at)
  <2>1. Proceed("stat") /\ tree.at.kind # "none" /\ Inside(tree)
    BY <1>2 DEF FollowLink, Resolves, Inside, Within
  <2>2. FoundInv'
    BY <1>1, <2>1 DEF Proceed, FoundInv, Inside, IsLink
  <2> QED
    BY <1>1, <2>1, <2>2, ProceedInv DEF Calls
<1>3. CASE ~Resolves(tree.at)
  <2>1. /\ AnswerError(response, Status.FORBIDDEN)
        /\ ~Within(tree)
        /\ \E t \in seen : IsLink(t.at)
    BY <1>1, <1>3 DEF FollowLink, Resolves, Within, FileInv, FoundInv
  <2>2. Refusable'
    BY <1>1, <2>1 DEF Refusable, Inside, IsLink
  <2> QED
    BY <1>1, <2>1, <2>2, RefuseInv
<1> QED
  BY <1>2, <1>3

LEMMA StatTargetInv ==
  ASSUME FileInv, StatTarget
  PROVE  FileInv'
<1>1. /\ pc = "stat" /\ pc \in Calls /\ place = "at" /\ tree \in seen
      /\ st \in [size : Nat, mtime : Nat]
      /\ UNCHANGED <<request, headers, KernelVars, place, FileVars>> /\ seen' = seen
      /\ \E t \in seen : t.at.kind # "none"
      /\ \E t \in seen : Inside(t)
  BY DEF StatTarget, FileInv, FileTypeOK, AskedInv, MetInv, FoundInv, Calls, KernelVars
<1>2. CASE tree.at.kind = "none"
  <2>1. AnswerError(response, Status.NOT_FOUND) /\ st' = st
    BY <1>2 DEF StatTarget
  <2>2. Missed'
    BY <1>1, <1>2 DEF Missed
  <2> QED
    BY <1>1, <2>1, <2>2, RefuseInv
<1>3. CASE tree.at.kind # "none"
  <2>1. Found(tree.at)
    BY <1>3 DEF StatTarget
  <2> QED
    BY <1>1, <1>3, <2>1, FoundStep
<1> QED
  BY <1>2, <1>3

LEMMA LookAtIndexInv ==
  ASSUME FileInv, LookAtIndex
  PROVE  FileInv'
<1>1. /\ pc = "index" /\ pc \in Calls /\ place = "at" /\ tree \in seen /\ TreeOK(tree)
      /\ st \in [size : Nat, mtime : Nat]
      /\ UNCHANGED <<request, headers, KernelVars, FileVars>> /\ seen' = seen
      /\ \E t \in seen : Inside(t)
      /\ \E t \in seen : t.at.kind = "dir"
  BY DEF LookAtIndex, FileInv, FileTypeOK, AskedInv, MetInv, FoundInv, Calls, KernelVars
<1>2. CASE tree.index.kind = "file"
  <2>1. st' = StatOf(tree.index) /\ place' = "index" /\ Proceed("open")
    BY <1>2 DEF LookAtIndex
  <2>2. st' \in [size : Nat, mtime : Nat]
    BY <1>1, <2>1 DEF StatOf, TreeOK, NodeOK
  <2>3. FileFound'
    BY <1>1, <1>2, <2>1 DEF FileFound, Inside, IsLink
  <2>4. FoundInv'
    BY <2>1, <2>3 DEF Proceed, FoundInv
  <2> QED
    BY <1>1, <2>1, <2>2, <2>4, ProceedInv DEF Calls
<1>3. CASE tree.index.kind # "file"
  <2>1. Proceed("opendir") /\ UNCHANGED <<st, place>>
    BY <1>3 DEF LookAtIndex
  <2>2. FoundInv'
    BY <1>1, <1>3, <2>1 DEF Proceed, FoundInv, Inside, IsLink
  <2> QED
    BY <1>1, <2>1, <2>2, ProceedInv DEF Calls
<1> QED
  BY <1>2, <1>3

LEMMA ListDirectoryInv ==
  ASSUME FileInv, ListDirectory
  PROVE  FileInv'
<1>1. /\ pc = "opendir" /\ pc \in Calls /\ tree \in seen
      /\ pc' = "answered" /\ response' = Page(response, Status.OK)
      /\ header' = BuildHeaders(response')
      /\ UNCHANGED <<request, headers, tree, changes, seen, place, st, info, sender, open_files>>
      /\ listing' = [shown |-> IF tree.at.kind = "dir" /\ tree.at.readable
                               THEN Visible(tree.at) ELSE {},
                     show_parent |-> Normalize(request.path).names # <<>>]
  BY DEF ListDirectory, PrepareHeaders, FileInv, MetInv, Calls, KernelVars, FileVars
<1>2. response = Fresh /\ Reached /\ info = NoInfo /\ sender = NoFile
  BY <1>1 DEF FileInv, AskedInv
<1>3. NothingSent(Status.OK)' /\ Reached'
  BY <1>1, <1>2, FreshSame DEF NothingSent, Reached
<1>4. FileTypeOK'
  <2>1. response'.status = Status.OK
    BY <1>1, <1>2, FreshFields DEF Page
  <2>2. response'.status \in {Status[name] : name \in DOMAIN Status}
    BY <2>1, StatusTyped
  <2>3. listing'.show_parent \in BOOLEAN
    BY <1>1
  <2> QED
    BY <1>1, <2>2, <2>3 DEF FileInv, FileTypeOK
<1>5. FileHasOneOwner'
  BY <1>1, <1>2 DEF FileInv, FileHasOneOwner, Answered, NoInfo, NoFile
<1>6. MetInv'
  BY <1>1 DEF FileInv, MetInv
<1>7. AskedInv' /\ FoundInv'
  BY <1>1 DEF AskedInv, FoundInv, Calls
<1>8. ListingSent'
  <2>1. /\ \E t \in seen : Inside(t)
        /\ \E t \in seen : t.at.kind = "dir"
        /\ \E t \in seen : t.index.kind # "file"
    BY <1>1 DEF FileInv, FoundInv
  <2>2. listing'.shown = IF tree.at.kind = "dir" /\ tree.at.readable THEN Visible(tree.at) ELSE {}
    BY <1>1
  <2>3. \E t \in seen' : listing'.shown = IF t.at.kind = "dir" /\ t.at.readable THEN Visible(t.at) ELSE {}
    BY <1>1, <2>2
  <2> QED
    BY <1>1, <1>3, <2>1, <2>3 DEF ListingSent, Inside, IsLink, NothingSent
<1>9. AnsweredInv'
  BY <1>1, <1>3, <1>8 DEF AnsweredInv
<1> QED
  BY <1>4, <1>5, <1>6, <1>7, <1>9 DEF FileInv

LEMMA OpenInv ==
  ASSUME FileInv, Open
  PROVE  FileInv'
<1>1. /\ pc = "open" /\ pc \in Calls /\ tree \in seen /\ place \in {"at", "index"}
      /\ st \in [size : Nat, mtime : Nat] /\ FileFound
      /\ UNCHANGED <<request, headers, tree, changes, seen, place, st, sender>>
      /\ response = Fresh /\ Reached /\ info = NoInfo /\ sender = NoFile
      /\ open_files = 0
  BY DEF Open, FileInv, FileTypeOK, FileHasOneOwner, MetInv, AskedInv, FoundInv, Calls, KernelVars,
         NoInfo, NoFile
<1>2. FileFound'
  BY <1>1 DEF FileFound, Inside, IsLink, StatOf
<1>3. CASE tree[place].kind # "none" /\ tree[place].readable
  <2> DEFINE ext == IF place = "index" THEN TEXT_HTML ELSE request.ext
  <2>1. /\ open_files' = 1
        /\ info' = [fd |-> TRUE, size |-> st.size, last_modified |-> st.mtime,
                    mime_type |-> DetectMimeType(ext)]
        /\ pc' = "respond" /\ UNCHANGED <<response, header, listing>>
    BY <1>1, <1>3 DEF Open, Proceed
  <2>2. FileTypeOK'
    <3>1. info' \in [fd : BOOLEAN, size : Nat, last_modified : Nat,
                     mime_type : {NO_TYPE, FALLBACK_MIME} \union Extensions]
      <4>1. DetectMimeType(ext) \in {FALLBACK_MIME} \union Extensions
        BY MimeTyped
      <4> QED
        BY <1>1, <2>1, <4>1
    <3> QED
      BY <1>1, <2>1, <3>1 DEF FileInv, FileTypeOK
  <2>3. FileHasOneOwner'
    BY <1>1, <2>1 DEF FileHasOneOwner, Answered, NoFile
  <2>4. MetInv'
    BY <1>1, <2>1 DEF FileInv, MetInv
  <2>5. AskedInv'
    BY <1>1, <2>1, FreshSame DEF AskedInv, Calls, Reached
  <2>6. Opened(TRUE)'
    BY <1>1, <1>3, <2>1 DEF Opened
  <2>7. FoundInv' /\ AnsweredInv'
    BY <1>2, <2>1, <2>6 DEF FoundInv, AnsweredInv
  <2> QED
    BY <2>2, <2>3, <2>4, <2>5, <2>7 DEF FileInv
<1>4. CASE ~(tree[place].kind # "none" /\ tree[place].readable)
  <2>1. /\ AnswerError(response, Status.NOT_FOUND)
        /\ UNCHANGED <<request, headers, KernelVars, place, FileVars>>
        /\ st' \in [size : Nat, mtime : Nat]
    BY <1>1, <1>4 DEF Open, KernelVars, FileVars
  <2>2. Missed'
    BY <1>1, <1>2, <1>4 DEF Missed
  <2> QED
    BY <1>1, <2>1, <2>2, RefuseInv
<1> QED
  BY <1>3, <1>4

\* The end of a request that found its file.
LEMMA RespondNotModifiedInv ==
  ASSUME FileInv, RespondNotModified
  PROVE  FileInv'
<1>1. /\ pc = "respond" /\ IfModifiedSince(headers) >= info.last_modified
      /\ pc' = "answered" /\ response' = NotModified(response, info.last_modified)
      /\ header' = BuildHeaders(response')
      /\ open_files' = open_files - 1 /\ info' = [info EXCEPT !.fd = FALSE]
      /\ UNCHANGED <<request, headers, tree, changes, seen, place, st, sender, listing>>
  BY DEF RespondNotModified, PrepareHeaders, KernelVars
<1>2. response = Fresh /\ Reached /\ sender = NoFile /\ FileFound /\ Opened(TRUE)
  BY <1>1 DEF FileInv, AskedInv, FoundInv
<1>3. /\ info' = [fd |-> FALSE, size |-> st.size, last_modified |-> st.mtime,
                  mime_type |-> DetectMimeType(IF place = "index" THEN TEXT_HTML ELSE request.ext)]
      /\ info'.last_modified = info.last_modified /\ info'.fd = FALSE /\ info.fd = TRUE
  BY <1>1, <1>2 DEF Opened
<1>4. FileFound' /\ Opened(FALSE)'
  BY <1>1, <1>2, <1>3 DEF FileFound, Opened, Inside, IsLink, StatOf
<1>5. FileTypeOK'
  <2>1. response'.status = Status.NOT_MODIFIED
    BY <1>1, <1>2, FreshFields DEF NotModified
  <2>2. response'.status \in {Status[name] : name \in DOMAIN Status}
    BY <2>1, StatusTyped
  <2>3. info' \in [fd : BOOLEAN, size : Nat, last_modified : Nat,
                   mime_type : {NO_TYPE, FALLBACK_MIME} \union Extensions]
    BY <1>1 DEF FileInv, FileTypeOK
  <2>4. open_files' \in 0 .. 1
    BY <1>1, <1>2, <1>3 DEF FileInv, FileHasOneOwner
  <2> QED
    BY <1>1, <2>2, <2>3, <2>4 DEF FileInv, FileTypeOK
<1>6. FileHasOneOwner'
  BY <1>1, <1>2, <1>3 DEF FileInv, FileHasOneOwner, Answered, NoFile
<1>7. MetInv'
  BY <1>1 DEF FileInv, MetInv
<1>8. AskedInv' /\ FoundInv'
  BY <1>1 DEF AskedInv, FoundInv, Calls
<1>9. NotModifiedSent' /\ Reached'
  BY <1>1, <1>2, <1>3, <1>4, FreshSame DEF NotModifiedSent, Reached
<1>10. AnsweredInv'
  BY <1>1, <1>9 DEF AnsweredInv
<1> QED
  BY <1>5, <1>6, <1>7, <1>8, <1>10 DEF FileInv

LEMMA RespondFileInv ==
  ASSUME FileInv, RespondFile
  PROVE  FileInv'
<1>1. /\ pc = "respond" /\ IfModifiedSince(headers) < info.last_modified
      /\ response = Fresh /\ Reached /\ sender = NoFile /\ FileFound /\ Opened(TRUE)
      /\ info \in [fd : BOOLEAN, size : Nat, last_modified : Nat,
                   mime_type : {NO_TYPE, FALLBACK_MIME} \union Extensions]
      /\ LinesOK(headers)
  <2>1. LinesOK(headers)
    <3>1. headers = Front(request.lines) /\ LinesOK(request.lines) /\ request.lines # <<>>
      BY DEF RespondFile, FileInv, AskedInv, MetInv, Reached, Parse
    <3> QED
      BY <3>1, FrontLines
  <2> QED
    BY <2>1 DEF RespondFile, FileInv, AskedInv, FoundInv, FileTypeOK
<1>2. PICK range \in RangesRead(headers) :
        LET part == Interval(range, info.size)
            length == IF info.size > 0 THEN part.last - part.first + 1 ELSE 0
        IN /\ PrepareHeaders(Contents(response, info, part, length))
           /\ HandOver(part.first, part.last)
  BY DEF RespondFile
<1> DEFINE part == Interval(range, info.size)
           length == IF info.size > 0 THEN part.last - part.first + 1 ELSE 0
<1>3. part \in [set : BOOLEAN, first : Int, last : Int]
  <2>1. range \in [form : {"none", "suffix", "from", "span"}, a : Int, b : Int]
    BY <1>1, ReadsAsAsked
  <2>2. info.size \in Nat
    BY <1>1
  <2> QED
    BY <2>1, <2>2, IntervalTyped
<1>4. /\ pc' = "answered" /\ response' = Contents(response, info, part, length)
      /\ header' = BuildHeaders(response')
      /\ sender' = [fd |-> TRUE, first |-> part.first,
                    remaining |-> IF part.last >= part.first THEN part.last - part.first + 1 ELSE 0]
      /\ info' = [info EXCEPT !.fd = FALSE] /\ open_files' = open_files
      /\ UNCHANGED <<request, headers, tree, changes, seen, place, st, listing>>
  BY <1>2 DEF RespondFile, PrepareHeaders, HandOver, KernelVars
<1>5. /\ info' = [fd |-> FALSE, size |-> st.size, last_modified |-> st.mtime,
                  mime_type |-> DetectMimeType(IF place = "index" THEN TEXT_HTML ELSE request.ext)]
      /\ info'.last_modified = info.last_modified /\ info'.size = info.size
      /\ info'.mime_type = info.mime_type
      /\ info'.fd = FALSE /\ info.fd = TRUE
  BY <1>1, <1>4 DEF Opened
<1>6. FileFound' /\ Opened(FALSE)'
  BY <1>1, <1>4, <1>5 DEF FileFound, Opened, Inside, IsLink, StatOf
<1>7. FileTypeOK'
  <2>1. response'.status \in {Status.OK, Status.PARTIAL_CONTENT}
    BY <1>1, <1>4, FreshFields DEF Contents
  <2>2. response'.status \in {Status[name] : name \in DOMAIN Status}
    BY <2>1, StatusTyped
  <2>3. info' \in [fd : BOOLEAN, size : Nat, last_modified : Nat,
                   mime_type : {NO_TYPE, FALLBACK_MIME} \union Extensions]
    BY <1>1, <1>4
  <2>4. sender' \in [fd : BOOLEAN, first : Int, remaining : Nat]
    <3> HIDE DEF part
    <3> QED
      BY <1>3, <1>4
  <2> QED
    BY <1>4, <2>2, <2>3, <2>4 DEF FileInv, FileTypeOK
<1>8. FileHasOneOwner'
  BY <1>1, <1>4, <1>5 DEF FileInv, FileHasOneOwner, Answered, NoFile
<1>9. MetInv'
  BY <1>1, <1>4 DEF FileInv, MetInv
<1>10. AskedInv' /\ FoundInv'
  BY <1>4 DEF AskedInv, FoundInv, Calls
<1>11. FileSent' /\ Reached'
  <2>1. Fresh' = Fresh /\ RangesRead(headers)' = RangesRead(headers)
    BY <1>4, FreshSame
  <2>2. Contents(response, info, part, length) = Contents(Fresh', info', part, length)
    BY <1>1, <1>5, <2>1 DEF Contents
  <2>3. Interval(range, info'.size) = part
    BY <1>5
  <2> QED
    BY <1>1, <1>4, <1>5, <1>6, <2>1, <2>2, <2>3 DEF FileSent, Reached
<1>12. AnsweredInv'
  BY <1>4, <1>11 DEF AnsweredInv
<1> QED
  BY <1>7, <1>8, <1>9, <1>10, <1>12 DEF FileInv

\* A new request: nothing of the last one is left but the response.
LEMMA TakeInv ==
  ASSUME FileInv, NEW case \in Cases, Take(case)
  PROVE  FileInv'
<1> DEFINE parsed == Parse(case.request.lines)
           keep == parsed.ok /\ IsKeepAlive(case.request.version, parsed.headers)
           fresh == [ResetResponse(response) EXCEPT !.keep_alive = keep]
           met == parsed.ok /\ Normalize(case.request.path).ok
<1>1. /\ pc = "idle"
      /\ request' = case.request /\ headers' = parsed.headers
      /\ tree' = case.tree /\ changes' = case.changes /\ seen' = {case.tree}
      /\ UNCHANGED <<place, st, info, sender, open_files>>
      /\ met => pc' = "lstat" /\ response' = fresh /\ UNCHANGED <<header, listing>>
      /\ ~met => AnswerError(fresh, Status.BAD_REQUEST)
  BY DEF Take, FileVars
<1>2. info = NoInfo /\ sender = NoFile /\ open_files = 0 /\ place \in {"at", "index"}
  BY <1>1 DEF FileInv, FileTypeOK, FileHasOneOwner, AskedInv, NoInfo, NoFile
<1>3. TreeOK(case.tree) /\ case.changes \in Nat /\ LinesOK(case.request.lines)
  BY CasesAssumption
<1>4. MetInv'
  BY <1>1, <1>3 DEF MetInv
<1>5. Fresh' = fresh
  BY <1>1 DEF Fresh, ResetResponse
<1>6. Reached' <=> met
  BY <1>1 DEF Reached, Parse
<1>7. /\ fresh.status = Status.OK
      /\ "status" \in DOMAIN fresh
  BY DEF ResetResponse
<1> HIDE DEF fresh, met
<1>8. CASE met
  <2>1. pc' = "lstat" /\ response' = fresh /\ UNCHANGED <<header, listing>>
    BY <1>1, <1>8
  <2>2. FileTypeOK'
    <3>1. response'.status \in {Status[name] : name \in DOMAIN Status}
      BY <1>7, <2>1, StatusTyped
    <3> QED
      BY <1>1, <1>3, <2>1, <3>1 DEF FileInv, FileTypeOK
  <2>3. FileHasOneOwner'
    BY <1>1, <1>2, <2>1 DEF FileInv, FileHasOneOwner, Answered
  <2>4. AskedInv'
    <3>1. place' = "at"
      BY <1>1 DEF FileInv, AskedInv
    <3> QED
      BY <1>1, <1>2, <1>5, <1>6, <1>8, <2>1, <3>1 DEF AskedInv, Calls
  <2>5. FoundInv' /\ AnsweredInv'
    BY <2>1 DEF FoundInv, AnsweredInv
  <2> QED
    BY <1>4, <2>2, <2>3, <2>4, <2>5 DEF FileInv
<1>9. CASE ~met
  <2>1. /\ pc' = "answered" /\ response' = Page(fresh, Status.BAD_REQUEST)
        /\ header' = BuildHeaders(response') /\ listing' = listing
    BY <1>1, <1>9 DEF AnswerError, PrepareHeaders
  <2>2. FileTypeOK'
    <3>1. response'.status = Status.BAD_REQUEST
      BY <1>7, <2>1 DEF Page
    <3>2. response'.status \in {Status[name] : name \in DOMAIN Status}
      BY <3>1, StatusTyped
    <3> QED
      BY <1>1, <1>3, <2>1, <3>2 DEF FileInv, FileTypeOK
  <2>3. FileHasOneOwner'
    BY <1>1, <1>2, <2>1 DEF FileInv, FileHasOneOwner, Answered, NoInfo
  <2>4. AskedInv' /\ FoundInv'
    BY <2>1 DEF AskedInv, FoundInv, Calls
  <2>5. NotUnderstood'
    BY <1>1, <1>2, <1>5, <1>6, <1>9, <2>1 DEF NotUnderstood, NothingSent
  <2>6. AnsweredInv'
    BY <2>1, <2>5 DEF AnsweredInv
  <2> QED
    BY <1>4, <2>2, <2>3, <2>4, <2>6 DEF FileInv
<1> QED
  BY <1>8, <1>9

\* The response is sent and the file, if there was one, is closed.
LEMMA SentInv ==
  ASSUME FileInv, Sent
  PROVE  FileInv'
<1>1. /\ pc = "answered" /\ pc' = "idle"
      /\ open_files' = IF sender.fd THEN open_files - 1 ELSE open_files
      /\ seen' = {} /\ changes' = 0 /\ place' = "at" /\ st' = NoStat /\ info' = NoInfo
      /\ sender' = NoFile /\ listing' = NoListing /\ response' = response
  BY DEF Sent
<1>2. open_files' = 0
  BY <1>1 DEF FileInv, FileHasOneOwner, Answered
<1>3. FileTypeOK'
  <2>1. NoInfo \in [fd : BOOLEAN, size : Nat, last_modified : Nat,
                    mime_type : {NO_TYPE, FALLBACK_MIME} \union Extensions]
    BY DEF NoInfo
  <2>2. NoFile \in [fd : BOOLEAN, first : Int, remaining : Nat] /\ NoStat \in [size : Nat, mtime : Nat]
    BY DEF NoFile, NoStat
  <2>3. NoListing.show_parent \in BOOLEAN
    BY DEF NoListing
  <2> QED
    BY <1>1, <1>2, <2>1, <2>2, <2>3 DEF FileInv, FileTypeOK
<1>4. FileHasOneOwner'
  BY <1>1, <1>2 DEF FileHasOneOwner, Answered, NoInfo, NoFile
<1>5. MetInv' /\ AskedInv' /\ FoundInv' /\ AnsweredInv'
  BY <1>1 DEF MetInv, AskedInv, FoundInv, AnsweredInv, Calls
<1> QED
  BY <1>3, <1>4, <1>5 DEF FileInv

\* The tree changes: what was seen before stays seen.
LEMMA ChangeInv ==
  ASSUME FileInv, Change
  PROVE  FileInv'
<1>1. /\ pc \in Calls /\ changes' = changes - 1 /\ changes > 0
      /\ UNCHANGED <<pc, request, headers, place, st, info, sender, open_files, response, header, listing>>
  BY DEF Change, FileVars, FileInv, FileTypeOK, Calls
<1>2. PICK new \in Trees : tree' = new /\ seen' = seen \union {new}
  BY DEF Change
<1>3. MetInv'
  BY <1>1, <1>2, CasesAssumption DEF FileInv, MetInv
<1>4. FileTypeOK' /\ FileHasOneOwner'
  BY <1>1 DEF FileInv, FileTypeOK, FileHasOneOwner, Answered
<1>5. AskedInv'
  BY <1>1, FreshSame DEF FileInv, AskedInv, Reached
<1>6. FoundInv'
  <2>1. FileFound => FileFound'
    BY <1>1, <1>2 DEF FileFound, Inside, IsLink, StatOf
  <2>2. pc # "respond" /\ pc' = pc
    BY <1>1 DEF Calls
  <2>3. seen \subseteq seen'
    BY <1>2
  <2> QED
    BY <2>1, <2>2, <2>3 DEF FileInv, FoundInv
<1>7. AnsweredInv'
  BY <1>1 DEF AnsweredInv, Calls
<1> QED
  BY <1>3, <1>4, <1>5, <1>6, <1>7 DEF FileInv

LEMMA FileStutter ==
  ASSUME FileInv, UNCHANGED vars
  PROVE  FileInv'
<1>1. UNCHANGED <<pc, request, headers, tree, changes, seen, place, st, info, sender,
                  open_files, response, header, listing>>
  BY DEF vars
<1>2. Fresh' = Fresh
  BY <1>1, FreshSame
<1>3. FileTypeOK' /\ FileHasOneOwner' /\ MetInv'
  BY <1>1 DEF FileInv, FileTypeOK, FileHasOneOwner, MetInv, Answered
<1>4. AskedInv' /\ FoundInv'
  <2>1. AskedInv'
    BY <1>1, <1>2 DEF FileInv, AskedInv, Reached
  <2>2. (FileFound => FileFound') /\ (Opened(TRUE) => Opened(TRUE)')
    BY <1>1 DEF FileFound, Opened, Inside, IsLink, StatOf
  <2>3. pc' = pc /\ seen' = seen
    BY <1>1
  <2> QED
    BY <2>1, <2>2, <2>3 DEF FileInv, FoundInv
<1>5. AnsweredInv'
  <2>1. \A status : NothingSent(status) => NothingSent(status)'
    BY <1>1, <1>2 DEF NothingSent
  <2>2. (FileFound => FileFound') /\ (Opened(FALSE) => Opened(FALSE)')
    BY <1>1 DEF FileFound, Opened, Inside, IsLink, StatOf
  <2>3. (Reached <=> Reached') /\ (Refusable => Refusable')
    BY <1>1 DEF Reached, Refusable, Inside, IsLink
  <2>4. (NotUnderstood => NotUnderstood') /\ (Refusal => Refusal')
    BY <2>1, <2>3 DEF NotUnderstood, Refusal, Status
  <2>5. Lacking => Lacking'
    BY <1>1, <2>1, <2>2 DEF Lacking, Missed, IsLink, Status
  <2>6. ListingSent => ListingSent'
    BY <1>1, <2>1 DEF ListingSent, Inside, IsLink, Status
  <2>7. NotModifiedSent => NotModifiedSent'
    BY <1>1, <1>2, <2>2 DEF NotModifiedSent
  <2>8. FileSent => FileSent'
    BY <1>1, <1>2, <2>2 DEF FileSent
  <2> QED
    BY <1>1, <2>3, <2>4, <2>5, <2>6, <2>7, <2>8 DEF FileInv, AnsweredInv
<1> QED
  BY <1>3, <1>4, <1>5 DEF FileInv

LEMMA FileNextInv ==
  ASSUME FileInv, [Next]_vars
  PROVE  FileInv'
BY LookAtInv, FollowLinkInv, StatTargetInv, LookAtIndexInv, ListDirectoryInv, OpenInv,
   RespondNotModifiedInv, RespondFileInv, TakeInv, SentInv, ChangeInv, FileStutter
   DEF Next, Step

LEMMA FileInitInv ==
  ASSUME Init
  PROVE  FileInv
<1>1. FileTypeOK
  <2>1. NoInfo \in [fd : BOOLEAN, size : Nat, last_modified : Nat,
                    mime_type : {NO_TYPE, FALLBACK_MIME} \union Extensions]
    BY DEF NoInfo
  <2>2. NoFile \in [fd : BOOLEAN, first : Int, remaining : Nat] /\ NoStat \in [size : Nat, mtime : Nat]
    BY DEF NoFile, NoStat
  <2>3. NoListing.show_parent \in BOOLEAN
    BY DEF NoListing
  <2>4. response.status = Status.OK
    BY DEF Init, ResetResponse
  <2>5. response.status \in {Status[name] : name \in DOMAIN Status}
    BY <2>4, StatusTyped
  <2> QED
    BY <2>1, <2>2, <2>3, <2>5 DEF Init, FileTypeOK
<1>2. FileHasOneOwner
  BY DEF Init, FileHasOneOwner, Answered, NoInfo, NoFile
<1>3. MetInv /\ AskedInv /\ FoundInv /\ AnsweredInv
  BY DEF Init, MetInv, AskedInv, FoundInv, AnsweredInv, Calls
<1> QED
  BY <1>1, <1>2, <1>3 DEF FileInv

--------------------------------------------------------------------------------
(* What follows for every answer.                                              *)

\* What is known of every request: its path is text, its extension has a place in
\* the order of strings.
RequestInv ==
  IsUrlText(request.path) /\ request.ext \in Extensions \union {NoExtension}

\* ... from the request line to the answer.
THEOREM RequestInvariance == Spec => []RequestInv
<1>1. Init => RequestInv
  BY DEF Init, NoRequest, RequestInv, IsUrlText, ToSet
<1>2. RequestInv /\ [Next]_vars => RequestInv'
  <2> SUFFICES ASSUME RequestInv, [Next]_vars PROVE RequestInv'
    OBVIOUS
  <2>1. ASSUME NEW case \in Cases, Take(case) PROVE RequestInv'
    <3>1. /\ IsUrlText(case.request.path)
          /\ case.request.ext \in Extensions \union {NoExtension}
      BY CasesAssumption
    <3> QED
      BY <2>1, <3>1 DEF Take, RequestInv
  <2>2. CASE Sent
    BY <2>2 DEF Sent, NoRequest, RequestInv, IsUrlText, ToSet
  <2>3. CASE request' = request
    BY <2>3 DEF RequestInv
  <2>4. CASE Step \/ Change \/ UNCHANGED vars
    BY <2>3, <2>4
       DEF Step, LookAt, FollowLink, StatTarget, LookAtIndex, ListDirectory, Open,
           RespondNotModified, RespondFile, Change, vars
  <2> QED
    BY <2>1, <2>2, <2>4 DEF Next
<1> QED
  BY <1>1, <1>2, PTL DEF Spec

\* normalize keeps exactly the names that no ".." takes back and refuses exactly
\* the paths that climb above the root, keep a hidden name or hold a control
\* character other than tab, for paths of every length.
THEOREM NormalizeAlwaysBalanced == Spec => []NormalizeIsBalanced
<1>1. RequestInv => NormalizeIsBalanced
  <2> SUFFICES ASSUME RequestInv PROVE NormalizeIsBalanced
    OBVIOUS
  <2>1. Text(request.path)
    BY DEF RequestInv, IsUrlText, Text
  <2> QED
    BY <2>1, NormalizesTo, Zenon DEF NormalizeIsBalanced
<1> QED
  BY <1>1, RequestInvariance, PTL

\* The invariant of open and prepare_response.
THEOREM FileInvariance == Spec => []FileInv
BY FileInitInv, FileNextInv, PTL DEF Spec

\* Types: nothing that the tree does makes a size negative or a status unknown.
THEOREM FileTypesCorrect == Spec => []FileTypeOK
<1>1. FileInv => FileTypeOK
  BY DEF FileInv
<1> QED
  BY <1>1, FileInvariance, PTL

\* A descriptor is never left open or closed twice, whatever way the request takes.
THEOREM FileAlwaysHasOneOwner == Spec => []FileHasOneOwner
<1>1. FileInv => FileHasOneOwner
  BY DEF FileInv
<1> QED
  BY <1>1, FileInvariance, PTL

\* Page, NotModified and Contents, as build_headers sees them.
LEMMA PageHeader ==
  ASSUME NEW status, status # Status.NOT_MODIFIED
  PROVE  LET r == Page(Fresh, status)
             h == BuildHeaders(r)
         IN /\ h.status = status /\ h.content_length = PAGE_SIZE /\ h.content_range = <<>>
            /\ r.body = PAGE_SIZE
            /\ h.connection = IF Fresh.keep_alive THEN "keep-alive" ELSE "close"
BY FreshFields DEF Page, BuildHeaders

LEMMA NotModifiedHeader ==
  ASSUME NEW time
  PROVE  LET r == NotModified(Fresh, time)
             h == BuildHeaders(r)
         IN /\ h.status = Status.NOT_MODIFIED /\ h.content_length = Absent
            /\ h.content_range = <<>> /\ h.last_modified = time
            /\ h.connection = IF Fresh.keep_alive THEN "keep-alive" ELSE "close"
BY FreshFields DEF NotModified, BuildHeaders

LEMMA ContentsHeader ==
  ASSUME NEW about, NEW part, part.set \in BOOLEAN, NEW length
  PROVE  LET r == Contents(Fresh, about, part, length)
             h == BuildHeaders(r)
         IN /\ h.status = IF part.set THEN Status.PARTIAL_CONTENT ELSE Status.OK
            /\ h.content_length = length
            /\ h.content_range = IF part.set
                                 THEN <<[first |-> part.first, last |-> part.last, of |-> about.size]>>
                                 ELSE <<>>
            /\ h.content_type = about.mime_type
            /\ h.last_modified = about.last_modified /\ r.body = 0
            /\ h.connection = IF Fresh.keep_alive THEN "keep-alive" ELSE "close"
BY FreshFields DEF Contents, BuildHeaders, Status

LEMMA HeadersRead ==
  ASSUME FileInv, Answered
  PROVE  /\ LinesOK(headers) /\ LinesOK(request.lines)
         /\ headers = IF request.lines = <<>> THEN <<>> ELSE Front(request.lines)
<1>1. LinesOK(request.lines) /\ headers = Parse(request.lines).headers
  BY DEF FileInv, MetInv, Answered
<1>2. CASE request.lines = <<>>
  BY <1>1, <1>2 DEF Parse
<1>3. CASE request.lines # <<>>
  BY <1>1, <1>3, FrontLines DEF Parse
<1> QED
  BY <1>2, <1>3

\* The header that goes out with a file, and how many bytes follow it.
LEMMA FileHeader ==
  ASSUME FileInv, Answered, FileSent
  PROVE  \E range \in RangesRead(headers) :
           LET part == Interval(range, info.size)
           IN /\ part \in [set : BOOLEAN, first : Int, last : Int]
              /\ header.status = IF part.set THEN Status.PARTIAL_CONTENT ELSE Status.OK
              /\ header.content_length = IF info.size > 0 THEN part.last - part.first + 1 ELSE 0
              /\ header.content_range =
                   IF part.set THEN <<[first |-> part.first, last |-> part.last, of |-> info.size]>>
                   ELSE <<>>
              /\ header.content_type = info.mime_type
              /\ header.last_modified = info.last_modified /\ response.body = 0
              /\ header.connection = IF Fresh.keep_alive THEN "keep-alive" ELSE "close"
              /\ sender = [fd |-> TRUE, first |-> part.first,
                           remaining |-> IF part.last >= part.first
                                         THEN part.last - part.first + 1 ELSE 0]
<1>1. PICK range \in RangesRead(headers) :
        LET part == Interval(range, info.size)
        IN /\ response = Contents(Fresh, info, part,
                                  IF info.size > 0 THEN part.last - part.first + 1 ELSE 0)
           /\ sender = [fd |-> TRUE, first |-> part.first,
                        remaining |-> IF part.last >= part.first
                                      THEN part.last - part.first + 1 ELSE 0]
  BY DEF FileSent
<1> DEFINE part == Interval(range, info.size)
           length == IF info.size > 0 THEN part.last - part.first + 1 ELSE 0
<1>2. info.size \in Nat /\ header = BuildHeaders(response)
  BY DEF FileInv, FileTypeOK, AnsweredInv, Answered
<1>3. part \in [set : BOOLEAN, first : Int, last : Int]
  <2>1. LinesOK(headers)
    BY HeadersRead
  <2>2. range \in [form : {"none", "suffix", "from", "span"}, a : Int, b : Int]
    BY <2>1, ReadsAsAsked
  <2> QED
    BY <1>2, <2>2, IntervalTyped
<1>4. part.set \in BOOLEAN
  BY <1>3
<1> HIDE DEF part
<1>5. /\ response = Contents(Fresh, info, part, length)
      /\ sender = [fd |-> TRUE, first |-> part.first,
                   remaining |-> IF part.last >= part.first
                                 THEN part.last - part.first + 1 ELSE 0]
  BY <1>1 DEF part
<1>6. /\ header.status = IF part.set THEN Status.PARTIAL_CONTENT ELSE Status.OK
      /\ header.content_length = length
      /\ header.content_range =
           IF part.set THEN <<[first |-> part.first, last |-> part.last, of |-> info.size]>>
           ELSE <<>>
      /\ header.content_type = info.mime_type
      /\ header.last_modified = info.last_modified /\ response.body = 0
      /\ header.connection = IF Fresh.keep_alive THEN "keep-alive" ELSE "close"
  BY <1>2, <1>4, <1>5, ContentsHeader
<1> QED
  BY <1>3, <1>5, <1>6 DEF part

\* What goes out in the header belongs to what is sent behind it.
THEOREM HeaderAlwaysFitsBody == Spec => []HeaderFitsBody
<1>1. ASSUME FileInv PROVE HeaderFitsBody
  <2> SUFFICES ASSUME Answered, RangeFits(headers)
               PROVE  /\ header.content_length = Absent <=> header.status = Status.NOT_MODIFIED
                      /\ header.content_range # <<>> <=> header.status = Status.PARTIAL_CONTENT
                      /\ \A i \in DOMAIN header.content_range :
                           LET part == header.content_range[i]
                           IN 0 <= part.first /\ part.first <= part.last /\ part.last < part.of
                      /\ header.content_length # Absent =>
                           header.content_length = IF sender.fd THEN sender.remaining
                                                   ELSE response.body
                      /\ sender.fd => response.body = 0
    BY DEF HeaderFitsBody
  <2>0. header = BuildHeaders(response) /\ PAGE_SIZE # Absent
    BY <1>1, PageAssumption DEF FileInv, AnsweredInv, Answered, Absent
  <2>1. ASSUME NEW status \in {Status.OK, Status.BAD_REQUEST, Status.FORBIDDEN, Status.NOT_FOUND},
               NothingSent(status)
        PROVE  /\ header.content_length = PAGE_SIZE /\ header.content_length # Absent
               /\ header.status # Status.NOT_MODIFIED /\ header.status # Status.PARTIAL_CONTENT
               /\ header.content_range = <<>> /\ response.body = PAGE_SIZE /\ sender.fd = FALSE
    <3>1. status # Status.NOT_MODIFIED /\ status # Status.PARTIAL_CONTENT
      BY DEF Status
    <3> QED
      BY <2>0, <2>1, <3>1, PageHeader DEF NothingSent, NoFile
  <2>2. CASE NotUnderstood \/ Refusal \/ Lacking \/ ListingSent
    <3>1. PICK status \in {Status.OK, Status.BAD_REQUEST, Status.FORBIDDEN, Status.NOT_FOUND} :
            NothingSent(status)
      BY <2>2 DEF NotUnderstood, Refusal, Lacking, ListingSent
    <3>2. /\ header.content_length = PAGE_SIZE /\ header.content_length # Absent
          /\ header.status # Status.NOT_MODIFIED /\ header.status # Status.PARTIAL_CONTENT
          /\ header.content_range = <<>> /\ response.body = PAGE_SIZE /\ sender.fd = FALSE
      BY <2>1, <3>1
    <3>3. DOMAIN header.content_range = {}
      BY <3>2
    <3> QED
      BY <3>2, <3>3
  <2>3. CASE NotModifiedSent
    <3>1. /\ header.content_length = Absent /\ header.status = Status.NOT_MODIFIED
          /\ header.content_range = <<>> /\ sender.fd = FALSE
      BY <2>0, <2>3, NotModifiedHeader DEF NotModifiedSent, NoFile
    <3>2. header.status # Status.PARTIAL_CONTENT
      BY <3>1 DEF Status
    <3>3. DOMAIN header.content_range = {}
      BY <3>1
    <3> QED
      BY <3>1, <3>2, <3>3
  <2>4. CASE FileSent
    <3>1. LinesOK(headers) /\ info.size \in Nat
      BY <1>1, HeadersRead DEF FileInv, FileTypeOK
    <3> DEFINE range == Header(headers, "range", NoHeader)
               part == Interval(range, info.size)
    <3>2. RangesRead(headers) = {range}
      BY <3>1, ReadsAsAsked
    <3>3. range \in [form : {"none", "suffix", "from", "span"}, a : Nat, b : Nat]
      BY <3>1, NumbersRead
    <3>4. /\ part.set => 0 <= part.first /\ part.first <= part.last /\ part.last < info.size
          /\ info.size > 0 => part.first <= part.last
          /\ info.size = 0 => part.first = 0 /\ part.last = -1 /\ ~part.set
          /\ part.first \in Nat /\ part.last \in Int /\ part.set \in BOOLEAN
      <4> HIDE DEF range
      <4> QED
        BY <3>1, <3>3, IntervalIsPart
    <3>5. /\ header.status = IF part.set THEN Status.PARTIAL_CONTENT ELSE Status.OK
          /\ header.content_length = IF info.size > 0 THEN part.last - part.first + 1 ELSE 0
          /\ header.content_range =
               IF part.set THEN <<[first |-> part.first, last |-> part.last, of |-> info.size]>>
               ELSE <<>>
          /\ response.body = 0
          /\ sender = [fd |-> TRUE, first |-> part.first,
                       remaining |-> IF part.last >= part.first
                                     THEN part.last - part.first + 1 ELSE 0]
      <4> HIDE DEF range
      <4> QED
        BY <1>1, <2>4, <3>2, FileHeader
    <3> HIDE DEF part
    <3>6. header.content_length = sender.remaining /\ header.content_length \in Nat /\ sender.fd = TRUE
      BY <3>1, <3>4, <3>5
    <3>7. header.content_length # Absent /\ header.status # Status.NOT_MODIFIED
      BY <3>5, <3>6 DEF Absent, Status
    <3>8. header.content_range # <<>> <=> header.status = Status.PARTIAL_CONTENT
      BY <3>4, <3>5 DEF Status
    <3>9. \A i \in DOMAIN header.content_range :
             /\ 0 <= header.content_range[i].first
             /\ header.content_range[i].first <= header.content_range[i].last
             /\ header.content_range[i].last < header.content_range[i].of
      BY <3>4, <3>5
    <3> QED
      BY <3>5, <3>6, <3>7, <3>8, <3>9
  <2> QED
    BY <1>1, <2>2, <2>3, <2>4 DEF FileInv, AnsweredInv, Answered
<1> QED
  BY <1>1, FileInvariance, PTL

\* A connection is kept as the request asks, as far as its lines were read.
LEMMA ConnectionHeader ==
  ASSUME FileInv, Answered
  PROVE  header.connection = IF Fresh.keep_alive THEN "keep-alive" ELSE "close"
<1>1. header = BuildHeaders(response)
  BY DEF FileInv, AnsweredInv, Answered
<1>2. CASE \E status \in {Status.OK, Status.BAD_REQUEST, Status.FORBIDDEN, Status.NOT_FOUND} :
             NothingSent(status)
  <2>1. PICK status \in {Status.OK, Status.BAD_REQUEST, Status.FORBIDDEN, Status.NOT_FOUND} :
          NothingSent(status)
    BY <1>2
  <2>2. status # Status.NOT_MODIFIED
    BY DEF Status
  <2> QED
    BY <1>1, <2>1, <2>2, PageHeader DEF NothingSent
<1>3. CASE NotModifiedSent
  BY <1>1, <1>3, NotModifiedHeader DEF NotModifiedSent
<1>4. CASE FileSent
  BY <1>4, FileHeader
<1> QED
  BY <1>2, <1>3, <1>4
     DEF FileInv, AnsweredInv, Answered, NotUnderstood, Refusal, Lacking, ListingSent

\* A file is sent with the type of its extension if and only if that stands in
\* the table in its place, whatever happened to the tree.
THEOREM TypeIsAlwaysFoundInPlace == Spec => []TypeIsFoundInPlace
<1>1. ASSUME FileInv, RequestInv PROVE TypeIsFoundInPlace
  <2> DEFINE ext == IF place = "index" THEN TEXT_HTML ELSE request.ext
             known == \E row \in DOMAIN MIME_TABLE : MIME_TABLE[row] = ext /\ InPlace(row)
  <2> SUFFICES ASSUME Answered, sender.fd
               PROVE  header.content_type = IF known THEN ext ELSE FALLBACK_MIME
    BY DEF TypeIsFoundInPlace
  <2>1. FileSent
    <3>1. sender # NoFile
      BY DEF NoFile
    <3> QED
      BY <1>1, <3>1 DEF FileInv, AnsweredInv, Answered, NotUnderstood, Refusal, Lacking,
                        ListingSent, NotModifiedSent, NothingSent
  <2>2. header.content_type = info.mime_type
    BY <1>1, <2>1, FileHeader
  <2>3. info.mime_type = DetectMimeType(ext)
    BY <2>1 DEF FileSent, Opened
  <2>4. ext \in Extensions \union {NoExtension}
    BY <1>1 DEF RequestInv, TEXT_HTML, Extensions
  <2> HIDE DEF ext
  <2>5. DetectMimeType(ext) = IF known THEN ext ELSE FALLBACK_MIME
    BY <2>4, FoundInPlace
  <2> QED
    BY <2>2, <2>3, <2>5
<1> QED
  BY <1>1, FileInvariance, RequestInvariance, PTL

\* The answer keeps the connection exactly when the version and the header lines
\* but the last one ask for it.
THEOREM KeepAliveAlwaysAsAsked == Spec => []KeepAliveAsAsked
<1>1. ASSUME FileInv PROVE KeepAliveAsAsked
  <2> DEFINE lines == request.lines
             Says(value) == \E i \in DOMAIN lines : lines[i] = Line("connection", value) /\ i # Len(lines)
             asked == Header(headers, "connection", "")
  <2> SUFFICES ASSUME Answered
               PROVE  header.connection = "keep-alive" <=>
                        /\ lines # <<>>
                        /\ IF request.version = "HTTP/1.1" THEN ~Says("close") ELSE Says("keep-alive")
    BY DEF KeepAliveAsAsked
  <2>1. header.connection = "keep-alive" <=> Fresh.keep_alive
    BY <1>1, ConnectionHeader
  <2>2. Fresh.keep_alive <=> lines # <<>> /\ IsKeepAlive(request.version, headers)
    BY FreshFields DEF Parse
  <2>3. ASSUME lines # <<>>, NEW value, value # ""
        PROVE  asked = value <=> Says(value)
    <3>1. /\ LinesOK(lines) /\ headers = Front(lines) /\ LinesOK(headers)
          /\ DOMAIN lines = 1 .. Len(lines) /\ Len(lines) \in Nat
          /\ DOMAIN headers = 1 .. Len(lines) - 1
          /\ \A i \in 1 .. Len(lines) - 1 : headers[i] = lines[i]
      BY <1>1, <2>3, HeadersRead, FrontLines
    <3>2. Says(value) <=> \E i \in DOMAIN headers : headers[i] = Line("connection", value)
      <4>1. \A i \in DOMAIN lines : i # Len(lines) <=> i \in DOMAIN headers
        BY <3>1
      <4>2. \A i \in DOMAIN headers : i \in DOMAIN lines /\ headers[i] = lines[i]
        BY <3>1
      <4> QED
        BY <4>1, <4>2
    <3>3. \A i \in DOMAIN headers :
            headers[i] = Line("connection", value)
              <=> headers[i].name = "connection" /\ headers[i].value = value
      BY <3>1 DEF LinesOK, LineOK, Line
    <3>4. \A i, j \in DOMAIN headers : headers[i].name = headers[j].name => i = j
      BY <3>1 DEF LinesOK
    <3>5. \/ \E i \in DOMAIN headers : headers[i].name = "connection" /\ asked = headers[i].value
          \/ (\A i \in DOMAIN headers : headers[i].name # "connection") /\ asked = ""
      <4>1. LinesOK(headers)
        BY <3>1
      <4> QED
        BY <4>1, LookUp
    <3> HIDE DEF asked, lines, Says
    <3> QED
      BY <2>3, <3>2, <3>3, <3>4, <3>5
  <2>4. lines # <<>> =>
          (IsKeepAlive(request.version, headers) <=>
             IF request.version = "HTTP/1.1" THEN ~Says("close") ELSE Says("keep-alive"))
    <3>1. lines # <<>> => (asked = "close" <=> Says("close"))
      BY <2>3
    <3>2. lines # <<>> => (asked = "keep-alive" <=> Says("keep-alive"))
      BY <2>3
    <3>3. IsKeepAlive(request.version, headers) <=>
            IF request.version = "HTTP/1.1" THEN asked # "close" ELSE asked = "keep-alive"
      BY DEF IsKeepAlive
    <3> HIDE DEF asked, lines, Says
    <3> QED
      BY <3>1, <3>2, <3>3
  <2> QED
    BY <2>1, <2>2, <2>4
<1> QED
  BY <1>1, FileInvariance, PTL

\* What the invariant calls outside lies out of the root, and what it calls inside
\* does not, unless open left it unchecked.
LEMMA OutsideIsForbidden ==
  ASSUME FileInv, NEW t \in seen
  PROVE  /\ t.at.kind # "none" /\ ~Within(t) => Outside(t.at)
         /\ Inside(t) /\ ~Unchecked(t) /\ t.at.kind \in {"file", "dir"} => ~Forbidden(t)
         /\ t.at.kind \in {"none", "file", "dir", "other"}
         /\ t.index.kind \in {"none", "file", "dir", "other"}
<1>1. TreeOK(t)
  BY DEF FileInv, MetInv
<1>2. t.at.kind # "none" =>
        (IsWithinRoot(t.at.real, ROOT) <=> IsPrefix(Segments(ROOT), Segments(t.at.real)))
  BY <1>1, WithinRootIsBelow DEF TreeOK, NodeOK
<1>3. t.at.kind # "none" => (Within(t) <=> ~Outside(t.at))
  BY <1>2 DEF Within, Outside
<1> QED
  BY <1>1, <1>3 DEF Inside, Forbidden, Unchecked, TreeOK, NodeOK

\* Whatever happened to the tree in between, each part of an answer was true at
\* some time of the request (open between lstat, realpath, stat and open(2)).
THEOREM AlwaysAnswersFromWhatWasSeen == Spec => []AnswersFromWhatWasSeen
<1>1. ASSUME FileInv PROVE AnswersFromWhatWasSeen
  <2> DEFINE True(t, u) ==
        CASE header.status = Status.FORBIDDEN -> t.at.kind \in {"none", "other"} \/ Outside(t.at)
          [] header.status = Status.NOT_FOUND -> t[place].kind = "none" \/ ~t[place].readable
          [] IsListing -> t.at.kind = "dir" /\ listing.shown \in {{}, Visible(u.at)}
          [] OTHER ->
               /\ t[place].kind = "file" /\ u[place].readable
               /\ header.last_modified = t[place].mtime
               /\ header.status = Status.OK => header.content_length = t[place].size
               /\ \A i \in DOMAIN header.content_range :
                    header.content_range[i].of = t[place].size
  <2> SUFFICES ASSUME Answered, Reached PROVE \E t, u \in seen : True(t, u)
    BY DEF AnswersFromWhatWasSeen
  <2>0. header = BuildHeaders(response)
    BY <1>1 DEF FileInv, AnsweredInv, Answered
  <2>1. CASE Refusal
    <3>1. header.status = Status.FORBIDDEN
      <4>1. Status.FORBIDDEN # Status.NOT_MODIFIED
        BY DEF Status
      <4> QED
        BY <2>0, <2>1, <4>1, PageHeader DEF Refusal, NothingSent
    <3>2. PICK t \in seen : t.at.kind \in {"none", "other"} \/ Outside(t.at)
      BY <1>1, <2>1, OutsideIsForbidden DEF Refusal, Refusable
    <3>3. header.status # Status.NOT_FOUND /\ ~IsListing
      BY <3>1 DEF Status, IsListing
    <3>4. True(t, t)
      BY <3>1, <3>2, <3>3
    <3> QED
      BY <3>4
  <2>2. CASE Lacking
    <3>1. header.status = Status.NOT_FOUND
      <4>1. Status.NOT_FOUND # Status.NOT_MODIFIED
        BY DEF Status
      <4> QED
        BY <2>0, <2>2, <4>1, PageHeader DEF Lacking, NothingSent
    <3>2. PICK t \in seen : t[place].kind = "none" \/ ~t[place].readable
      BY <2>2 DEF Lacking, Missed
    <3>3. header.status # Status.FORBIDDEN /\ ~IsListing
      BY <3>1 DEF Status, IsListing
    <3>4. True(t, t)
      BY <3>1, <3>2, <3>3
    <3> QED
      BY <3>4
  <2>3. CASE ListingSent
    <3>1. header.status = Status.OK /\ info = NoInfo
      <4>1. Status.OK # Status.NOT_MODIFIED
        BY DEF Status
      <4> QED
        BY <2>0, <2>3, <4>1, PageHeader DEF ListingSent, NothingSent
    <3>2. PICK t \in seen : t.at.kind = "dir"
      BY <2>3 DEF ListingSent
    <3>3. PICK u \in seen : listing.shown = IF u.at.kind = "dir" /\ u.at.readable
                                            THEN Visible(u.at) ELSE {}
      BY <2>3 DEF ListingSent
    <3>4. listing.shown \in {{}, Visible(u.at)}
      BY <3>3
    <3>5. True(t, u)
      BY <3>1, <3>2, <3>4 DEF Status, IsListing, HasFile
    <3> QED
      BY <3>5
  <2>4. CASE NotModifiedSent \/ FileSent
    <3>1. /\ FileFound /\ Opened(FALSE)
          /\ info.size = st.size /\ info.last_modified = st.mtime /\ info # NoInfo
      <4>1. FileFound /\ Opened(FALSE)
        BY <2>4 DEF NotModifiedSent, FileSent
      <4>2. info.mime_type # NO_TYPE
        BY <4>1, MimeTyped DEF Opened
      <4>3. info # NoInfo
        BY <4>2 DEF NoInfo
      <4> QED
        BY <4>1, <4>3 DEF Opened
    <3>2. PICK t \in seen : t[place].kind = "file" /\ st = StatOf(t[place])
      BY <3>1 DEF FileFound
    <3>3. PICK u \in seen : u[place].readable
      BY <3>1 DEF Opened
    <3>4. info.size = t[place].size /\ info.last_modified = t[place].mtime
      BY <3>1, <3>2 DEF StatOf
    <3>5. /\ header.status \in {Status.OK, Status.PARTIAL_CONTENT, Status.NOT_MODIFIED}
          /\ header.last_modified = info.last_modified
          /\ header.status = Status.OK => header.content_length = info.size
          /\ \A i \in DOMAIN header.content_range : header.content_range[i].of = info.size
      <4>1. CASE NotModifiedSent
        <5>1. /\ header.status = Status.NOT_MODIFIED /\ header.content_range = <<>>
              /\ header.last_modified = info.last_modified
          BY <2>0, <4>1, NotModifiedHeader DEF NotModifiedSent
        <5>2. DOMAIN header.content_range = {}
          BY <5>1
        <5> QED
          BY <5>1, <5>2 DEF Status
      <4>2. CASE FileSent
        <5>1. PICK range \in RangesRead(headers) :
                LET part == Interval(range, info.size)
                IN /\ part \in [set : BOOLEAN, first : Int, last : Int]
                   /\ header.status = IF part.set THEN Status.PARTIAL_CONTENT ELSE Status.OK
                   /\ header.content_length = IF info.size > 0 THEN part.last - part.first + 1 ELSE 0
                   /\ header.content_range =
                        IF part.set THEN <<[first |-> part.first, last |-> part.last,
                                            of |-> info.size]>>
                        ELSE <<>>
                   /\ header.last_modified = info.last_modified
          BY <1>1, <4>2, FileHeader
        <5> DEFINE part == Interval(range, info.size)
        <5>2. info.size \in Nat
          BY <1>1 DEF FileInv, FileTypeOK
        <5>3. ~part.set => part.first = 0 /\ part.last = info.size - 1
          BY DEF Interval
        <5> HIDE DEF part
        <5>4. /\ part.set \in BOOLEAN
              /\ header.status = IF part.set THEN Status.PARTIAL_CONTENT ELSE Status.OK
              /\ header.content_length = IF info.size > 0 THEN part.last - part.first + 1 ELSE 0
              /\ header.content_range =
                   IF part.set THEN <<[first |-> part.first, last |-> part.last, of |-> info.size]>>
                   ELSE <<>>
              /\ header.last_modified = info.last_modified
          BY <5>1 DEF part
        <5>5. CASE part.set
          BY <5>4, <5>5 DEF Status
        <5>6. CASE ~part.set
          <6>1. header.status = Status.OK /\ DOMAIN header.content_range = {}
            BY <5>4, <5>6
          <6>2. header.content_length = info.size
            BY <5>2, <5>3, <5>4, <5>6
          <6> QED
            BY <5>4, <6>1, <6>2
        <5> QED
          BY <5>5, <5>6
      <4> QED
        BY <2>4, <4>1, <4>2
    <3>6. header.status # Status.FORBIDDEN /\ header.status # Status.NOT_FOUND /\ ~IsListing
      BY <3>1, <3>5 DEF Status, IsListing, HasFile
    <3>7. True(t, u)
      BY <3>2, <3>3, <3>4, <3>5, <3>6
    <3> QED
      BY <3>7
  <2> QED
    BY <1>1, <2>1, <2>2, <2>3, <2>4 DEF FileInv, AnsweredInv, Answered, NotUnderstood
<1> QED
  BY <1>1, FileInvariance, PTL

\* When the line that is lost has no consequence, the others say what all say.
LEMMA LastLineOfNoConsequence ==
  ASSUME FileInv, Answered, request.lines # <<>>, Last(request.lines).name = "host"
  PROVE  /\ IfModifiedSince(headers) = IfModifiedSince(request.lines)
         /\ Header(headers, "range", NoHeader) = Header(request.lines, "range", NoHeader)
         /\ RangeFits(headers) <=> RangeFits(request.lines)
<1> DEFINE lines == request.lines
<1>1. LinesOK(headers) /\ LinesOK(lines) /\ headers = Front(lines)
  BY HeadersRead
<1>2. /\ Len(lines) \in Nat /\ DOMAIN lines = 1 .. Len(lines)
      /\ DOMAIN headers = 1 .. Len(lines) - 1
      /\ \A i \in 1 .. Len(lines) - 1 : headers[i] = lines[i] /\ i \in DOMAIN lines
  BY <1>1, FrontLines
<1>3. lines[Len(lines)].name = "host"
  BY DEF Last
<1>4. ASSUME NEW name, name # "host", NEW absent
      PROVE  Header(headers, name, absent) = Header(lines, name, absent)
  <2>1. \A i \in DOMAIN headers : i \in DOMAIN lines /\ headers[i] = lines[i]
    BY <1>2
  <2>2. \A i \in DOMAIN lines : lines[i].name = name => i \in DOMAIN headers
    <3>1. \A i \in DOMAIN lines : lines[i].name = name => i # Len(lines)
      BY <1>3, <1>4
    <3> QED
      BY <1>2, <3>1
  <2>3. \/ \E i \in DOMAIN headers : headers[i].name = name /\ Header(headers, name, absent) = headers[i].value
        \/ (\A i \in DOMAIN headers : headers[i].name # name) /\ Header(headers, name, absent) = absent
    BY <1>1, LookUp
  <2>4. \/ \E i \in DOMAIN lines : lines[i].name = name /\ Header(lines, name, absent) = lines[i].value
        \/ (\A i \in DOMAIN lines : lines[i].name # name) /\ Header(lines, name, absent) = absent
    BY <1>1, LookUp
  <2>5. \A i, j \in DOMAIN lines : lines[i].name = lines[j].name => i = j
    BY <1>1 DEF LinesOK
  <2> HIDE DEF lines
  <2> QED
    BY <2>1, <2>2, <2>3, <2>4, <2>5
<1>5. IfModifiedSince(headers) = IfModifiedSince(lines)
  BY <1>4 DEF IfModifiedSince
<1>6. Header(headers, "range", NoHeader) = Header(lines, "range", NoHeader)
  BY <1>4
<1> QED
  BY <1>5, <1>6 DEF RangeFits

\* What one tree promises, in the order of prepare_response.
LEMMA Promises ==
  ASSUME FileInv, NEW t \in seen
  PROVE  /\ Forbidden(t) => Promised(t) = Status.FORBIDDEN
         /\ ~Forbidden(t) /\ Listed(t) => Promised(t) = Status.OK
         /\ ~Forbidden(t) /\ ~Listed(t) /\ Missing(t) => Promised(t) = Status.NOT_FOUND
         /\ ~Forbidden(t) /\ ~Listed(t) /\ ~Missing(t) =>
              /\ Unchanged(t) => Promised(t) = Status.NOT_MODIFIED
              /\ ~Unchanged(t) =>
                   Promised(t) = IF Part(t) # {} THEN Status.PARTIAL_CONTENT ELSE Status.OK
BY DEF Promised

\* The file that is sent is the one that the tree shows.
LEMMA FileShown ==
  ASSUME FileInv, NEW t, seen = {t}, ~Unchecked(t), FileFound
  PROVE  /\ t[place] = Node(t) /\ ~Forbidden(t) /\ ~Listed(t)
         /\ t.at.kind # "none" /\ Node(t).kind = "file"
         /\ st = [size |-> Node(t).size, mtime |-> Node(t).mtime]
<1>1. /\ t[place].kind = "file" /\ st = StatOf(t[place])
      /\ Inside(t)
      /\ place = "index" => t.at.kind = "dir"
      /\ place \in {"at", "index"}
  BY DEF FileFound, FileInv, FileTypeOK
<1>2. Inside(t) /\ ~Unchecked(t) /\ t.at.kind \in {"file", "dir"} => ~Forbidden(t)
  BY OutsideIsForbidden
<1>3. CASE place = "at"
  BY <1>1, <1>2, <1>3 DEF Node, Listed, StatOf
<1>4. CASE place = "index"
  BY <1>1, <1>2, <1>4 DEF Node, Listed, StatOf
<1> QED
  BY <1>1, <1>3, <1>4

\* A tree that holds still gets the answer it promises (open, prepare_response),
\* unless it is one in which open serves what a link leads to out of the root.
THEOREM AlwaysAnswersAsItStood == Spec => []AnswersAsItStood
<1>1. ASSUME FileInv PROVE AnswersAsItStood
  <2> DEFINE Right(t) ==
        /\ header.status = Promised(t)
        /\ HasFile => header.last_modified = Node(t).mtime
        /\ IsListing => listing.shown = IF t.at.readable THEN Visible(t.at) ELSE {}
        /\ sender.fd =>
             sender.first .. sender.first + sender.remaining - 1 =
               IF Part(t) # {} THEN Part(t) ELSE 0 .. Node(t).size - 1
  <2> SUFFICES ASSUME Answered, Reached, Last(request.lines).name = "host",
                      RangeFits(request.lines), NEW t \in seen, seen = {t}, ~Unchecked(t)
               PROVE  Right(t)
    BY DEF AnswersAsItStood
  <2>0. header = BuildHeaders(response)
    BY <1>1 DEF FileInv, AnsweredInv, Answered
  <2>1. CASE Refusal
    <3>1. header.status = Status.FORBIDDEN /\ ~IsListing
      <4>1. Status.FORBIDDEN # Status.NOT_MODIFIED /\ Status.FORBIDDEN # Status.OK
        BY DEF Status
      <4> QED
        BY <2>0, <2>1, <4>1, PageHeader DEF Refusal, NothingSent, IsListing
    <3>2. ~HasFile /\ ~sender.fd
      BY <2>1 DEF Refusal, NothingSent, HasFile, NoFile
    <3>3. Forbidden(t)
      <4>1. t.at.kind # "none" /\ ~Within(t) => Outside(t.at)
        BY <1>1, OutsideIsForbidden
      <4> QED
        BY <2>1, <4>1 DEF Refusal, Refusable, Forbidden
    <3>4. Promised(t) = Status.FORBIDDEN
      BY <1>1, <3>3, Promises
    <3> QED
      BY <3>1, <3>2, <3>4
  <2>2. CASE Lacking
    <3>1. header.status = Status.NOT_FOUND /\ ~IsListing
      <4>1. Status.NOT_FOUND # Status.NOT_MODIFIED /\ Status.NOT_FOUND # Status.OK
        BY DEF Status
      <4> QED
        BY <2>0, <2>2, <4>1, PageHeader DEF Lacking, NothingSent, IsListing
    <3>2. ~HasFile /\ ~sender.fd
      BY <2>2 DEF Lacking, NothingSent, HasFile, NoFile
    <3>3. ~Forbidden(t) /\ ~Listed(t) /\ Missing(t)
      <4>1. CASE t.at.kind = "none" /\ ~IsLink(t.at)
        BY <4>1 DEF Forbidden, Outside, Listed, Missing
      <4>2. CASE FileFound /\ (t[place].kind = "none" \/ ~t[place].readable)
        <5>1. t[place] = Node(t) /\ ~Forbidden(t) /\ ~Listed(t) /\ Node(t).kind = "file"
          BY <1>1, <4>2, FileShown
        <5> QED
          BY <4>2, <5>1 DEF Missing
      <4> QED
        BY <2>2, <4>1, <4>2 DEF Lacking, Missed
    <3>4. Promised(t) = Status.NOT_FOUND
      BY <1>1, <3>3, Promises
    <3> QED
      BY <3>1, <3>2, <3>4
  <2>3. CASE ListingSent
    <3>1. header.status = Status.OK
      <4>1. Status.OK # Status.NOT_MODIFIED
        BY DEF Status
      <4> QED
        BY <2>0, <2>3, <4>1, PageHeader DEF ListingSent, NothingSent
    <3>2. ~HasFile /\ ~sender.fd
      BY <2>3 DEF ListingSent, NothingSent, HasFile, NoFile
    <3>3. t.at.kind = "dir" /\ ~Forbidden(t) /\ Listed(t)
      BY <1>1, <2>3, OutsideIsForbidden DEF ListingSent, Listed
    <3>4. listing.shown = IF t.at.readable THEN Visible(t.at) ELSE {}
      BY <2>3, <3>3 DEF ListingSent
    <3>5. Promised(t) = Status.OK
      BY <1>1, <3>3, Promises
    <3> QED
      BY <3>1, <3>2, <3>4, <3>5
  <2>4. CASE NotModifiedSent \/ FileSent
    <3>1. FileFound /\ Opened(FALSE)
      BY <2>4 DEF NotModifiedSent, FileSent
    <3>2. HasFile /\ ~IsListing
      <4>1. info.mime_type # NO_TYPE
        BY <3>1, MimeTyped DEF Opened
      <4> QED
        BY <4>1 DEF NoInfo, HasFile, IsListing
    <3>3. /\ t[place] = Node(t) /\ ~Forbidden(t) /\ ~Listed(t) /\ t.at.kind # "none"
          /\ st = [size |-> Node(t).size, mtime |-> Node(t).mtime]
      BY <1>1, <3>1, FileShown
    <3>4. ~Missing(t)
      BY <3>1, <3>3 DEF Opened, Missing
    <3>5. info.size = Node(t).size /\ info.last_modified = Node(t).mtime
      BY <3>1, <3>3 DEF Opened
    <3>6. /\ IfModifiedSince(headers) = IfModifiedSince(request.lines)
          /\ Header(headers, "range", NoHeader) = Header(request.lines, "range", NoHeader)
          /\ RangeFits(headers)
      BY <1>1, LastLineOfNoConsequence DEF Reached
    <3>7. CASE NotModifiedSent
      <4>1. header.status = Status.NOT_MODIFIED /\ header.last_modified = info.last_modified
        BY <2>0, <3>7, NotModifiedHeader DEF NotModifiedSent
      <4>2. ~sender.fd /\ Unchanged(t)
        BY <3>5, <3>6, <3>7 DEF NotModifiedSent, NoFile, Unchanged
      <4>3. Promised(t) = Status.NOT_MODIFIED
        BY <1>1, <3>3, <3>4, <4>2, Promises
      <4> QED
        BY <3>2, <3>5, <4>1, <4>2, <4>3
    <3>8. CASE FileSent
      <4> DEFINE h == Header(request.lines, "range", NoHeader)
                 part == Interval(h, info.size)
      <4>1. LinesOK(headers) /\ LinesOK(request.lines)
        BY <1>1, HeadersRead
      <4>2. h \in [form : {"none", "suffix", "from", "span"}, a : Nat, b : Nat]
        BY <4>1, NumbersRead
      <4>3. RangesRead(headers) = {h}
        BY <3>6, <4>1, ReadsAsAsked
      <4>4. info.size \in Nat /\ info.last_modified \in Nat
        BY <1>1 DEF FileInv, FileTypeOK
      <4>5. /\ header.status = IF part.set THEN Status.PARTIAL_CONTENT ELSE Status.OK
            /\ header.last_modified = info.last_modified
            /\ sender = [fd |-> TRUE, first |-> part.first,
                         remaining |-> IF part.last >= part.first
                                       THEN part.last - part.first + 1 ELSE 0]
        BY <1>1, <3>8, <4>3, FileHeader
      <4>6. /\ part.first .. part.last =
                 IF Wanted(h, info.size) # {} THEN Wanted(h, info.size) ELSE 0 .. info.size - 1
            /\ part.set <=> Wanted(h, info.size) # {}
            /\ info.size > 0 => part.first <= part.last
            /\ info.size = 0 => part.first = 0 /\ part.last = -1 /\ ~part.set
            /\ part.first \in Nat /\ part.last \in Int
        BY <4>2, <4>4, IntervalIsPart
      <4>7. Part(t) = Wanted(h, info.size)
        BY <3>5 DEF Part
      <4>8. ~Unchanged(t)
        <5>1. IfModifiedSince(headers) \in Int /\ IfModifiedSince(headers) < info.last_modified
          BY <3>8, <4>1, NumbersRead DEF FileSent
        <5> QED
          BY <3>5, <3>6, <4>4, <5>1 DEF Unchanged
      <4> HIDE DEF part, h
      <4>9. header.status = Promised(t)
        <5>1. Promised(t) = IF Part(t) # {} THEN Status.PARTIAL_CONTENT ELSE Status.OK
          BY <1>1, <3>3, <3>4, <4>8, Promises
        <5> QED
          BY <4>5, <4>6, <4>7, <5>1
      <4>10. sender.first .. sender.first + sender.remaining - 1 = part.first .. part.last
        <5>1. sender.first = part.first
              /\ sender.remaining = IF part.last >= part.first THEN part.last - part.first + 1 ELSE 0
          BY <4>5
        <5> QED
          BY <4>4, <4>6, <5>1
      <4> QED
        BY <3>2, <3>5, <4>5, <4>6, <4>7, <4>9, <4>10
    <3> QED
      BY <2>4, <3>7, <3>8
  <2> QED
    BY <1>1, <2>1, <2>2, <2>3, <2>4 DEF FileInv, AnsweredInv, Answered, NotUnderstood
<1> QED
  BY <1>1, FileInvariance, PTL
--------------------------------------------------------------------------------
(* The links of a listing: what a client asks for, character by character, when *)
(* it follows one, and what normalize makes of that.                           *)

\* One more segment is one more step.
LEMMA WalkAppend ==
  ASSUME NEW V, NEW s \in Seq(V), NEW x \in V
  PROVE  Walk(Append(s, x)) = Enter(Walk(s), x)
<1> DEFINE longer == Append(s, x)
<1>1. /\ Len(s) \in Nat /\ longer \in Seq(V) /\ Len(longer) = Len(s) + 1
      /\ longer[Len(s) + 1] = x /\ \A n \in 1 .. Len(s) : longer[n] = s[n]
  OBVIOUS
<1> HIDE DEF longer
<1>2. PICK f : Trace(s, f) /\ Walk(s) = f[Len(s)]
  BY WalkHasTrace
<1>3. PICK g : Trace(longer, g) /\ Walk(longer) = g[Len(longer)]
  BY <1>1, WalkHasTrace
<1> DEFINE T == {n \in Nat : n <= Len(s) => f[n] = g[n]}
<1>4. f[0] = Start /\ g[0] = Start
  BY <1>1, <1>2, <1>3 DEF Trace
<1>5. ASSUME NEW n \in 1 .. Len(s) PROVE f[n] = Enter(f[n - 1], s[n])
  BY <1>1, <1>2, <1>5 DEF Trace
<1>6. ASSUME NEW n \in 1 .. Len(s) + 1 PROVE g[n] = Enter(g[n - 1], longer[n])
  <2>1. g = [k \in 0 .. Len(s) + 1 |-> IF k = 0 THEN Start ELSE Enter(g[k - 1], longer[k])]
    BY <1>1, <1>3 DEF Trace
  <2>2. n \in 0 .. Len(s) + 1 /\ n # 0
    BY <1>1
  <2> QED
    BY <2>1, <2>2
<1>7. ASSUME NEW n \in T PROVE n + 1 \in T
  <2> SUFFICES ASSUME n + 1 <= Len(s) PROVE f[n + 1] = g[n + 1]
    OBVIOUS
  <2>1. n \in Nat /\ f[n] = g[n] /\ n + 1 \in 1 .. Len(s) /\ n + 1 \in 1 .. Len(s) + 1
        /\ (n + 1) - 1 = n
    BY <1>1
  <2>2. f[n + 1] = Enter(f[n], s[n + 1])
    BY <1>5, <2>1
  <2>3. g[n + 1] = Enter(g[n], longer[n + 1])
    BY <1>6, <2>1
  <2> QED
    BY <1>1, <2>1, <2>2, <2>3
<1>8. T = Nat
  <2>1. 0 \in T /\ T \in SUBSET Nat
    BY <1>4
  <2> HIDE DEF T
  <2> QED
    BY <1>7, <2>1, NatSetInduction
<1>9. f[Len(s)] = g[Len(s)]
  BY <1>1, <1>8
<1>10. g[Len(s) + 1] = Enter(g[Len(s)], x)
  <2>1. Len(s) + 1 \in 1 .. Len(s) + 1 /\ (Len(s) + 1) - 1 = Len(s)
    BY <1>1
  <2> QED
    BY <1>1, <1>6, <2>1
<1> QED
  BY <1>1, <1>2, <1>3, <1>9, <1>10 DEF longer

\* Texts that agree from i to e have the same piece there.
LEMMA SameCut ==
  ASSUME NEW p, Text(p), NEW q, Text(q), NEW i \in 1 .. Len(p), NEW e \in i .. Len(p),
         e <= Len(q), \A k \in i .. e : q[k] = p[k]
  PROVE  SubSeq(q, i, e) = SubSeq(p, i, e)
<1>1. PICK V : p \in Seq(V)
  BY DEF Text
<1>2. PICK W : q \in Seq(W)
  BY DEF Text
<1> DEFINE X == V \union W
<1>3. p \in Seq(X) /\ q \in Seq(X)
  BY <1>1, <1>2
<1> HIDE DEF X
<1>4. i \in Nat \ {0} /\ e \in Nat /\ i <= e /\ e <= Len(p) /\ Len(p) \in Nat /\ Len(q) \in Nat
  BY <1>3
<1> DEFINE a == SubSeq(p, i, e)
           b == SubSeq(q, i, e)
           l == e - i + 1
<1>5. /\ a \in Seq(X) /\ b \in Seq(X) /\ Len(a) = l /\ Len(b) = l /\ l \in Nat
      /\ \A k \in 1 .. l : a[k] = p[i + k - 1] /\ b[k] = q[i + k - 1]
  BY <1>3, <1>4
<1>6. \A k \in 1 .. l : i + k - 1 \in i .. e
  BY <1>4
<1> HIDE DEF a, b, l
<1>7. \A k \in 1 .. l : a[k] = b[k]
  BY <1>5, <1>6
<1>8. a = b
  BY <1>5, <1>7
<1> QED
  BY <1>8 DEF a, b

\* The pieces of a text that is longer by a text without slashes, after a slash.
LEMMA NameAdded ==
  ASSUME NEW p, Text(p), p # <<>>, p[Len(p)] = "/",
         NEW w, Text(w), w # <<>>, \A k \in DOMAIN w : w[k] # "/"
  PROVE  Segments(p \o w) = Append(Segments(p), w)
<1> DEFINE q == p \o w
           n == Len(p)
           m == Len(w)
<1>1. /\ n \in Nat \ {0} /\ m \in Nat \ {0} /\ Text(q) /\ Len(q) = n + m
      /\ DOMAIN p = 1 .. n /\ DOMAIN q = 1 .. n + m /\ DOMAIN w = 1 .. m
      /\ \A k \in 1 .. n : q[k] = p[k]
      /\ \A k \in 1 .. m : q[n + k] = w[k]
      /\ SubSeq(q, n + 1, n + m) = w
  <2>1. PICK V : p \in Seq(V)
    BY DEF Text
  <2>2. PICK W : w \in Seq(W)
    BY DEF Text
  <2>3. p \in Seq(V \union W) /\ w \in Seq(V \union W)
    BY <2>1, <2>2
  <2> DEFINE X == V \union W
  <2> HIDE DEF X
  <2>4. /\ n \in Nat \ {0} /\ m \in Nat \ {0} /\ q \in Seq(X) /\ Len(q) = n + m
        /\ DOMAIN p = 1 .. n /\ DOMAIN q = 1 .. n + m /\ DOMAIN w = 1 .. m
        /\ \A k \in 1 .. n : q[k] = p[k]
        /\ \A k \in 1 .. m : q[n + k] = w[k]
    BY <2>3 DEF X
  <2>5. SubSeq(q, n + 1, n + m) = w
    <3> HIDE DEF q, n, m
    <3>1. /\ SubSeq(q, n + 1, n + m) \in Seq(X) /\ w \in Seq(X)
          /\ Len(SubSeq(q, n + 1, n + m)) = m /\ Len(w) = m
          /\ \A k \in 1 .. m : SubSeq(q, n + 1, n + m)[k] = q[n + k]
      BY <2>3, <2>4 DEF X, m
    <3> QED
      BY <2>4, <3>1
  <2> QED
    BY <2>4, <2>5 DEF Text
<1> HIDE DEF q, n, m
<1>2. /\ Begins(p) \cap 1 .. n = Begins(q) \cap 1 .. n
      /\ \A i \in 1 .. n : Rank(p, i) = Rank(q, i)
  <2>1. n \in Nat /\ n <= Len(p) /\ n <= Len(q)
    BY <1>1 DEF n
  <2>2. \A k \in 1 .. n : p[k] = q[k]
    BY <1>1
  <2>3. Text(p) /\ Text(q)
    BY <1>1
  <2> QED
    BY <2>1, <2>2, <2>3, SameBegins
<1>3. Begins(q) = Begins(p) \union {n + 1} /\ n + 1 \notin Begins(p)
  <2>1. Begins(p) \subseteq 1 .. n /\ Begins(q) \subseteq 1 .. n + m
    BY <1>1 DEF Begins
  <2>2. n + 1 \in Begins(q)
    <3>1. q[n + 1] # "/" /\ n + 1 \in 1 .. n + m /\ n \in 1 .. n /\ (n + 1) - 1 = n
      BY <1>1
    <3>2. q[n] = "/"
      BY <1>1, <3>1 DEF n
    <3> QED
      BY <1>1, <3>1, <3>2 DEF Begins
  <2>3. ASSUME NEW i \in Begins(q), i > n + 1 PROVE FALSE
    <3>1. i \in 1 .. n + m
      BY <2>1
    <3>2. i - 1 - n \in 1 .. m /\ n + (i - 1 - n) = i - 1 /\ i # 1
      BY <1>1, <2>3, <3>1
    <3>3. q[i - 1] # "/"
      BY <1>1, <3>2
    <3> QED
      BY <3>2, <3>3 DEF Begins
  <2>4. \A i \in Begins(q) : i \in 1 .. n \/ i = n + 1 \/ i > n + 1
    BY <1>1, <2>1
  <2>5. Begins(q) \subseteq Begins(p) \union {n + 1}
    BY <1>2, <2>3, <2>4
  <2>6. Begins(p) \subseteq Begins(q)
    BY <1>2, <2>1
  <2> QED
    BY <1>1, <2>1, <2>2, <2>5, <2>6
<1> DEFINE many == Cardinality(Begins(p))
<1>4. many \in Nat /\ Cardinality(Begins(q)) = many + 1 /\ Rank(q, n + 1) = many + 1
  <2>1. IsFiniteSet(Begins(p))
    <3>1. Begins(p) \subseteq 1 .. n /\ IsFiniteSet(1 .. n)
      BY <1>1, FS_Interval DEF Begins
    <3> QED
      BY <3>1, FS_Subset
  <2>2. Cardinality(Begins(q)) = many + 1 /\ many \in Nat
    BY <1>3, <2>1, FS_AddElement, FS_CardinalityType
  <2>3. Begins(q) \cap 1 .. n + 1 = Begins(q)
    <3>1. Begins(p) \subseteq 1 .. n
      BY <1>1 DEF Begins
    <3> QED
      BY <1>1, <1>3, <3>1
  <2> QED
    BY <2>2, <2>3 DEF Rank
<1>5. Segments(q)[many + 1] = w
  <2>1. n + 1 \in 1 .. Len(q) /\ q[n + 1] # "/" /\ n + 1 \in Begins(q)
    BY <1>1, <1>3
  <2>2. Ends(q, n + 1, n + m)
    <3>1. \A k \in n + 1 .. n + m : k - n \in 1 .. m /\ n + (k - n) = k
      BY <1>1
    <3>2. \A k \in n + 1 .. n + m : q[k] # "/"
      BY <1>1, <3>1
    <3> QED
      BY <1>1, <3>2 DEF Ends
  <2>3. EndOf(q, n + 1) = n + m
    BY <1>1, <2>1, <2>2, EndUnique
  <2>4. Segments(q)[Rank(q, n + 1)] = SubSeq(q, n + 1, EndOf(q, n + 1))
    BY <1>1, <2>1, Piece
  <2> QED
    BY <1>1, <1>4, <2>3, <2>4
<1>6. ASSUME NEW c \in 1 .. many PROVE Segments(q)[c] = Segments(p)[c]
  <2> DEFINE i == NthBegin(p, c)
             e == EndOf(p, i)
  <2>1. i \in Begins(p) /\ Rank(p, i) = c
    BY Nth
  <2>2. /\ Ends(p, i, e) /\ i \in 1 .. n
        /\ Segments(p)[c] = SubSeq(p, i, e)
    BY <2>1, Piece DEF n
  <2> HIDE DEF i, e
  <2>3. /\ e \in i .. n /\ (\A k \in i .. e : p[k] # "/") /\ e # n
        /\ i .. e \subseteq 1 .. n /\ e + 1 \in 1 .. n /\ p[e + 1] = "/"
    <3>1. e \in i .. n /\ (\A k \in i .. e : p[k] # "/") /\ (e = n \/ p[e + 1] = "/")
      BY <2>2 DEF Ends, n
    <3>2. p[n] = "/"
      BY DEF n
    <3>3. e # n
      BY <1>1, <2>2, <3>1, <3>2
    <3> QED
      BY <1>1, <2>2, <3>1, <3>3
  <2>4. Ends(q, i, e)
    <3>1. \A k \in i .. e : q[k] # "/"
      BY <1>1, <2>3
    <3>2. q[e + 1] = "/" /\ e \in i .. n + m
      BY <1>1, <2>2, <2>3
    <3> QED
      BY <1>1, <3>1, <3>2 DEF Ends
  <2>5. i \in Begins(q) /\ Rank(q, i) = c
    BY <1>2, <1>3, <2>1, <2>2
  <2>6. EndOf(q, i) = e
    <3>1. i \in 1 .. Len(q) /\ q[i] # "/"
      BY <1>1, <2>2, <2>3
    <3> QED
      BY <1>1, <2>4, <3>1, EndUnique
  <2>7. Segments(q)[c] = SubSeq(q, i, e)
    BY <1>1, <2>5, <2>6, Piece
  <2>8. SubSeq(q, i, e) = SubSeq(p, i, e)
    <3>1. \A k \in i .. e : q[k] = p[k]
      BY <1>1, <2>3
    <3>2. n = Len(p) /\ e \in i .. n /\ i \in 1 .. n
      BY <2>2, <2>3 DEF n
    <3>3. e <= Len(q)
      BY <1>1, <3>2
    <3> QED
      BY <1>1, <3>1, <3>2, <3>3, SameCut
  <2> QED
    BY <2>2, <2>7, <2>8
<1>7. DOMAIN Segments(p) = 1 .. many /\ Len(Segments(p)) = many
      /\ Segments(p) = [c \in 1 .. many |-> Segments(p)[c]]
  <2>1. DOMAIN Segments(p) = 1 .. many /\ Len(Segments(p)) = many
    BY Piece
  <2> QED
    BY <2>1 DEF Segments
<1>8. DOMAIN Segments(q) = 1 .. many + 1
      /\ Segments(q) = [c \in 1 .. many + 1 |-> Segments(q)[c]]
  <2>1. DOMAIN Segments(q) = 1 .. many + 1
    BY <1>1, <1>4, Piece
  <2> QED
    BY <2>1 DEF Segments
<1>9. Append(Segments(p), w)
        = [c \in 1 .. many + 1 |-> IF c = many + 1 THEN w ELSE Segments(p)[c]]
  <2> DEFINE s == Segments(p)
             V == {s[c] : c \in 1 .. many} \union {w}
  <2>1. s = [c \in 1 .. many |-> s[c]] /\ Len(s) = many /\ \A c \in 1 .. many : s[c] \in V
    BY <1>7
  <2> HIDE DEF s, many
  <2>2. s \in Seq(V) /\ w \in V
    BY <1>4, <2>1
  <2>3. Append(s, w) = [c \in 1 .. many + 1 |-> IF c = many + 1 THEN w ELSE s[c]]
    <3> HIDE DEF V
    <3> QED
      BY <1>4, <2>1, <2>2
  <2> QED
    BY <2>3 DEF s
<1>10. \A c \in 1 .. many + 1 : c # many + 1 => c \in 1 .. many
  BY <1>4
<1> HIDE DEF many
<1>11. Segments(q) = Append(Segments(p), w)
  BY <1>5, <1>6, <1>8, <1>9, <1>10
<1> QED
  BY <1>11 DEF q

\* A slash at the end makes no piece.
LEMMA SlashAdded ==
  ASSUME NEW p, Text(p)
  PROVE  Segments(Append(p, "/")) = Segments(p)
<1> DEFINE q == Append(p, "/")
           n == Len(p)
<1>1. /\ n \in Nat /\ Text(q) /\ Len(q) = n + 1 /\ q[n + 1] = "/"
      /\ DOMAIN p = 1 .. n /\ DOMAIN q = 1 .. n + 1
      /\ \A k \in 1 .. n : q[k] = p[k]
  <2>1. PICK V : p \in Seq(V)
    BY DEF Text
  <2>2. p \in Seq(V \union {"/"}) /\ q \in Seq(V \union {"/"})
    BY <2>1
  <2> QED
    BY <2>2 DEF Text
<1> HIDE DEF q, n
<1>2. /\ Begins(p) \cap 1 .. n = Begins(q) \cap 1 .. n
      /\ \A i \in 1 .. n : Rank(p, i) = Rank(q, i)
  BY <1>1, SameBegins DEF n
<1>3. Begins(q) = Begins(p)
  <2>1. Begins(p) \subseteq 1 .. n /\ Begins(q) \subseteq 1 .. n + 1 /\ n + 1 \notin Begins(q)
    BY <1>1 DEF Begins
  <2>2. Begins(q) \subseteq 1 .. n
    BY <1>1, <2>1
  <2> QED
    BY <1>2, <2>1, <2>2
<1> DEFINE many == Cardinality(Begins(p))
<1>4. ASSUME NEW c \in 1 .. many PROVE Segments(q)[c] = Segments(p)[c]
  <2> DEFINE i == NthBegin(p, c)
             e == EndOf(p, i)
  <2>1. i \in Begins(p) /\ Rank(p, i) = c
    BY Nth
  <2>2. /\ Ends(p, i, e) /\ i \in 1 .. n
        /\ Segments(p)[c] = SubSeq(p, i, e)
    BY <2>1, Piece DEF n
  <2> HIDE DEF i, e
  <2>3. /\ e \in i .. n /\ (\A k \in i .. e : p[k] # "/") /\ (e = n \/ p[e + 1] = "/")
        /\ i .. e \subseteq 1 .. n
    <3>1. e \in i .. n /\ (\A k \in i .. e : p[k] # "/") /\ (e = n \/ p[e + 1] = "/")
      BY <2>2 DEF Ends, n
    <3> QED
      BY <1>1, <2>2, <3>1
  <2>4. Ends(q, i, e)
    <3>1. \A k \in i .. e : q[k] # "/"
      BY <1>1, <2>3
    <3>2. e \in i .. n + 1 /\ e \in 1 .. n
      BY <1>1, <2>2, <2>3
    <3>3. q[e + 1] = "/"
      <4>1. e = n \/ e + 1 \in 1 .. n
        BY <1>1, <3>2
      <4> QED
        BY <1>1, <2>3, <4>1
    <3> QED
      BY <1>1, <3>1, <3>2, <3>3 DEF Ends
  <2>5. i \in Begins(q) /\ Rank(q, i) = c
    BY <1>2, <1>3, <2>1, <2>2
  <2>6. EndOf(q, i) = e
    <3>1. i \in 1 .. Len(q) /\ q[i] # "/"
      BY <1>1, <2>2, <2>3
    <3> QED
      BY <1>1, <2>4, <3>1, EndUnique
  <2>7. Segments(q)[c] = SubSeq(q, i, e)
    BY <1>1, <2>5, <2>6, Piece
  <2>8. SubSeq(q, i, e) = SubSeq(p, i, e)
    <3>1. \A k \in i .. e : q[k] = p[k]
      BY <1>1, <2>3
    <3>2. n = Len(p) /\ e \in i .. n /\ i \in 1 .. n
      BY <2>2, <2>3 DEF n
    <3>3. e <= Len(q)
      BY <1>1, <3>2
    <3> QED
      BY <1>1, <3>1, <3>2, <3>3, SameCut
  <2> QED
    BY <2>2, <2>7, <2>8
<1>5. /\ Segments(p) = [c \in 1 .. many |-> Segments(p)[c]]
      /\ Segments(q) = [c \in 1 .. many |-> Segments(q)[c]]
  <2>1. DOMAIN Segments(p) = 1 .. many /\ DOMAIN Segments(q) = 1 .. many
    BY <1>1, <1>3, Piece
  <2> QED
    BY <2>1 DEF Segments
<1>6. Segments(q) = Segments(p)
  BY <1>4, <1>5
<1> QED
  BY <1>6 DEF q

\* Texts of one length with the same characters.
LEMMA SameText ==
  ASSUME NEW p, Text(p), NEW q, Text(q), Len(p) = Len(q), \A k \in 1 .. Len(p) : p[k] = q[k]
  PROVE  p = q
<1>1. PICK V : p \in Seq(V)
  BY DEF Text
<1>2. PICK W : q \in Seq(W)
  BY DEF Text
<1> DEFINE X == V \union W
<1>3. p \in Seq(X) /\ q \in Seq(X)
  BY <1>1, <1>2
<1> HIDE DEF X
<1> QED
  BY <1>3

\* One text after another, and one with a character more.
LEMMA Joins ==
  ASSUME NEW p, Text(p), NEW q, Text(q)
  PROVE  /\ Len(p) \in Nat /\ Len(q) \in Nat /\ DOMAIN p = 1 .. Len(p)
         /\ Text(p \o q) /\ Len(p \o q) = Len(p) + Len(q)
         /\ DOMAIN (p \o q) = 1 .. Len(p) + Len(q)
         /\ \A k \in 1 .. Len(p) : (p \o q)[k] = p[k]
         /\ \A k \in 1 .. Len(q) : (p \o q)[Len(p) + k] = q[k]
         /\ \A c : /\ Text(Append(p, c)) /\ Len(Append(p, c)) = Len(p) + 1
                   /\ DOMAIN Append(p, c) = 1 .. Len(p) + 1
                   /\ \A k \in 1 .. Len(p) : Append(p, c)[k] = p[k]
                   /\ Append(p, c)[Len(p) + 1] = c
<1>1. PICK V : p \in Seq(V)
  BY DEF Text
<1>2. PICK W : q \in Seq(W)
  BY DEF Text
<1> DEFINE X == V \union W
<1>3. p \in Seq(X) /\ q \in Seq(X)
  BY <1>1, <1>2
<1> HIDE DEF X
<1>4. p \o q \in Seq(X)
  BY <1>3
<1>5. ASSUME NEW c
      PROVE  /\ Text(Append(p, c)) /\ Len(Append(p, c)) = Len(p) + 1
             /\ DOMAIN Append(p, c) = 1 .. Len(p) + 1
             /\ \A k \in 1 .. Len(p) : Append(p, c)[k] = p[k]
             /\ Append(p, c)[Len(p) + 1] = c
  <2> DEFINE Y == X \union {c}
  <2>1. p \in Seq(Y) /\ c \in Y
    BY <1>3
  <2> HIDE DEF Y
  <2>2. Append(p, c) \in Seq(Y)
    BY <2>1
  <2> QED
    BY <2>1, <2>2 DEF Text
<1>6. /\ Len(p) \in Nat /\ Len(q) \in Nat /\ DOMAIN p = 1 .. Len(p)
      /\ Text(p \o q) /\ Len(p \o q) = Len(p) + Len(q)
      /\ DOMAIN (p \o q) = 1 .. Len(p) + Len(q)
      /\ \A k \in 1 .. Len(p) : (p \o q)[k] = p[k]
      /\ \A k \in 1 .. Len(q) : (p \o q)[Len(p) + k] = q[k]
  BY <1>3, <1>4 DEF Text
<1> QED
  BY <1>5, <1>6

\* What percent decoding makes of one character, and of a text character by
\* character.
Plain(char) == IF char \in DOMAIN Escapes THEN Escapes[char] ELSE char

LEMMA Decodes ==
  ASSUME NEW p, Text(p)
  PROVE  /\ Text(Decode(p)) /\ Len(Decode(p)) = Len(p) /\ DOMAIN Decode(p) = 1 .. Len(p)
         /\ Len(p) \in Nat
         /\ \A k \in 1 .. Len(p) : Decode(p)[k] = Plain(p[k])
<1>1. PICK V : p \in Seq(V)
  BY DEF Text
<1> DEFINE d == Decode(p)
           W == {Plain(c) : c \in V}
<1>2. Len(p) \in Nat /\ DOMAIN p = 1 .. Len(p) /\ \A k \in 1 .. Len(p) : p[k] \in V
  BY <1>1
<1>3. d = [k \in 1 .. Len(p) |-> Plain(p[k])]
  BY <1>2 DEF Decode, Plain
<1>4. \A k \in 1 .. Len(p) : Plain(p[k]) \in W
  BY <1>2
<1> HIDE DEF d, W
<1>5. d \in Seq(W) /\ Len(d) = Len(p)
  BY <1>2, <1>3, <1>4
<1> QED
  BY <1>2, <1>3, <1>5 DEF d, Text

LEMMA DecodesJoined ==
  ASSUME NEW p, Text(p), NEW q, Text(q)
  PROVE  /\ Decode(p \o q) = Decode(p) \o Decode(q)
         /\ \A c : Decode(Append(p, c)) = Append(Decode(p), Plain(c))
<1> DEFINE a == Decode(p \o q)
           b == Decode(p) \o Decode(q)
           n == Len(p)
           m == Len(q)
<1>1. /\ n \in Nat /\ m \in Nat /\ Text(a) /\ Len(a) = n + m
      /\ \A k \in 1 .. n : a[k] = Plain(p[k])
      /\ \A k \in 1 .. m : a[n + k] = Plain(q[k])
  <2>1. /\ n \in Nat /\ m \in Nat /\ Text(p \o q) /\ Len(p \o q) = n + m
        /\ \A k \in 1 .. n : (p \o q)[k] = p[k]
        /\ \A k \in 1 .. m : (p \o q)[n + k] = q[k]
    BY Joins
  <2>2. Text(a) /\ Len(a) = n + m /\ \A k \in 1 .. n + m : a[k] = Plain((p \o q)[k])
    BY <2>1, Decodes
  <2>3. (\A k \in 1 .. n : k \in 1 .. n + m) /\ (\A k \in 1 .. m : n + k \in 1 .. n + m)
    BY <2>1
  <2> HIDE DEF a, n, m
  <2> QED
    BY <2>1, <2>2, <2>3
<1>2. /\ Text(b) /\ Len(b) = n + m
      /\ \A k \in 1 .. n : b[k] = Plain(p[k])
      /\ \A k \in 1 .. m : b[n + k] = Plain(q[k])
  <2>1. /\ Text(Decode(p)) /\ Len(Decode(p)) = n /\ Text(Decode(q)) /\ Len(Decode(q)) = m
        /\ \A k \in 1 .. n : Decode(p)[k] = Plain(p[k])
        /\ \A k \in 1 .. m : Decode(q)[k] = Plain(q[k])
    BY Decodes
  <2>2. /\ Text(b) /\ Len(b) = n + m
        /\ \A k \in 1 .. n : b[k] = Decode(p)[k]
        /\ \A k \in 1 .. m : b[n + k] = Decode(q)[k]
    <3> DEFINE x == Decode(p)
               y == Decode(q)
    <3>1. Text(x) /\ Text(y) /\ Len(x) = n /\ Len(y) = m
      BY <2>1
    <3> HIDE DEF x, y, n, m
    <3>2. Text(x \o y) /\ Len(x \o y) = Len(x) + Len(y)
      BY <3>1, Joins
    <3>3. \A k \in 1 .. Len(x) : (x \o y)[k] = x[k]
      BY <3>1, Joins
    <3>4. \A k \in 1 .. Len(y) : (x \o y)[Len(x) + k] = y[k]
      <4>1. PICK V : x \in Seq(V)
        BY <3>1 DEF Text
      <4>2. PICK W : y \in Seq(W)
        BY <3>1 DEF Text
      <4>3. x \in Seq(V \union W) /\ y \in Seq(V \union W)
        BY <4>1, <4>2
      <4> QED
        BY <4>3
    <3> QED
      BY <3>1, <3>2, <3>3, <3>4 DEF b, x, y
  <2> HIDE DEF b, n, m
  <2> QED
    BY <2>1, <2>2
<1>3. \A k \in 1 .. n + m : k \in 1 .. n \/ (k - n \in 1 .. m /\ n + (k - n) = k)
  BY <1>1
<1>4. a = b
  <2> HIDE DEF a, b, n, m
  <2>1. \A k \in 1 .. n + m : a[k] = b[k]
    BY <1>1, <1>2, <1>3
  <2> QED
    BY <1>1, <1>2, <2>1, SameText
<1>5. ASSUME NEW c PROVE Decode(Append(p, c)) = Append(Decode(p), Plain(c))
  <2> DEFINE f == Decode(Append(p, c))
             g == Append(Decode(p), Plain(c))
  <2>1. /\ n \in Nat /\ Text(Append(p, c)) /\ Len(Append(p, c)) = n + 1
        /\ \A k \in 1 .. n : Append(p, c)[k] = p[k]
        /\ Append(p, c)[n + 1] = c
    BY Joins
  <2>2. Text(f) /\ Len(f) = n + 1 /\ \A k \in 1 .. n + 1 : f[k] = Plain(Append(p, c)[k])
    BY <2>1, Decodes
  <2>3. /\ Text(Decode(p)) /\ Len(Decode(p)) = n
        /\ \A k \in 1 .. n : Decode(p)[k] = Plain(p[k])
    BY Decodes
  <2>4. /\ Text(g) /\ Len(g) = n + 1
        /\ \A k \in 1 .. n : g[k] = Decode(p)[k]
        /\ g[n + 1] = Plain(c)
    <3> DEFINE x == Decode(p)
    <3>1. Text(x) /\ Len(x) = n
      BY <2>3
    <3> HIDE DEF x, n
    <3>2. Text(Append(x, Plain(c))) /\ Len(Append(x, Plain(c))) = Len(x) + 1
      BY <3>1, Joins
    <3>3. \A k \in 1 .. Len(x) : Append(x, Plain(c))[k] = x[k]
      BY <3>1, Joins
    <3>4. Append(x, Plain(c))[Len(x) + 1] = Plain(c)
      BY <3>1, Joins
    <3> QED
      BY <3>1, <3>2, <3>3, <3>4 DEF g, x
  <2>5. \A k \in 1 .. n + 1 : k \in 1 .. n \/ k = n + 1
    BY <2>1
  <2> HIDE DEF f, g, n
  <2>6. \A k \in 1 .. n + 1 : f[k] = g[k]
    BY <2>1, <2>2, <2>3, <2>4, <2>5
  <2>7. f = g
    BY <2>2, <2>4, <2>6, SameText
  <2> QED
    BY <2>7 DEF f, g
<1> QED
  BY <1>4, <1>5

\* The names of files survive encoding and decoding, and an encoded name has no
\* character with a meaning of its own in a link.
LEMMA EncodedName ==
  ASSUME NEW name, IsFileName(name)
  PROVE  LET encoded == UrlEncodePath(name)
         IN /\ Text(name) /\ Text(encoded) /\ Len(encoded) = Len(name) /\ Len(name) \in Nat \ {0}
            /\ DOMAIN name = 1 .. Len(name) /\ DOMAIN encoded = 1 .. Len(name)
            /\ Decode(encoded) = name
            /\ \A k \in 1 .. Len(name) :
                 name[k] # "/" /\ encoded[k] # "/" /\ encoded[k] # "#"
                   /\ (encoded[k] = "." => name[k] = ".")
<1> DEFINE Code(c) == IF c \in {"n", ".", "/"} THEN c
                      ELSE CHOOSE e \in DOMAIN Escapes : Escapes[e] = c
           encoded == UrlEncodePath(name)
           n == Len(name)
           W == {Code(c) : c \in Characters}
<1>1. /\ name \in Seq(Characters \ {"/"}) /\ name # <<>>
  BY DEF IsFileName
<1>2. n \in Nat \ {0} /\ DOMAIN name = 1 .. n /\ \A k \in 1 .. n : name[k] \in Characters \ {"/"}
  BY <1>1
<1>3. encoded = [k \in 1 .. n |-> Code(name[k])]
  BY <1>2, Zenon DEF UrlEncodePath
<1>4. \A k \in 1 .. n : Code(name[k]) \in W
  BY <1>2
<1>5. ASSUME NEW c \in Characters \ {"/"}
      PROVE  /\ Plain(Code(c)) = c
             /\ Code(c) # "/" /\ Code(c) # "#" /\ (Code(c) = "." => c = ".")
  <2>1. c \in {".", "%", "#", "c", "n"}
    BY DEF Characters
  <2>2. DOMAIN Escapes = {"%2F", "%2E", "%25", "%23", "%0A"}
    BY DEF Escapes
  <2>3. CASE c \in {".", "n"}
    <3>1. Code(c) = c
      BY <2>3
    <3>2. c \notin DOMAIN Escapes
      BY <2>2, <2>3
    <3> HIDE DEF Code
    <3> QED
      BY <2>3, <3>1, <3>2 DEF Plain
  <2>4. CASE c \in {"%", "#", "c"}
    <3>1. \E e \in DOMAIN Escapes : Escapes[e] = c
      <4>1. Escapes["%25"] = "%" /\ Escapes["%23"] = "#" /\ Escapes["%0A"] = "c"
        BY DEF Escapes
      <4> QED
        BY <2>2, <2>4, <4>1
    <3>2. Code(c) = CHOOSE e \in DOMAIN Escapes : Escapes[e] = c
      BY <2>4
    <3>3. Code(c) \in DOMAIN Escapes /\ Escapes[Code(c)] = c
      BY <3>1, <3>2
    <3> HIDE DEF Code
    <3> QED
      BY <2>2, <3>3 DEF Plain
  <2> QED
    BY <2>1, <2>3, <2>4
<1> HIDE DEF Code, encoded, W
<1>6. encoded \in Seq(W) /\ Len(encoded) = n /\ DOMAIN encoded = 1 .. n
  BY <1>2, <1>3, <1>4
<1>7. Text(name) /\ Text(encoded)
  BY <1>1, <1>6 DEF Text
<1>8. Decode(encoded) = name
  <2>1. /\ Text(Decode(encoded)) /\ Len(Decode(encoded)) = n
        /\ \A k \in 1 .. n : Decode(encoded)[k] = Plain(encoded[k])
    BY <1>6, <1>7, Decodes
  <2>2. \A k \in 1 .. n : Decode(encoded)[k] = name[k]
    BY <1>2, <1>3, <1>5, <2>1
  <2> QED
    BY <1>7, <2>1, <2>2, SameText
<1>9. \A k \in 1 .. n : name[k] # "/" /\ encoded[k] # "/" /\ encoded[k] # "#"
                          /\ (encoded[k] = "." => name[k] = ".")
  BY <1>2, <1>3, <1>5
<1> QED
  BY <1>2, <1>6, <1>7, <1>8, <1>9 DEF encoded

\* The link of an entry: to a directory with a slash behind it.
Links(before, name) ==
  {before \o UrlEncodePath(name), Append(before \o UrlEncodePath(name), "/")}

\* The link to `name` from the page `base`, with a slash after it or not: the
\* client comes to that name in the directory of the page, or nowhere.
LEMMA NameEntered ==
  ASSUME NEW base, Text(base), base # <<>>, base[Len(base)] = "/",
         NEW name, IsFileName(name),
         NEW link \in Links(base, name)
  PROVE  /\ Text(link)
         /\ Walk(Segments(Decode(link))) = Enter(Walk(Segments(Decode(base))), name)
         /\ "c" \in ToSet(Decode(link)) <=> "c" \in ToSet(Decode(base)) \/ "c" \in ToSet(name)
<1> DEFINE encoded == UrlEncodePath(name)
           whole == base \o encoded
           text == Decode(base)
           n == Len(base)
           m == Len(name)
<1>1. /\ Text(name) /\ Text(encoded) /\ Len(encoded) = m /\ m \in Nat \ {0}
      /\ DOMAIN name = 1 .. m
      /\ Decode(encoded) = name
      /\ \A k \in 1 .. m : name[k] # "/"
  BY EncodedName
<1>2. /\ Text(text) /\ Len(text) = n /\ DOMAIN text = 1 .. n /\ n \in Nat \ {0}
      /\ text # <<>> /\ text[Len(text)] = "/"
  <2>1. /\ Text(text) /\ Len(text) = n /\ DOMAIN text = 1 .. n /\ n \in Nat
        /\ \A k \in 1 .. n : text[k] = Plain(base[k])
    BY Decodes
  <2>2. n # 0
    BY DEF Text
  <2>3. Plain("/") = "/"
    BY DEF Plain, Escapes
  <2> QED
    BY <2>1, <2>2, <2>3
<1>3. Text(whole) /\ Decode(whole) = text \o name
  <2> HIDE DEF encoded
  <2>1. Text(whole)
    BY <1>1, Joins
  <2>2. Decode(whole) = Decode(base) \o Decode(encoded)
    BY <1>1, DecodesJoined
  <2> QED
    BY <1>1, <2>1, <2>2
<1> HIDE DEF encoded, whole, text, n, m
<1>4. Segments(text \o name) = Append(Segments(text), name)
  <2>1. name # <<>>
    BY DEF IsFileName
  <2> QED
    BY <1>1, <1>2, <2>1, NameAdded
<1>5. /\ Text(text \o name) /\ Len(text \o name) = n + m /\ DOMAIN (text \o name) = 1 .. n + m
      /\ \A k \in 1 .. n : (text \o name)[k] = text[k]
      /\ \A k \in 1 .. m : (text \o name)[n + k] = name[k]
  <2>1. Text(text \o name) /\ DOMAIN (text \o name) = 1 .. Len(text) + Len(name)
    BY <1>1, <1>2, Joins
  <2>2. PICK V : text \in Seq(V)
    BY <1>2 DEF Text
  <2>3. PICK W : name \in Seq(W)
    BY <1>1 DEF Text
  <2>4. text \in Seq(V \union W) /\ name \in Seq(V \union W)
    BY <2>2, <2>3
  <2>5. Len(text) = n /\ Len(name) = m
    BY <1>2 DEF m
  <2>6. \A k \in 1 .. Len(text) : (text \o name)[k] = text[k]
    BY <2>4
  <2>7. \A k \in 1 .. Len(name) : (text \o name)[Len(text) + k] = name[k]
    BY <2>4
  <2>8. Len(text \o name) = Len(text) + Len(name)
    BY <2>4
  <2> QED
    BY <2>1, <2>5, <2>6, <2>7, <2>8
<1>6. "c" \in ToSet(text \o name) <=> "c" \in ToSet(text) \/ "c" \in ToSet(name)
  <2> DEFINE all == text \o name
  <2>1. /\ DOMAIN all = 1 .. n + m /\ (\A k \in 1 .. n : all[k] = text[k])
        /\ \A k \in 1 .. m : all[n + k] = name[k]
    BY <1>5
  <2> HIDE DEF all
  <2>2. \A k \in 1 .. n + m : k \in 1 .. n \/ (k - n \in 1 .. m /\ n + (k - n) = k)
    BY <1>1, <1>2
  <2>3. (\A k \in 1 .. n : k \in 1 .. n + m) /\ (\A k \in 1 .. m : n + k \in 1 .. n + m)
    BY <1>1, <1>2
  <2>4. "c" \in ToSet(all) => "c" \in ToSet(text) \/ "c" \in ToSet(name)
    <3> SUFFICES ASSUME NEW k \in 1 .. n + m, all[k] = "c"
                 PROVE  "c" \in ToSet(text) \/ "c" \in ToSet(name)
      BY <2>1 DEF ToSet
    <3>1. CASE k \in 1 .. n
      BY <1>2, <2>1, <3>1 DEF ToSet
    <3>2. CASE k - n \in 1 .. m /\ n + (k - n) = k
      <4>1. name[k - n] = "c"
        BY <2>1, <3>2
      <4> QED
        BY <1>1, <3>2, <4>1 DEF ToSet
    <3> QED
      BY <2>2, <3>1, <3>2
  <2>5. "c" \in ToSet(text) \/ "c" \in ToSet(name) => "c" \in ToSet(all)
    <3>1. ASSUME NEW k \in 1 .. n, text[k] = "c" PROVE "c" \in ToSet(all)
      BY <2>1, <2>3, <3>1 DEF ToSet
    <3>2. ASSUME NEW k \in 1 .. m, name[k] = "c" PROVE "c" \in ToSet(all)
      <4>1. n + k \in DOMAIN all /\ all[n + k] = "c"
        BY <2>1, <2>3, <3>2
      <4> QED
        BY <4>1 DEF ToSet
    <3>3. /\ "c" \in ToSet(text) => \E k \in 1 .. n : text[k] = "c"
          /\ "c" \in ToSet(name) => \E k \in 1 .. m : name[k] = "c"
      BY <1>1, <1>2 DEF ToSet
    <3> QED
      BY <3>1, <3>2, <3>3
  <2> QED
    BY <2>4, <2>5 DEF all
<1>7. Walk(Append(Segments(text), name)) = Enter(Walk(Segments(text)), name)
  <2>1. PICK V : Segments(text) \in Seq(V)
    BY SegmentsOf DEF text
  <2> DEFINE X == V \union {name}
             s == Segments(text)
  <2>2. s \in Seq(X) /\ name \in X
    BY <2>1
  <2> HIDE DEF X, s
  <2> QED
    BY <2>2, WalkAppend DEF s
<1>8. CASE link = whole
  BY <1>3, <1>4, <1>6, <1>7, <1>8 DEF text
<1>9. CASE link = Append(whole, "/")
  <2>1. Text(link)
    BY <1>1, <1>3, <1>9, Joins
  <2>2. Decode(link) = Append(text \o name, "/")
    <3>1. Decode(Append(whole, "/")) = Append(Decode(whole), Plain("/"))
      BY <1>1, <1>3, DecodesJoined
    <3>2. Plain("/") = "/"
      BY DEF Plain, Escapes
    <3> QED
      BY <1>3, <1>9, <3>1, <3>2
  <2>3. Segments(Decode(link)) = Segments(text \o name)
    BY <1>5, <2>2, SlashAdded
  <2>4. "c" \in ToSet(Append(text \o name, "/")) <=> "c" \in ToSet(text \o name)
    <3> DEFINE all == text \o name
    <3>1. Text(all) /\ Len(all) = n + m /\ DOMAIN all = 1 .. n + m /\ n + m \in Nat
      BY <1>1, <1>2, <1>5
    <3> HIDE DEF all
    <3>2. /\ DOMAIN Append(all, "/") = 1 .. Len(all) + 1
          /\ \A k \in 1 .. Len(all) : Append(all, "/")[k] = all[k]
          /\ Append(all, "/")[Len(all) + 1] = "/"
      BY <3>1, Joins
    <3>3. \A k \in 1 .. n + m + 1 : k \in 1 .. n + m \/ k = n + m + 1
      BY <1>1, <1>2
    <3>4. \A k \in 1 .. n + m : k \in 1 .. n + m + 1
      BY <1>1, <1>2
    <3> QED
      BY <3>1, <3>2, <3>3, <3>4 DEF ToSet, all
  <2> QED
    BY <1>4, <1>6, <1>7, <2>1, <2>2, <2>3, <2>4 DEF text
<1> QED
  BY <1>8, <1>9 DEF Links, whole, encoded

\* ... and it is that name if and only if the page is that directory.
LEMMA LinkNormalized ==
  ASSUME NEW base, Text(base), base # <<>>, base[Len(base)] = "/",
         NEW name, IsFileName(name), ~Hidden(name),
         NEW link \in Links(base, name),
         NEW names, Text(names)
  PROVE  Normalize(link) = [ok |-> TRUE, names |-> Append(names, name)] <=>
           "c" \notin ToSet(name) /\ Normalize(base) = [ok |-> TRUE, names |-> names]
<1> DEFINE at == Walk(Segments(Decode(base)))
           then == Walk(Segments(Decode(link)))
           c == "c" \in ToSet(Decode(base))
           d == "c" \in ToSet(Decode(link))
           good == [ok |-> TRUE, names |-> Append(names, name)]
<1>1. then = Enter(at, name) /\ (d <=> c \/ "c" \in ToSet(name))
  BY NameEntered
<1>2. Normalize(link) = IF d \/ \E i \in DOMAIN then.names : Hidden(then.names[i])
                        THEN Refused ELSE then
  BY DEF Normalize
<1>3. Normalize(base) = IF c \/ \E i \in DOMAIN at.names : Hidden(at.names[i])
                        THEN Refused ELSE at
  BY DEF Normalize
<1>4. at = Refused \/ \E V : at \in [ok : {TRUE}, names : Seq(V)]
  <2>1. PICK V : Segments(Decode(base)) \in Seq(V)
    BY SegmentsOf
  <2> DEFINE s == Segments(Decode(base))
  <2> HIDE DEF s
  <2>2. StandsAt(V, s, Walk(s), Len(s))
    BY <2>1, WalkStands DEF s
  <2> QED
    BY <2>2 DEF StandsAt, s
<1> HIDE DEF at, then, c, d, good
<1>5. good.ok = TRUE /\ Refused # good /\ Refused # [ok |-> TRUE, names |-> names]
  BY DEF good, Refused
<1>6. CASE at = Refused
  <2>1. then = Refused
    BY <1>1, <1>6 DEF Enter, Refused
  <2> QED
    BY <1>2, <1>3, <1>5, <1>6, <2>1 DEF good
<1>7. CASE \E V : at \in [ok : {TRUE}, names : Seq(V)]
  <2>1. PICK V : at \in [ok : {TRUE}, names : Seq(V)]
    BY <1>7
  <2>2. PICK W : names \in Seq(W)
    BY DEF Text
  <2> DEFINE X == V \union W \union {name}
             a == at.names
  <2>3. at = [ok |-> TRUE, names |-> a] /\ a \in Seq(X) /\ names \in Seq(X) /\ name \in X
    <3>1. at = [ok |-> TRUE, names |-> a] /\ a \in Seq(V)
      BY <2>1
    <3> HIDE DEF a
    <3>2. a \in Seq(X) /\ names \in Seq(X) /\ name \in X
      BY <2>2, <3>1
    <3> QED
      BY <3>1, <3>2
  <2> HIDE DEF X, a
  <2>4. name # Here /\ name # Up
    BY DEF Hidden, Here, Up
  <2>5. then = [ok |-> TRUE, names |-> Append(a, name)]
    BY <1>1, <2>3, <2>4 DEF Enter
  <2> DEFINE n == Len(a)
             b == Append(a, name)
  <2>6. /\ n \in Nat /\ DOMAIN a = 1 .. n /\ DOMAIN b = 1 .. n + 1
        /\ (\A i \in 1 .. n : b[i] = a[i]) /\ b[n + 1] = name
    BY <2>3
  <2>7. b = Append(names, name) <=> a = names
    <3>1. b = Append(names, name) => a = names
      <4> SUFFICES ASSUME b = Append(names, name) PROVE a = names
        OBVIOUS
      <4>1. Len(a) = Len(names)
        BY <2>3
      <4>2. \A i \in 1 .. Len(names) : Append(names, name)[i] = names[i]
        BY <2>3
      <4>3. \A i \in 1 .. Len(a) : a[i] = names[i]
        BY <2>6, <4>1, <4>2
      <4> QED
        BY <2>3, <4>1, <4>3
    <3> QED
      BY <3>1
  <2> HIDE DEF n, b
  <2>8. (\E i \in DOMAIN b : Hidden(b[i])) <=> \E i \in DOMAIN a : Hidden(a[i])
    <3>1. \A i \in 1 .. n + 1 : i \in 1 .. n \/ i = n + 1
      BY <2>6
    <3>2. \A i \in 1 .. n : i \in 1 .. n + 1
      BY <2>6
    <3>3. ASSUME NEW i \in DOMAIN b, Hidden(b[i]) PROVE \E k \in DOMAIN a : Hidden(a[k])
      <4>1. i # n + 1
        BY <2>6, <3>3
      <4>2. i \in DOMAIN a /\ b[i] = a[i]
        BY <2>6, <3>1, <4>1
      <4> QED
        BY <3>3, <4>2
    <3>4. ASSUME NEW i \in DOMAIN a, Hidden(a[i]) PROVE \E k \in DOMAIN b : Hidden(b[k])
      <4>1. i \in DOMAIN b /\ b[i] = a[i]
        BY <2>6, <3>2
      <4> QED
        BY <3>4, <4>1
    <3> QED
      BY <3>3, <3>4
  <2>9. Normalize(link) = IF d \/ (\E i \in DOMAIN b : Hidden(b[i]))
                          THEN Refused ELSE [ok |-> TRUE, names |-> b]
    <3>1. then.names = b
      BY <2>5 DEF b
    <3> QED
      BY <1>2, <2>5, <3>1 DEF b
  <2>10. Normalize(base) = IF c \/ (\E i \in DOMAIN a : Hidden(a[i]))
                           THEN Refused ELSE [ok |-> TRUE, names |-> a]
    <3>1. at.names = a
      BY DEF a
    <3> QED
      BY <1>3, <2>3, <3>1
  <2>11. [ok |-> TRUE, names |-> b] = good <=> b = Append(names, name)
    BY DEF good
  <2>12. [ok |-> TRUE, names |-> a] = [ok |-> TRUE, names |-> names] <=> a = names
    OBVIOUS
  <2>13. Normalize(link) = good <=>
           ~d /\ ~(\E i \in DOMAIN b : Hidden(b[i])) /\ b = Append(names, name)
    BY <1>5, <2>9, <2>11
  <2>14. Normalize(base) = [ok |-> TRUE, names |-> names] <=>
           ~c /\ ~(\E i \in DOMAIN a : Hidden(a[i])) /\ a = names
    BY <1>5, <2>10, <2>12
  <2> QED
    BY <1>1, <2>7, <2>8, <2>13, <2>14 DEF good
<1> QED
  BY <1>4, <1>6, <1>7

\* The last slash of a path, and what is left of the path up to it.
LEMMA UpTo ==
  ASSUME NEW p, Text(p), NEW l \in 1 .. Len(p), p[l] = "/",
         \A k \in l + 1 .. Len(p) : p[k] # "/"
  PROVE  UpToLastSlash(p) = SubSeq(p, 1, l)
<1> DEFINE I == {i \in 1 .. Len(p) : p[i] = "/"}
<1>1. Len(p) \in Nat /\ l \in I
  BY DEF Text
<1>2. \A i \in I : i <= l
  BY <1>1
<1>3. Max(I) = l
  <2>1. Max(I) \in I /\ \A i \in I : Max(I) >= i
    <3>1. l \in I /\ \A i \in I : l >= i
      BY <1>1, <1>2
    <3> HIDE DEF I
    <3> QED
      BY <3>1 DEF Max
  <2> HIDE DEF Max
  <2> QED
    BY <1>1, <1>2, <2>1
<1>4. SelectLastInSeq(p, LAMBDA char : char = "/") = IF I # {} THEN Max(I) ELSE 0
  BY DEF SelectLastInSeq
<1> HIDE DEF I
<1> QED
  BY <1>1, <1>3, <1>4 DEF UpToLastSlash

LEMMA HasLastSlash ==
  ASSUME NEW p, Text(p), p # <<>>, p[1] = "/"
  PROVE  \E l \in 1 .. Len(p) : p[l] = "/" /\ \A k \in l + 1 .. Len(p) : p[k] # "/"
<1> DEFINE Held(n) == \E l \in 1 .. n : p[l] = "/" /\ \A k \in l + 1 .. n : p[k] # "/"
           T == {n \in Nat : Held(n + 1)}
<1>1. 0 \in T
  <2>1. Held(1)
    OBVIOUS
  <2> QED
    BY <2>1
<1>2. ASSUME NEW n \in T PROVE n + 1 \in T
  <2>1. n \in Nat /\ Held(n + 1)
    OBVIOUS
  <2>2. PICK l \in 1 .. n + 1 : p[l] = "/" /\ \A k \in l + 1 .. n + 1 : p[k] # "/"
    BY <2>1
  <2>3. CASE p[n + 2] = "/"
    <3>1. n + 2 \in 1 .. n + 2 /\ \A k \in (n + 2) + 1 .. n + 2 : p[k] # "/"
      BY <2>1
    <3>2. Held(n + 2)
      BY <2>3, <3>1
    <3> QED
      BY <2>1, <3>2
  <2>4. CASE p[n + 2] # "/"
    <3>1. l \in 1 .. n + 2 /\ \A k \in l + 1 .. n + 2 : k \in l + 1 .. n + 1 \/ k = n + 2
      BY <2>1
    <3>2. Held(n + 2)
      BY <2>2, <2>4, <3>1
    <3> QED
      BY <2>1, <3>2
  <2> QED
    BY <2>3, <2>4
<1>3. T = Nat
  <2>1. T \in SUBSET Nat
    OBVIOUS
  <2> HIDE DEF T
  <2> QED
    BY <1>1, <1>2, <2>1, NatSetInduction
<1>4. Len(p) - 1 \in Nat /\ (Len(p) - 1) + 1 = Len(p)
  BY DEF Text
<1>5. Len(p) - 1 \in T
  BY <1>3, <1>4
<1> QED
  BY <1>4, <1>5

\* A link without "#" is asked for as it stands.
LEMMA NothingCut ==
  ASSUME NEW ref, \A i \in 1 .. Len(ref) : ref[i] # "#"
  PROVE  WithoutFragment(ref) = ref
<1>1. {i \in 1 .. Len(ref) : ref[i] = "#"} = {}
  OBVIOUS
<1>2. SelectInSeq(ref, LAMBDA char : char = "#") = 0
  BY <1>1 DEF SelectInSeq
<1> QED
  BY <1>2 DEF WithoutFragment

LEMMA LeavesWhen ==
  ASSUME NEW ref, Text(ref)
  PROVE  LeavesHost(ref) <=> Len(ref) >= 2 /\ ref[1] = "/" /\ ref[2] = "/"
<1>1. PICK V : ref \in Seq(V)
  BY DEF Text
<1> DEFINE X == V \union {"/"}
           two == <<"/", "/">>
<1>2. ref \in Seq(X) /\ two \in Seq(X) /\ Len(two) = 2 /\ two[1] = "/" /\ two[2] = "/"
  BY <1>1
<1> HIDE DEF X, two
<1>3. SubSeq(two, 1, 2) = two
  BY <1>2
<1>4. Len(ref) >= 2 => (SubSeq(ref, 1, 2) = two <=> ref[1] = "/" /\ ref[2] = "/")
  <2> SUFFICES ASSUME Len(ref) >= 2
               PROVE  SubSeq(ref, 1, 2) = two <=> ref[1] = "/" /\ ref[2] = "/"
    OBVIOUS
  <2> DEFINE r == SubSeq(ref, 1, 2)
  <2>1. r \in Seq(X) /\ Len(r) = 2 /\ r[1] = ref[1] /\ r[2] = ref[2]
    BY <1>2
  <2> HIDE DEF r
  <2>2. \A k \in 1 .. 2 : k = 1 \/ k = 2
    OBVIOUS
  <2>3. r[1] = "/" /\ r[2] = "/" => r = two
    BY <1>2, <2>1, <2>2
  <2> QED
    BY <1>2, <2>1, <2>3 DEF r
<1>5. LeavesHost(ref) <=> Len(two) <= Len(ref) /\ SubSeq(two, 1, Len(two)) = SubSeq(ref, 1, Len(two))
  BY DEF LeavesHost, IsPrefix, two
<1> QED
  BY <1>2, <1>3, <1>4, <1>5

\* The characters of a link after `before`.
LEMMA LinkChars ==
  ASSUME NEW before, Text(before), \A k \in 1 .. Len(before) : before[k] # "#",
         NEW name, IsFileName(name),
         NEW link \in Links(before, name)
  PROVE  /\ Text(link) /\ Len(before) \in Nat /\ Len(link) \in Nat
         /\ Len(before) + 1 <= Len(link) /\ WithoutFragment(link) = link
         /\ \A k \in 1 .. Len(before) : link[k] = before[k]
         /\ link[Len(before) + 1] # "/"
         /\ link[Len(before) + 1] = "." => Hidden(name)
<1> DEFINE encoded == UrlEncodePath(name)
           whole == before \o encoded
           n == Len(before)
           m == Len(name)
<1>1. /\ Text(encoded) /\ Len(encoded) = m /\ m \in Nat \ {0}
      /\ \A k \in 1 .. m : encoded[k] # "/" /\ encoded[k] # "#" /\ (encoded[k] = "." => name[k] = ".")
  BY EncodedName
<1> HIDE DEF encoded
<1>2. PICK V : before \in Seq(V)
  BY DEF Text
<1>3. PICK W : encoded \in Seq(W)
  BY <1>1 DEF Text
<1> DEFINE X == V \union W \union {"/"}
<1>4. before \in Seq(X) /\ encoded \in Seq(X) /\ "/" \in X
  BY <1>2, <1>3
<1> HIDE DEF X
<1>5. /\ n \in Nat /\ whole \in Seq(X) /\ Len(whole) = n + m
      /\ (\A k \in 1 .. n : whole[k] = before[k])
      /\ \A k \in 1 .. m : whole[n + k] = encoded[k]
  <2>1. whole \in Seq(X) /\ n \in Nat /\ Len(whole) = n + Len(encoded)
    BY <1>4
  <2>2. \A k \in 1 .. n : whole[k] = before[k]
    BY <1>4
  <2>3. \A k \in 1 .. Len(encoded) : whole[n + k] = encoded[k]
    BY <1>4
  <2> QED
    BY <1>1, <2>1, <2>2, <2>3
<1> HIDE DEF whole, n, m
<1>6. \A k \in 1 .. n + m : whole[k] # "#"
  <2> TAKE k \in 1 .. n + m
  <2>1. CASE k \in 1 .. n
    BY <1>5, <2>1 DEF n
  <2>2. CASE k \notin 1 .. n
    <3>1. k - n \in 1 .. m /\ n + (k - n) = k
      BY <1>1, <1>5, <2>2
    <3> QED
      BY <1>1, <1>5, <3>1
  <2> QED
    BY <2>1, <2>2
<1>7. whole[n + 1] # "/" /\ (whole[n + 1] = "." => Hidden(name))
  <2>1. 1 \in 1 .. m
    BY <1>1
  <2> QED
    BY <1>1, <1>5, <2>1 DEF Hidden
<1>8. /\ link \in Seq(X) /\ Len(link) >= n + m /\ Len(link) \in Nat
      /\ (\A k \in 1 .. n + m : link[k] = whole[k])
      /\ \A k \in 1 .. Len(link) : link[k] # "#"
  <2>1. CASE link = whole
    BY <1>1, <1>5, <1>6, <2>1
  <2>2. CASE link = Append(whole, "/")
    <3>1. link \in Seq(X) /\ Len(link) = n + m + 1
      BY <1>4, <1>5, <2>2
    <3>2. (\A k \in 1 .. n + m : link[k] = whole[k]) /\ link[n + m + 1] = "/"
      BY <1>4, <1>5, <2>2
    <3>3. \A k \in 1 .. n + m + 1 : k \in 1 .. n + m \/ k = n + m + 1
      BY <1>1, <1>5
    <3> QED
      BY <1>1, <1>5, <1>6, <3>1, <3>2, <3>3
  <2> QED
    BY <2>1, <2>2 DEF Links, whole, encoded
<1>9. WithoutFragment(link) = link
  BY <1>8, NothingCut
<1>10. n + 1 \in 1 .. n + m /\ n + 1 <= n + m /\ \A k \in 1 .. n : k \in 1 .. n + m
  BY <1>1, <1>5
<1>11. link[n + 1] # "/" /\ (link[n + 1] = "." => Hidden(name))
  BY <1>7, <1>8, <1>10
<1>12. \A k \in 1 .. n : link[k] = before[k]
  BY <1>5, <1>8, <1>10
<1>13. Text(link)
  BY <1>8 DEF Text
<1>14. n + 1 <= Len(link)
  BY <1>1, <1>5, <1>8
<1> QED
  BY <1>5, <1>8, <1>9, <1>11, <1>12, <1>13, <1>14 DEF n

\* A path and the same with a slash behind it are one directory.
LEMMA Slashed ==
  ASSUME NEW path, Text(path), path # <<>>
  PROVE  /\ Text(Slash(path)) /\ Slash(path) # <<>> /\ Slash(path)[Len(Slash(path))] = "/"
         /\ Len(path) \in Nat \ {0} /\ Len(Slash(path)) \in Len(path) .. Len(path) + 1
         /\ \A k \in 1 .. Len(path) : Slash(path)[k] = path[k]
         /\ \A k \in 1 .. Len(Slash(path)) : k \in 1 .. Len(path) \/ Slash(path)[k] = "/"
         /\ Normalize(Slash(path)) = Normalize(path)
<1> DEFINE s == Slash(path)
           n == Len(path)
<1>1. n \in Nat \ {0} /\ DOMAIN path = 1 .. n
  BY DEF Text
<1>2. CASE path[n] = "/"
  <2>1. s = path
    BY <1>2 DEF Slash, Last
  <2> HIDE DEF s
  <2> QED
    BY <1>1, <1>2, <2>1 DEF s
<1>3. CASE path[n] # "/"
  <2>1. s = Append(path, "/")
    BY <1>3 DEF Slash, Last
  <2>2. /\ Text(s) /\ Len(s) = n + 1 /\ (\A k \in 1 .. n : s[k] = path[k]) /\ s[n + 1] = "/"
    BY <2>1, Joins
  <2> DEFINE text == Decode(path)
  <2>3. Decode(s) = Append(text, "/")
    <3>1. Plain("/") = "/"
      BY DEF Plain, Escapes
    <3>2. Decode(Append(path, "/")) = Append(text, Plain("/"))
      BY DecodesJoined
    <3> QED
      BY <2>1, <3>1, <3>2
  <2>4. Text(text) /\ DOMAIN text = 1 .. n /\ Len(text) = n
    BY Decodes
  <2> HIDE DEF s, text, n
  <2>5. Segments(Append(text, "/")) = Segments(text)
    BY <2>4, SlashAdded
  <2>6. "c" \in ToSet(Append(text, "/")) <=> "c" \in ToSet(text)
    <3>1. /\ DOMAIN Append(text, "/") = 1 .. n + 1
          /\ \A k \in 1 .. n : Append(text, "/")[k] = text[k]
          /\ Append(text, "/")[n + 1] = "/"
      <4>1. DOMAIN Append(text, "/") = 1 .. n + 1
        BY <2>4, Joins
      <4>2. \A k \in 1 .. n : Append(text, "/")[k] = text[k]
        BY <2>4, Joins
      <4>3. Append(text, "/")[n + 1] = "/"
        BY <2>4, Joins
      <4> QED
        BY <4>1, <4>2, <4>3
    <3>2. \A k \in 1 .. n + 1 : k \in 1 .. n \/ k = n + 1
      BY <1>1
    <3>3. \A k \in 1 .. n : k \in 1 .. n + 1
      BY <1>1
    <3> QED
      BY <2>4, <3>1, <3>2, <3>3 DEF ToSet
  <2>7. Normalize(s) = Normalize(path)
    BY <2>3, <2>5, <2>6 DEF Normalize, text
  <2>8. s # <<>> /\ s[Len(s)] = "/" /\ Len(s) \in n .. n + 1
        /\ \A k \in 1 .. Len(s) : k \in 1 .. n \/ s[k] = "/"
    <3>1. Len(s) # 0
      BY <1>1, <2>2
    <3> QED
      BY <1>1, <2>2, <3>1
  <2> QED
    BY <1>1, <2>2, <2>7, <2>8 DEF s, n
<1> QED
  BY <1>2, <1>3

\* The part of a path up to its last slash is a path as well.
LEMMA PageBase ==
  ASSUME NEW path, Text(path), path # <<>>, path[1] = "/"
  PROVE  LET base == UpToLastSlash(path)
         IN /\ Text(base) /\ base # <<>> /\ base[1] = "/" /\ base[Len(base)] = "/"
            /\ Len(base) \in 1 .. Len(path) /\ \A k \in 1 .. Len(base) : base[k] = path[k]
<1>1. PICK l \in 1 .. Len(path) : path[l] = "/" /\ \A k \in l + 1 .. Len(path) : path[k] # "/"
  BY HasLastSlash
<1>2. UpToLastSlash(path) = SubSeq(path, 1, l)
  BY <1>1, UpTo
<1>3. PICK V : path \in Seq(V)
  BY DEF Text
<1> DEFINE base == SubSeq(path, 1, l)
<1>4. /\ base \in Seq(V) /\ Len(base) = l /\ l \in 1 .. Len(path) /\ l \in Nat \ {0}
      /\ \A k \in 1 .. l : base[k] = path[k]
  BY <1>3
<1> HIDE DEF base
<1>5. base # <<>> /\ base[1] = "/" /\ base[l] = "/"
  BY <1>1, <1>4
<1> QED
  BY <1>2, <1>4, <1>5 DEF base, Text

\* A client on the page of a directory follows the link to an entry.
LEMMA EntryLeads ==
  ASSUME NEW path, Text(path), SentByClient(path), NEW names, Text(names),
         Normalize(path) = [ok |-> TRUE, names |-> names],
         NEW entry, IsFileName(entry.name), ~Hidden(entry.name)
  PROVE  LET href == Href(path, names # <<>>, entry)
         IN ~LeavesHost(href)
              /\ Normalize(Follow(path, href)) = [ok |-> TRUE, names |-> Append(names, entry.name)]
            <=> /\ "c" \notin ToSet(entry.name)
                /\ IF names = <<>> THEN ~LeavesHost(path)
                   ELSE Normalize(UpToLastSlash(path)).names = names
<1> DEFINE name == entry.name
           before == IF names # <<>> THEN <<>> ELSE Slash(path)
           href == Href(path, names # <<>>, entry)
           there == [ok |-> TRUE, names |-> Append(names, name)]
           here == [ok |-> TRUE, names |-> names]
<1>1. path # <<>> /\ path[1] = "/" /\ "#" \notin ToSet(path) /\ DOMAIN path = 1 .. Len(path)
      /\ Len(path) \in Nat
  BY DEF SentByClient, Text
<1>2. href \in Links(before, name)
  BY DEF Href, Links
<1>3. ParentHref[1] = "."
  BY DEF ParentHref, Up
<1> HIDE DEF href
<1>4. CASE names = <<>>
  <2> DEFINE base == Slash(path)
  <2>1. /\ Text(base) /\ base # <<>> /\ base[Len(base)] = "/"
        /\ Len(path) \in Nat \ {0} /\ Len(base) \in Len(path) .. Len(path) + 1
        /\ \A k \in 1 .. Len(path) : base[k] = path[k]
        /\ \A k \in 1 .. Len(base) : k \in 1 .. Len(path) \/ base[k] = "/"
        /\ Normalize(base) = here
    BY <1>1, Slashed
  <2>2. before = base
    BY <1>4
  <2> HIDE DEF base, before, name
  <2>3. \A k \in 1 .. Len(base) : base[k] # "#"
    BY <1>1, <2>1 DEF ToSet
  <2>4. IsFileName(name) /\ ~Hidden(name)
    BY DEF name
  <2> DEFINE n == Len(path)
             l == Len(base)
             h == Len(href)
  <2>5. /\ Text(href) /\ WithoutFragment(href) = href
        /\ h \in Nat /\ l + 1 <= h
        /\ (\A k \in 1 .. l : href[k] = base[k]) /\ href[l + 1] # "/"
    <3>1. href \in Links(base, name)
      BY <1>2, <2>2
    <3>2. Text(href) /\ WithoutFragment(href) = href
      BY <2>1, <2>3, <2>4, <3>1, LinkChars
    <3>3. h \in Nat /\ l + 1 <= h
      BY <2>1, <2>3, <2>4, <3>1, LinkChars
    <3>4. ASSUME NEW k \in 1 .. Len(base) PROVE href[k] = base[k]
      BY <2>1, <2>3, <2>4, <3>1, LinkChars
    <3>5. href[l + 1] # "/"
      BY <2>1, <2>3, <2>4, <3>1, LinkChars
    <3> QED
      BY <3>2, <3>3, <3>4, <3>5
  <2>6. href[1] = "/" /\ href # <<>> /\ href # ParentHref
    <3>1. 1 \in 1 .. Len(path) /\ 1 \in 1 .. Len(base)
      BY <2>1
    <3>2. href[1] = "/"
      BY <1>1, <2>1, <2>5, <3>1
    <3>3. Len(href) # 0
      BY <2>1, <2>5
    <3> QED
      BY <1>3, <3>2, <3>3
  <2>7. Follow(path, href) = href
    BY <2>5, <2>6 DEF Follow
  <2>8. Normalize(href) = there <=> "c" \notin ToSet(name) /\ Normalize(base) = here
    BY <1>2, <2>1, <2>2, <2>4, LinkNormalized
  <2>9. LeavesHost(href) <=> LeavesHost(path)
    <3>1. LeavesHost(href) <=> Len(href) >= 2 /\ href[1] = "/" /\ href[2] = "/"
      BY <2>5, LeavesWhen
    <3>2. LeavesHost(path) <=> Len(path) >= 2 /\ path[1] = "/" /\ path[2] = "/"
      BY LeavesWhen
    <3>3. CASE Len(path) >= 2
      <4>1. 2 \in 1 .. Len(path) /\ 2 \in 1 .. Len(base) /\ Len(href) >= 2
        BY <2>1, <2>5, <3>3
      <4>2. href[2] = path[2]
        BY <2>1, <2>5, <4>1
      <4> QED
        BY <1>1, <2>6, <3>1, <3>2, <3>3, <4>1, <4>2
    <3>4. CASE ~(Len(path) >= 2)
      <4>1. Len(path) = 1
        <5>1. n \in Nat \ {0} /\ ~(n >= 2)
          BY <2>1, <3>4
        <5> HIDE DEF n
        <5>2. n = 1
          BY <5>1
        <5> QED
          BY <5>2 DEF n
      <4>2. base = path
        BY <1>1, <4>1 DEF base, Slash, Last
      <4>3. href[2] # "/"
        <5>1. l = 1
          BY <4>1, <4>2
        <5> HIDE DEF l
        <5> QED
          BY <2>5, <5>1
      <4> QED
        BY <3>1, <3>2, <3>4, <4>3
    <3> QED
      BY <3>3, <3>4
  <2> QED
    BY <1>4, <2>1, <2>7, <2>8, <2>9 DEF href, name
<1>5. CASE names # <<>>
  <2> DEFINE base == UpToLastSlash(path)
             link == base \o href
  <2>1. before = <<>>
    BY <1>5
  <2>2. Text(base) /\ base # <<>> /\ base[Len(base)] = "/"
    BY <1>1, PageBase
  <2> HIDE DEF base, before, name
  <2>3. IsFileName(name) /\ ~Hidden(name)
    BY DEF name
  <2>4. Text(before) /\ Len(before) = 0 /\ \A k \in 1 .. Len(before) : before[k] # "#"
    <3>1. before \in Seq({}) /\ Len(before) = 0
      BY <2>1
    <3> QED
      BY <3>1 DEF Text
  <2>5. /\ Text(href) /\ Len(href) \in Nat /\ 1 <= Len(href) /\ WithoutFragment(href) = href
        /\ href[1] # "/" /\ href[1] # "."
    <3>1. /\ Text(href) /\ Len(href) \in Nat /\ Len(before) + 1 <= Len(href)
          /\ WithoutFragment(href) = href
          /\ href[Len(before) + 1] # "/" /\ (href[Len(before) + 1] = "." => Hidden(name))
      BY <1>2, <2>3, <2>4, LinkChars, Zenon
    <3> QED
      BY <2>3, <2>4, <3>1
  <2>6. href # ParentHref /\ href # <<>>
    BY <1>3, <2>5
  <2>7. Follow(path, href) = link
    BY <2>5, <2>6 DEF Follow, base
  <2>8. ~LeavesHost(href)
    BY <2>5, LeavesWhen
  <2>9. link \in Links(base, name)
    <3> DEFINE encoded == UrlEncodePath(name)
    <3>1. Text(encoded)
      BY <2>3, EncodedName
    <3> HIDE DEF encoded
    <3>2. PICK V : base \in Seq(V)
      BY <2>2 DEF Text
    <3>3. PICK W : encoded \in Seq(W)
      BY <3>1 DEF Text
    <3> DEFINE X == V \union W \union {"/"}
    <3>4. base \in Seq(X) /\ encoded \in Seq(X) /\ "/" \in X
      BY <3>2, <3>3
    <3> HIDE DEF X
    <3>5. <<>> \o encoded = encoded
      BY <3>4
    <3>6. base \o Append(encoded, "/") = Append(base \o encoded, "/")
      BY <3>4
    <3> QED
      BY <1>2, <2>1, <3>5, <3>6 DEF Links, encoded
  <2> HIDE DEF link
  <2>10. Normalize(link) = there <=> "c" \notin ToSet(name) /\ Normalize(base) = here
    BY <2>2, <2>3, <2>9, LinkNormalized
  <2>11. Normalize(base) = here <=> Normalize(base).names = names
    <3>1. \E found : Normalize(base) = Refused \/ Normalize(base) = [ok |-> TRUE, names |-> found]
      BY <2>2, NormalizesTo, Zenon
    <3>2. PICK found : Normalize(base) = Refused \/ Normalize(base) = [ok |-> TRUE, names |-> found]
      BY <3>1
    <3> QED
      BY <1>5, <3>2 DEF Refused
  <2> QED
    BY <1>5, <2>7, <2>8, <2>10, <2>11 DEF href, name, base
<1> QED
  BY <1>4, <1>5

\* The names normalize keeps could stand in the file tree.
LEMMA NamesAreNames ==
  ASSUME NEW path, IsUrlText(path), NEW names, Normalize(path) = [ok |-> TRUE, names |-> names]
  PROVE  /\ Text(names) /\ Len(names) \in Nat /\ DOMAIN names = 1 .. Len(names)
         /\ \A i \in DOMAIN names : IsFileName(names[i]) /\ ~Hidden(names[i])
<1> DEFINE text == Decode(path)
           s == Segments(text)
           V == {name \in Seq(Characters \ {"/"}) : name # <<>>}
<1>1. /\ Text(path) /\ Text(text) /\ DOMAIN text = 1 .. Len(path) /\ Len(path) \in Nat
      /\ \A k \in 1 .. Len(path) : text[k] \in Characters
  <2>1. Text(path) /\ DOMAIN path = 1 .. Len(path)
    BY DEF IsUrlText, Text
  <2>2. /\ Text(text) /\ DOMAIN text = 1 .. Len(path) /\ Len(path) \in Nat
        /\ \A k \in 1 .. Len(path) : text[k] = Plain(path[k])
    BY <2>1, Decodes
  <2>3. \A k \in 1 .. Len(path) : path[k] \in Characters \union DOMAIN Escapes
    BY <2>1 DEF IsUrlText, ToSet
  <2>4. \A e \in DOMAIN Escapes : Escapes[e] \in Characters
    BY DEF Escapes, Characters
  <2>5. \A k \in 1 .. Len(path) : Plain(path[k]) \in Characters
    BY <2>3, <2>4 DEF Plain
  <2> QED
    BY <2>1, <2>2, <2>5
<1> HIDE DEF text
<1> DEFINE many == Cardinality(Begins(text))
<1>2. ASSUME NEW n \in 1 .. many PROVE s[n] \in V
  <2> DEFINE i == NthBegin(text, n)
             e == EndOf(text, i)
  <2>1. i \in Begins(text) /\ Rank(text, i) = n
    BY <1>1, Nth
  <2>2. Ends(text, i, e) /\ i \in 1 .. Len(text) /\ s[n] = SubSeq(text, i, e)
    BY <1>1, <2>1, Piece
  <2> HIDE DEF i, e, s
  <2>3. /\ e \in i .. Len(text) /\ \A k \in i .. e : text[k] \in Characters \ {"/"}
        /\ Len(text) \in Nat
    <3>1. Len(text) \in Nat /\ DOMAIN text = 1 .. Len(text)
      BY <1>1, Ranks
    <3>2. e \in i .. Len(text) /\ \A k \in i .. e : text[k] # "/"
      BY <2>2 DEF Ends
    <3>3. \A k \in i .. e : k \in 1 .. Len(text)
      BY <2>2, <3>1, <3>2
    <3> QED
      BY <1>1, <3>1, <3>2, <3>3
  <2>4. SubSeq(text, i, e) \in Seq(Characters \ {"/"}) /\ SubSeq(text, i, e) # <<>>
    <3> DEFINE X == Characters \ {"/"}
               piece == SubSeq(text, i, e)
               l == e - i + 1
    <3>1. PICK W : text \in Seq(W)
      BY <1>1 DEF Text
    <3> HIDE DEF X
    <3>2. /\ piece \in Seq(W) /\ Len(piece) = l /\ l \in Nat \ {0}
          /\ \A k \in 1 .. l : piece[k] = text[i + k - 1]
      BY <2>2, <2>3, <3>1
    <3>3. \A k \in 1 .. l : i + k - 1 \in i .. e
      BY <2>2, <2>3
    <3> HIDE DEF piece, l
    <3>4. \A k \in 1 .. l : piece[k] \in X
      BY <2>3, <3>2, <3>3 DEF X
    <3>5. piece \in Seq(X) /\ piece # <<>>
      BY <3>2, <3>4
    <3> QED
      BY <3>5 DEF piece, X
  <2> QED
    BY <2>2, <2>4
<1>3. s \in Seq(V)
  <2>1. DOMAIN s = 1 .. many /\ many \in Nat
    BY <1>1, Piece
  <2>2. s = [n \in 1 .. many |-> s[n]]
    BY DEF Segments
  <2> HIDE DEF s, V, many
  <2> QED
    BY <1>2, <2>1, <2>2
<1> DEFINE walk == Walk(s)
<1>4. walk = Refused \/ walk \in [ok : {TRUE}, names : Seq(V)]
  <2> HIDE DEF s, V
  <2>1. StandsAt(V, s, Walk(s), Len(s))
    BY <1>3, WalkStands
  <2> QED
    BY <2>1 DEF StandsAt
<1>5. Normalize(path) = IF "c" \in ToSet(text) \/ \E i \in DOMAIN walk.names : Hidden(walk.names[i])
                        THEN Refused ELSE walk
  BY DEF Normalize, text
<1> HIDE DEF walk, V
<1>6. Refused # [ok |-> TRUE, names |-> names]
  BY DEF Refused
<1>7. walk = [ok |-> TRUE, names |-> names] /\ ~(\E i \in DOMAIN walk.names : Hidden(walk.names[i]))
  BY <1>5, <1>6
<1>8. walk.names = names /\ names \in Seq(V)
  BY <1>4, <1>6, <1>7
<1>9. ASSUME NEW i \in DOMAIN names PROVE IsFileName(names[i]) /\ ~Hidden(names[i])
  <2>1. names[i] \in V /\ ~Hidden(names[i])
    BY <1>7, <1>8
  <2> QED
    BY <2>1 DEF V, IsFileName
<1>10. Text(names) /\ Len(names) \in Nat /\ DOMAIN names = 1 .. Len(names)
  BY <1>8 DEF Text
<1> QED
  BY <1>9, <1>10

\* The recursive definition in CanonicalDir defines a function.
Dirs(names, dir, m) ==
  dir = [n \in 0 .. m |-> IF n = 0 THEN <<"/">>
                          ELSE Append(dir[n - 1] \o UrlEncodePath(names[n]), "/")]

LEMMA DirGrows ==
  ASSUME NEW names, Len(names) \in Nat
  PROVE  \E dir : Dirs(names, dir, Len(names)) /\ CanonicalDir(names) = dir[Len(names)]
<1> DEFINE T == {m \in Nat : \E dir : Dirs(names, dir, m)}
<1>1. 0 \in T
  <2> DEFINE f == [n \in 0 .. 0 |-> <<"/">>]
  <2>1. f = [n \in 0 .. 0 |-> IF n = 0 THEN <<"/">>
                              ELSE Append(f[n - 1] \o UrlEncodePath(names[n]), "/")]
    OBVIOUS
  <2>2. Dirs(names, f, 0)
    BY <2>1 DEF Dirs
  <2> QED
    BY <2>2
<1>2. ASSUME NEW m \in T PROVE m + 1 \in T
  <2> DEFINE Longer(d, n) == Append(d \o UrlEncodePath(names[n]), "/")
  <2>1. m \in Nat
    OBVIOUS
  <2>2. PICK f : f = [n \in 0 .. m |-> IF n = 0 THEN <<"/">> ELSE Longer(f[n - 1], n)]
    BY DEF Dirs
  <2> HIDE DEF T
  <2> DEFINE g == [n \in 0 .. m + 1 |-> IF n = m + 1 THEN Longer(f[m], n) ELSE f[n]]
             GoesOn(n) == g[n] = IF n = 0 THEN <<"/">> ELSE Longer(g[n - 1], n)
  <2> HIDE DEF Longer
  <2>3. ASSUME NEW n \in 0 .. m + 1 PROVE GoesOn(n)
    <3>1. n # 0 => n - 1 \in 0 .. m /\ n - 1 # m + 1
      BY <2>1
    <3>2. n # 0 => g[n - 1] = f[n - 1]
      BY <2>1, <3>1
    <3>3. CASE n = m + 1
      BY <2>1, <3>2, <3>3
    <3>4. CASE n # m + 1
      <4>1. n \in 0 .. m /\ g[n] = f[n]
        BY <2>1, <3>4
      <4>2. f[n] = IF n = 0 THEN <<"/">> ELSE Longer(f[n - 1], n)
        BY <2>2, <4>1
      <4> QED
        BY <3>2, <4>1, <4>2
    <3> QED
      BY <3>3, <3>4
  <2>4. g = [n \in 0 .. m + 1 |-> g[n]]
    OBVIOUS
  <2> HIDE DEF g
  <2>5. g = [n \in 0 .. m + 1 |-> IF n = 0 THEN <<"/">> ELSE Longer(g[n - 1], n)]
    BY <2>3, <2>4
  <2>6. Dirs(names, g, m + 1)
    BY <2>5 DEF Dirs, Longer
  <2> QED
    BY <2>1, <2>6 DEF T
<1>3. T = Nat
  <2>1. T \in SUBSET Nat
    OBVIOUS
  <2> HIDE DEF T
  <2> QED
    BY <1>1, <1>2, <2>1, NatSetInduction
<1>4. \E dir : Dirs(names, dir, Len(names))
  BY <1>3
<1> DEFINE W == CHOOSE dir : Dirs(names, dir, Len(names))
<1>5. Dirs(names, W, Len(names))
  BY <1>4, Zenon
<1>6. CanonicalDir(names) = W[Len(names)]
  BY Zenon DEF CanonicalDir, Dirs
<1> QED
  BY <1>5, <1>6, Zenon

\* The last name comes from the last piece.
LEMMA TakenBack ==
  ASSUME NEW base, Text(base), base # <<>>, base[Len(base)] = "/",
         NEW names, Text(names), Len(names) # 0, IsFileName(Last(names)), ~Hidden(Last(names)),
         NEW link \in Links(base, Last(names))
  PROVE  Normalize(link) = [ok |-> TRUE, names |-> names] =>
           Normalize(base) = [ok |-> TRUE, names |-> Front(names)]
<1> DEFINE front == Front(names)
           name == Last(names)
           m == Len(names) - 1
<1>1. PICK V : names \in Seq(V)
  BY DEF Text
<1>2. m \in Nat /\ m + 1 = Len(names) /\ name = names[m + 1] /\ front = SubSeq(names, 1, m)
  BY <1>1 DEF Front, Last
<1> HIDE DEF front, name, m
<1>3. front \in Seq(V) /\ Len(front) = m /\ \A k \in 1 .. m : front[k] = names[k]
  BY <1>1, <1>2
<1>4. Append(front, name) = names
  <2>1. name \in V
    BY <1>1, <1>2
  <2>2. Append(front, name) \in Seq(V) /\ Len(Append(front, name)) = m + 1
    BY <1>3, <2>1
  <2>3. (\A k \in 1 .. m : Append(front, name)[k] = front[k]) /\ Append(front, name)[m + 1] = name
    BY <1>2, <1>3, <2>1
  <2>4. \A k \in 1 .. m + 1 : k \in 1 .. m \/ k = m + 1
    BY <1>2
  <2>5. \A k \in 1 .. m + 1 : Append(front, name)[k] = names[k]
    BY <1>2, <1>3, <2>3, <2>4
  <2> QED
    BY <1>1, <1>2, <2>2, <2>5
<1>5. Text(front)
  BY <1>3 DEF Text
<1>6. IsFileName(name) /\ ~Hidden(name) /\ link \in Links(base, name)
  BY DEF name
<1>7. Normalize(link) = [ok |-> TRUE, names |-> Append(front, name)] <=>
        "c" \notin ToSet(name) /\ Normalize(base) = [ok |-> TRUE, names |-> front]
  BY <1>5, <1>6, LinkNormalized
<1> QED
  BY <1>4, <1>7 DEF front

\* "../" on the page of a directory whose path is spelled out.
LEMMA ParentLeads ==
  ASSUME NEW path, IsUrlText(path), NEW names, names # <<>>,
         Normalize(path) = [ok |-> TRUE, names |-> names], path = CanonicalDir(names)
  PROVE  /\ ~LeavesHost(ParentHref)
         /\ Normalize(Follow(path, ParentHref)) = [ok |-> TRUE, names |-> Front(names)]
<1>1. /\ Text(names) /\ Len(names) \in Nat /\ DOMAIN names = 1 .. Len(names)
      /\ \A i \in 1 .. Len(names) : IsFileName(names[i]) /\ ~Hidden(names[i])
  BY NamesAreNames
<1>2. PICK dir : Dirs(names, dir, Len(names)) /\ CanonicalDir(names) = dir[Len(names)]
  BY <1>1, DirGrows
<1>3. Len(names) # 0
  BY <1>1 DEF Text
<1> DEFINE m == Len(names) - 1
           name == names[m + 1]
           before == dir[m]
           encoded == UrlEncodePath(name)
           whole == before \o encoded
<1>4. m \in Nat /\ m + 1 = Len(names) /\ m + 1 \in 1 .. Len(names)
  BY <1>1, <1>3
<1> HIDE DEF m
<1> DEFINE NextDir(n) == Append(dir[n - 1] \o UrlEncodePath(names[n]), "/")
<1>5. dir[0] = <<"/">> /\ \A n \in 1 .. m + 1 : dir[n] = NextDir(n)
  <2>1. dir = [n \in 0 .. m + 1 |-> IF n = 0 THEN <<"/">> ELSE NextDir(n)]
    BY <1>2, <1>4 DEF Dirs
  <2>2. \A n \in 1 .. m + 1 : n \in 0 .. m + 1 /\ n # 0
    BY <1>4
  <2>3. 0 \in 0 .. m + 1
    BY <1>4
  <2> HIDE DEF NextDir
  <2> QED
    BY <2>1, <2>2, <2>3
<1>6. \A n \in 1 .. m + 1 : Text(UrlEncodePath(names[n])) /\ Len(UrlEncodePath(names[n])) \in Nat
  BY <1>1, <1>4, EncodedName
<1> DEFINE Good(d) == Text(d) /\ d # <<>> /\ d[Len(d)] = "/"
           T == {n \in Nat : n <= m + 1 => Good(dir[n])}
<1>7. ASSUME NEW n \in Nat, n + 1 <= m + 1, Good(dir[n]) PROVE Good(dir[n + 1])
  <2> DEFINE e == UrlEncodePath(names[n + 1])
             d == dir[n]
  <2>1. n + 1 \in 1 .. m + 1 /\ (n + 1) - 1 = n
    BY <1>4, <1>7
  <2>2. dir[n + 1] = Append(d \o e, "/") /\ Text(e)
    BY <1>5, <1>6, <2>1
  <2>3. Text(d)
    BY <1>7
  <2> HIDE DEF d, e
  <2>4. Text(d \o e)
    BY <2>2, <2>3, Joins
  <2> DEFINE w == d \o e
  <2> HIDE DEF w
  <2>5. Text(w)
    BY <2>4 DEF w
  <2>6. /\ Text(Append(w, "/")) /\ Len(Append(w, "/")) = Len(w) + 1 /\ Len(w) \in Nat
        /\ Append(w, "/")[Len(w) + 1] = "/"
    BY <2>5, Joins
  <2>7. Good(Append(w, "/"))
    <3>1. Len(Append(w, "/")) # 0
      BY <2>6
    <3> QED
      BY <2>6, <3>1
  <2> QED
    BY <2>2, <2>7 DEF w
<1>8. T = Nat
  <2>1. 0 \in T
    <3>1. <<"/">> \in Seq({"/"}) /\ Len(<<"/">>) = 1
      OBVIOUS
    <3>2. Good(<<"/">>)
      BY <3>1 DEF Text
    <3> QED
      BY <1>5, <3>2
  <2>2. ASSUME NEW n \in T PROVE n + 1 \in T
    <3> HIDE DEF Good
    <3>1. n + 1 <= m + 1 => n <= m + 1
      BY <1>4
    <3> QED
      BY <1>7, <3>1
  <2>3. T \in SUBSET Nat
    OBVIOUS
  <2> HIDE DEF T
  <2> QED
    BY <2>1, <2>2, <2>3, NatSetInduction
<1>9. Good(before)
  BY <1>4, <1>8
<1>10. path = Append(whole, "/")
  <2>1. m + 1 \in 1 .. m + 1 /\ (m + 1) - 1 = m
    BY <1>4
  <2>2. dir[m + 1] = Append(dir[(m + 1) - 1] \o UrlEncodePath(names[m + 1]), "/")
    BY <1>5, <2>1
  <2> QED
    BY <1>2, <1>4, <2>1, <2>2
<1>11. /\ IsFileName(name) /\ ~Hidden(name) /\ Text(encoded) /\ Len(encoded) = Len(name)
       /\ Len(name) \in Nat \ {0} /\ \A k \in 1 .. Len(name) : encoded[k] # "/"
  BY <1>1, <1>4, EncodedName
<1>12. Normalize(before) = [ok |-> TRUE, names |-> Front(names)]
  <2>1. Last(names) = name
    BY <1>4 DEF Last
  <2>2. path \in Links(before, Last(names))
    BY <1>10, <2>1 DEF Links
  <2>3. IsFileName(Last(names)) /\ ~Hidden(Last(names))
    BY <1>11, <2>1
  <2>4. Text(before) /\ before # <<>> /\ before[Len(before)] = "/"
    BY <1>9
  <2> HIDE DEF before, name, whole, encoded, Good, NextDir
  <2> QED
    BY <1>1, <1>3, <2>2, <2>3, <2>4, TakenBack
\* The client gets there.
<1> DEFINE l == Len(before)
           e == Len(name)
<1>13. /\ l \in Nat \ {0} /\ e \in Nat \ {0} /\ Text(whole) /\ Len(whole) = l + e
       /\ SubSeq(whole, 1, l) = before /\ whole[l] = "/"
       /\ \A k \in l + 1 .. l + e : whole[k] # "/"
  <2> HIDE DEF before, encoded
  <2>1. PICK V : before \in Seq(V)
    BY <1>9 DEF Text
  <2>2. PICK W : encoded \in Seq(W)
    BY <1>11 DEF Text
  <2> DEFINE X == V \union W
  <2>3. before \in Seq(X) /\ encoded \in Seq(X)
    BY <2>1, <2>2
  <2> HIDE DEF X
  <2>4. whole \in Seq(X) /\ l \in Nat /\ Len(whole) = l + Len(encoded)
    BY <2>3
  <2>5. \A k \in 1 .. l : whole[k] = before[k]
    BY <2>3
  <2>6. \A k \in 1 .. Len(encoded) : whole[l + k] = encoded[k]
    BY <2>3
  <2>7. l # 0
    BY <1>9, <2>3
  <2> HIDE DEF whole, name
  <2>8. Len(encoded) = e /\ e \in Nat \ {0} /\ \A k \in 1 .. e : encoded[k] # "/"
    BY <1>11
  <2>9. SubSeq(whole, 1, l) = before
    <3>1. /\ SubSeq(whole, 1, l) \in Seq(X) /\ Len(SubSeq(whole, 1, l)) = l
          /\ \A k \in 1 .. l : SubSeq(whole, 1, l)[k] = whole[k]
      BY <2>4, <2>7, <2>8
    <3> QED
      BY <2>3, <2>5, <3>1
  <2> HIDE DEF e
  <2>10. whole[l] = "/"
    <3>1. before[l] = "/"
      BY <1>9
    <3> QED
      BY <2>4, <2>5, <2>7, <3>1
  <2> HIDE DEF l
  <2>11. \A k \in l + 1 .. l + e : whole[k] # "/"
    <3> TAKE k \in l + 1 .. l + e
    <3>1. k - l \in 1 .. e /\ l + (k - l) = k
      BY <2>4, <2>8
    <3> QED
      BY <2>6, <2>8, <3>1
  <2>12. Text(whole)
    BY <2>4 DEF Text
  <2> QED
    BY <2>4, <2>7, <2>8, <2>9, <2>10, <2>11, <2>12
<1> HIDE DEF whole, l, e, before, encoded, Good
<1>14. /\ Text(path) /\ Len(path) = l + e + 1 /\ path[l + e + 1] = "/"
       /\ \A k \in 1 .. l + e : path[k] = whole[k]
  <2> DEFINE p == Append(whole, "/")
             n == Len(whole)
  <2>1. Text(p) /\ Len(p) = n + 1 /\ p[n + 1] = "/"
    BY <1>13, Joins
  <2>2. \A k \in 1 .. n : p[k] = whole[k]
    BY <1>13, Joins
  <2>3. n = l + e
    BY <1>13
  <2> HIDE DEF p, n
  <2> QED
    BY <1>10, <1>13, <2>1, <2>2, <2>3 DEF p
<1>15. UpToLastSlash(path) = path
  <2>1. Len(path) \in 1 .. Len(path) /\ path[Len(path)] = "/"
        /\ \A k \in Len(path) + 1 .. Len(path) : path[k] # "/"
    BY <1>13, <1>14
  <2>2. UpToLastSlash(path) = SubSeq(path, 1, Len(path))
    BY <1>14, <2>1, UpTo
  <2>3. SubSeq(path, 1, Len(path)) = path
    BY <1>14 DEF Text
  <2> QED
    BY <2>2, <2>3
<1>16. Front(path) = whole
  <2>1. PICK V : whole \in Seq(V)
    BY <1>13 DEF Text
  <2> DEFINE X == V \union {"/"}
  <2>2. whole \in Seq(X) /\ "/" \in X
    BY <2>1
  <2> HIDE DEF X
  <2>3. Front(Append(whole, "/")) = whole
    BY <2>2 DEF Front
  <2> QED
    BY <1>10, <2>3
<1>17. UpToLastSlash(whole) = before
  <2>1. l \in 1 .. Len(whole) /\ \A k \in l + 1 .. Len(whole) : whole[k] # "/"
    BY <1>13
  <2> QED
    BY <1>13, <2>1, UpTo
<1>18. Len(path) # 1
  BY <1>13, <1>14
<1>19. Follow(path, ParentHref) = before
  BY <1>15, <1>16, <1>17, <1>18 DEF Follow
<1>20. ~LeavesHost(ParentHref)
  <2>1. ParentHref \in Seq({".", "/"}) /\ ParentHref[1] = "."
    BY DEF ParentHref, Up
  <2> QED
    BY <2>1, LeavesWhen DEF Text
<1> QED
  BY <1>12, <1>19, <1>20

\* A page that lists a directory was made by list_directory.
LEMMA ListingIsSent ==
  ASSUME FileInv, Answered, IsListing
  PROVE  Reached /\ ListingSent
<1>0. header = BuildHeaders(response)
  BY DEF FileInv, AnsweredInv, Answered
<1>1. header.status = Status.OK /\ info = NoInfo
  BY DEF IsListing, HasFile
<1>2. ~NotUnderstood /\ ~Refusal /\ ~Lacking
  <2>1. /\ Status.BAD_REQUEST \notin {Status.OK, Status.NOT_MODIFIED}
        /\ Status.FORBIDDEN \notin {Status.OK, Status.NOT_MODIFIED}
        /\ Status.NOT_FOUND \notin {Status.OK, Status.NOT_MODIFIED}
    BY DEF Status
  <2>2. NotUnderstood => header.status = Status.BAD_REQUEST
    BY <1>0, <2>1, PageHeader DEF NotUnderstood, NothingSent
  <2>3. Refusal => header.status = Status.FORBIDDEN
    BY <1>0, <2>1, PageHeader DEF Refusal, NothingSent
  <2>4. Lacking => header.status = Status.NOT_FOUND
    BY <1>0, <2>1, PageHeader DEF Lacking, NothingSent
  <2> QED
    BY <1>1, <2>1, <2>2, <2>3, <2>4
<1>3. ~NotModifiedSent /\ ~FileSent
  <2>1. Opened(FALSE) => info # NoInfo
    <3>1. Opened(FALSE) => info.mime_type # NO_TYPE
      BY MimeTyped DEF Opened
    <3> QED
      BY <3>1 DEF NoInfo
  <2> QED
    BY <1>1, <2>1 DEF NotModifiedSent, FileSent
<1> QED
  BY <1>2, <1>3 DEF FileInv, AnsweredInv, Answered

\* Whoever follows a link of a listing comes to the entry it names, if and only if
\* the path of the page ends with its slash (build_directory_html).
THEOREM LinksAlwaysLead == Spec => []LinksLead
<1>1. ASSUME FileInv, RequestInv PROVE LinksLead
  <2> DEFINE path == request.path
             names == Normalize(path).names
             Leads(href, to) ==
               /\ ~LeavesHost(href)
               /\ Normalize(Follow(path, href)) = [ok |-> TRUE, names |-> to]
             Right(entry) ==
               LET href == Href(path, listing.show_parent, entry)
               IN Leads(href, Append(names, entry.name)) <=>
                    /\ "c" \notin ToSet(entry.name)
                    /\ IF names = <<>> THEN ~LeavesHost(path)
                       ELSE Normalize(UpToLastSlash(path)).names = names
  <2> SUFFICES ASSUME Answered, IsListing, SentByClient(path)
               PROVE  /\ \A entry \in listing.shown : Right(entry)
                      /\ listing.show_parent /\ path = CanonicalDir(names)
                           => Leads(ParentHref, Front(names))
    BY DEF LinksLead
  <2>1. Reached /\ ListingSent
    BY <1>1, ListingIsSent
  <2>2. /\ IsUrlText(path) /\ Text(path)
    BY <1>1 DEF RequestInv, IsUrlText, Text
  <2>3. Normalize(path) = [ok |-> TRUE, names |-> names]
    <3>1. \E found : Normalize(path) = Refused \/ Normalize(path) = [ok |-> TRUE, names |-> found]
      BY <2>2, NormalizesTo, Zenon
    <3>2. PICK found : Normalize(path) = Refused \/ Normalize(path) = [ok |-> TRUE, names |-> found]
      BY <3>1
    <3>3. Normalize(path) # Refused
      BY <2>1 DEF Reached, Refused
    <3>4. Normalize(path) = [ok |-> TRUE, names |-> found]
      BY <3>2, <3>3
    <3>5. names = found
      BY <3>4
    <3> HIDE DEF names, path
    <3> QED
      BY <3>4, <3>5
  <2>4. listing.show_parent = (names # <<>>)
    BY <2>1 DEF ListingSent
  <2> HIDE DEF path, names
  <2>5. Text(names)
    BY <2>2, <2>3, NamesAreNames
  <2>6. ASSUME NEW entry \in listing.shown PROVE IsFileName(entry.name) /\ ~Hidden(entry.name)
    <3>1. PICK t \in seen : listing.shown = IF t.at.kind = "dir" /\ t.at.readable
                                            THEN Visible(t.at) ELSE {}
      BY <2>1 DEF ListingSent
    <3>2. entry \in Visible(t.at)
      BY <2>6, <3>1
    <3>3. PICK e \in t.at.entries : entry.name = e.name /\ ~Hidden(e.name)
      BY <3>2 DEF Visible
    <3>4. NodeOK(t.at)
      BY <1>1 DEF FileInv, MetInv, TreeOK
    <3> QED
      BY <3>3, <3>4 DEF NodeOK
  <2>7. ASSUME NEW entry \in listing.shown PROVE Right(entry)
    <3>1. IsFileName(entry.name) /\ ~Hidden(entry.name)
      BY <2>6
    <3>2. LET href == Href(path, names # <<>>, entry)
          IN ~LeavesHost(href)
               /\ Normalize(Follow(path, href)) = [ok |-> TRUE, names |-> Append(names, entry.name)]
             <=> /\ "c" \notin ToSet(entry.name)
                 /\ IF names = <<>> THEN ~LeavesHost(path)
                    ELSE Normalize(UpToLastSlash(path)).names = names
      BY <2>2, <2>3, <2>5, <3>1, EntryLeads, Zenon
    <3> QED
      BY <2>4, <3>2
  <2>8. ASSUME listing.show_parent, path = CanonicalDir(names) PROVE Leads(ParentHref, Front(names))
    <3>1. names # <<>>
      BY <2>4, <2>8
    <3> QED
      BY <2>2, <2>3, <2>8, <3>1, ParentLeads, Zenon
  <2> QED
    BY <2>7, <2>8
<1> QED
  BY <1>1, FileInvariance, RequestInvariance, PTL
================================================================================
