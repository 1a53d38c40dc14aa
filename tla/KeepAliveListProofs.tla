-------------------------- MODULE KeepAliveListProofs --------------------------
(* The pointer invariant of the keep-alive list, for every number of slots.    *)
(* LinksAgree together with the types is inductive as it stands: both insert   *)
(* and remove touch only nodes one link away from the head or from the node.   *)
(* That the list is one chain, and so what the sweep walks over, is not a      *)
(* matter of neighbours: Chained(o) says that the sequence o is the list, and  *)
(* each operation is given the sequence it makes of o.                         *)
EXTENDS KeepAliveList, FiniteSetTheorems, SequenceTheorems, SetInduction, TLAPS

ListInv == ListTypeOK /\ LinksAgree

\* nullptr is not a connection.
LEMMA NullIsNoSlot == NoConn \notin Slots
BY PoolAssumption DEF NoConn, Slots

\* An empty list is well formed.
LEMMA ListInitInv == ListInit => ListInv
BY NullIsNoSlot DEF ListInit, ListInv, ListTypeOK, LinksAgree, Pointers

\* add_to_keepalive_list keeps the invariant.
LEMMA AddInv ==
  ASSUME ListInv, NEW c \in Slots, AddToKeepAliveList(c)
  PROVE  ListInv'
<1>1. CASE in_keepalive_list[c]
  BY <1>1 DEF AddToKeepAliveList, ListInv, ListTypeOK, LinksAgree, listVars
<1>2. CASE ~in_keepalive_list[c]
  <2> DEFINE h == keepalive_head
             P == [keepalive_prev EXCEPT ![c] = NoConn]
  <2>1. /\ in_keepalive_list' = [in_keepalive_list EXCEPT ![c] = TRUE]
        /\ keepalive_prev' = SetUnlessNull(P, h, c)
        /\ keepalive_next' = [keepalive_next EXCEPT ![c] = h]
        /\ keepalive_head' = c
    BY <1>2 DEF AddToKeepAliveList
  <2>2. h # c
    BY <1>2, NullIsNoSlot DEF ListInv, LinksAgree
  <2>3. P \in [Slots -> Pointers] /\ h \in Pointers /\ c \in Pointers
    BY DEF ListInv, ListTypeOK, Pointers
  <2> HIDE DEF P, h
  <2>4. /\ keepalive_prev' \in [Slots -> Pointers]
        /\ \A d \in Slots : keepalive_prev'[d] = IF d = h THEN c ELSE P[d]
    BY <2>1, <2>3, NullIsNoSlot DEF SetUnlessNull, Pointers
  <2>5. ListTypeOK'
    BY <2>1, <2>3, <2>4 DEF ListInv, ListTypeOK
  <2>6. \A d \in Slots : P[d] = IF d = c THEN NoConn ELSE keepalive_prev[d]
    BY DEF P, ListInv, ListTypeOK
  <2>7. \A d \in Slots :
          /\ keepalive_next'[d] = IF d = c THEN h ELSE keepalive_next[d]
          /\ in_keepalive_list'[d] = IF d = c THEN TRUE ELSE in_keepalive_list[d]
    BY <2>1 DEF ListInv, ListTypeOK
  <2>8. LinksAgree'
    BY <1>2, <2>1, <2>2, <2>3, <2>4, <2>6, <2>7, NullIsNoSlot
       DEF ListInv, ListTypeOK, LinksAgree, Pointers, h
  <2> QED
    BY <2>5, <2>8 DEF ListInv
<1> QED
  BY <1>1, <1>2

\* remove_from_keepalive_list keeps the invariant.
LEMMA RemoveInv ==
  ASSUME ListInv, NEW c \in Slots, RemoveFromKeepAliveList(c)
  PROVE  ListInv'
<1>1. CASE ~in_keepalive_list[c]
  BY <1>1 DEF RemoveFromKeepAliveList, ListInv, ListTypeOK, LinksAgree, listVars
<1>2. CASE in_keepalive_list[c]
  <2> DEFINE p == keepalive_prev[c]
             n == keepalive_next[c]
  <2>1. /\ in_keepalive_list' = [in_keepalive_list EXCEPT ![c] = FALSE]
        /\ keepalive_next' = [SetUnlessNull(keepalive_next, p, n) EXCEPT ![c] = NoConn]
        /\ keepalive_head' = IF p = NoConn THEN n ELSE keepalive_head
        /\ keepalive_prev' = [SetUnlessNull(keepalive_prev, n, p) EXCEPT ![c] = NoConn]
    BY <1>2 DEF RemoveFromKeepAliveList
  <2>2. p \in Pointers /\ n \in Pointers /\ NoConn \in Pointers
    BY DEF ListInv, ListTypeOK, Pointers
  <2>3. /\ keepalive_next' \in [Slots -> Pointers]
        /\ \A d \in Slots : keepalive_next'[d] =
             IF d = c THEN NoConn ELSE IF d = p THEN n ELSE keepalive_next[d]
    BY <2>1, <2>2, NullIsNoSlot DEF SetUnlessNull, Pointers, ListInv, ListTypeOK
  <2>4. /\ keepalive_prev' \in [Slots -> Pointers]
        /\ \A d \in Slots : keepalive_prev'[d] =
             IF d = c THEN NoConn ELSE IF d = n THEN p ELSE keepalive_prev[d]
    BY <2>1, <2>2, NullIsNoSlot DEF SetUnlessNull, Pointers, ListInv, ListTypeOK
  <2>5. \A d \in Slots : in_keepalive_list'[d] =
          IF d = c THEN FALSE ELSE in_keepalive_list[d]
    BY <2>1 DEF ListInv, ListTypeOK
  <2>6. ListTypeOK'
    BY <2>1, <2>2, <2>3, <2>4 DEF ListInv, ListTypeOK
  <2>7. LinksAgree'
    BY <1>2, <2>1, <2>2, <2>3, <2>4, <2>5, NullIsNoSlot
       DEF ListInv, ListTypeOK, LinksAgree, Pointers
  <2> QED
    BY <2>6, <2>7 DEF ListInv
<1> QED
  BY <1>1, <1>2

\* init() of a connection outside the list keeps the invariant.
LEMMA ClearInv ==
  ASSUME ListInv, NEW c \in Slots, ~in_keepalive_list[c], ClearListNode(c)
  PROVE  ListInv'
BY DEF ClearListNode, ListInv, ListTypeOK, LinksAgree, Pointers

\* The inductive invariant holds in every reachable state.
THEOREM ListInvariance == ListSpec => []ListInv
<1>1. ListInv /\ [ListNext]_listVars => ListInv'
  <2> SUFFICES ASSUME ListInv, [ListNext]_listVars PROVE ListInv'
    OBVIOUS
  <2>1. CASE ListNext
    BY <2>1, AddInv, RemoveInv, ClearInv DEF ListNext
  <2>2. CASE UNCHANGED listVars
    BY <2>2 DEF listVars, ListInv, ListTypeOK, LinksAgree
  <2> QED
    BY <2>1, <2>2
<1> QED
  BY <1>1, ListInitInv, PTL DEF ListSpec

\* In every order of insertions and removals the two directions of the list
\* agree and nodes outside it point nowhere.
THEOREM LinksAlwaysAgree == ListSpec => []LinksAgree
<1>1. ListInv => LinksAgree
  BY DEF ListInv
<1> QED
  BY <1>1, ListInvariance, PTL
--------------------------------------------------------------------------------
(* The list as one chain.                                                      *)

\* The nodes from the head on are those of o, and no others are members.
Chained(o) ==
  /\ o \in Seq(Slots)
  /\ \A i, j \in 1 .. Len(o) : o[i] = o[j] => i = j
  /\ \A c \in Slots : in_keepalive_list[c] <=> \E i \in 1 .. Len(o) : o[i] = c
  /\ keepalive_head = IF Len(o) = 0 THEN NoConn ELSE o[1]
  /\ \A i \in 1 .. Len(o) :
       keepalive_next[o[i]] = IF i = Len(o) THEN NoConn ELSE o[i + 1]

ChainInv == ListInv /\ \E o : Chained(o)

\* The two neighbours of a member.
LEMMA ChainNeighbours ==
  ASSUME ListInv, NEW o, Chained(o), NEW i \in 1 .. Len(o)
  PROVE  keepalive_prev[o[i]] = IF i = 1 THEN NoConn ELSE o[i - 1]
<1>1. o[i] \in Slots /\ in_keepalive_list[o[i]]
  BY DEF Chained
<1>2. CASE i = 1
  BY <1>1, <1>2, NullIsNoSlot DEF ListInv, LinksAgree, Chained
<1>3. CASE i # 1
  <2>1. i - 1 \in 1 .. Len(o) /\ o[i - 1] \in Slots /\ in_keepalive_list[o[i - 1]]
    BY <1>3 DEF Chained
  <2>2. keepalive_next[o[i - 1]] = o[i]
    BY <1>3, <2>1 DEF Chained
  <2> QED
    BY <1>1, <1>3, <2>1, <2>2, NullIsNoSlot DEF ListInv, LinksAgree
<1> QED
  BY <1>2, <1>3

\* A node in front of a sequence of other nodes.
LEMMA InFront ==
  ASSUME NEW S, NEW o \in Seq(S), NEW c \in S
  PROVE  LET p == <<c>> \o o
         IN /\ p \in Seq(S) /\ Len(p) = Len(o) + 1
            /\ p[1] = c
            /\ \A i \in 1 .. Len(o) : p[i + 1] = o[i]
OBVIOUS

\* A sequence without its element k.
LEMMA TakenOut ==
  ASSUME NEW S, NEW o \in Seq(S), NEW k \in 1 .. Len(o)
  PROVE  LET p == SubSeq(o, 1, k - 1) \o SubSeq(o, k + 1, Len(o))
         IN /\ p \in Seq(S) /\ Len(p) = Len(o) - 1
            /\ \A i \in 1 .. Len(o) - 1 : p[i] = IF i < k THEN o[i] ELSE o[i + 1]
<1> DEFINE front == SubSeq(o, 1, k - 1)
           back == SubSeq(o, k + 1, Len(o))
<1>1. /\ front \in Seq(S) /\ Len(front) = k - 1
      /\ \A i \in 1 .. k - 1 : front[i] = o[i]
  OBVIOUS
<1>2. /\ back \in Seq(S) /\ Len(back) = Len(o) - k
      /\ \A i \in 1 .. Len(o) - k : back[i] = o[i + k]
  OBVIOUS
<1> HIDE DEF front, back
<1> DEFINE p == front \o back
<1>3. /\ p \in Seq(S) /\ Len(p) = (k - 1) + (Len(o) - k)
      /\ \A i \in 1 .. k - 1 : p[i] = front[i]
      /\ \A i \in k .. Len(o) - 1 : p[i] = back[i - (k - 1)]
  <2>1. /\ p \in Seq(S) /\ Len(p) = Len(front) + Len(back)
        /\ \A i \in 1 .. Len(front) + Len(back) :
             p[i] = IF i <= Len(front) THEN front[i] ELSE back[i - Len(front)]
    BY <1>1, <1>2, ConcatProperties
  <2> HIDE DEF p
  <2>2. ASSUME NEW i \in 1 .. k - 1 PROVE p[i] = front[i]
    <3>1. i \in 1 .. (k - 1) + (Len(o) - k) /\ i <= k - 1
      OBVIOUS
    <3> QED
      BY <1>1, <1>2, <2>1, <3>1
  <2>3. ASSUME NEW i \in k .. Len(o) - 1 PROVE p[i] = back[i - (k - 1)]
    <3>1. i \in 1 .. (k - 1) + (Len(o) - k) /\ ~(i <= k - 1)
      OBVIOUS
    <3> QED
      BY <1>1, <1>2, <2>1, <3>1
  <2> QED
    BY <1>1, <1>2, <2>1, <2>2, <2>3
<1> HIDE DEF p
<1>4. \A i \in k .. Len(o) - 1 : p[i] = o[i + 1]
  <2> TAKE i \in k .. Len(o) - 1
  <2>1. i - (k - 1) \in 1 .. Len(o) - k /\ (i - (k - 1)) + k = i + 1
    OBVIOUS
  <2> QED
    BY <1>2, <1>3, <2>1
<1>5. /\ p \in Seq(S) /\ Len(p) = Len(o) - 1
      /\ \A i \in 1 .. Len(o) - 1 : p[i] = IF i < k THEN o[i] ELSE o[i + 1]
  BY <1>1, <1>3, <1>4
<1> QED
  BY <1>5 DEF p, front, back

\* add_to_keepalive_list puts the node in front.
LEMMA AddChained ==
  ASSUME ListInv, NEW o, Chained(o), NEW c \in Slots, ~in_keepalive_list[c],
         AddToKeepAliveList(c)
  PROVE  Chained(<<c>> \o o)'
<1> DEFINE p == <<c>> \o o
<1>0. \A i, j \in 1 .. Len(o) : o[i] = o[j] => i = j
  BY DEF Chained
<1>1. o \in Seq(Slots) /\ Len(o) \in Nat
  BY DEF Chained
<1>2. /\ p \in Seq(Slots) /\ Len(p) = Len(o) + 1
      /\ p[1] = c
      /\ \A i \in 1 .. Len(o) : p[i + 1] = o[i]
  BY <1>1, InFront
<1> HIDE DEF p
<1>3. /\ \A d \in Slots : in_keepalive_list'[d] = IF d = c THEN TRUE ELSE in_keepalive_list[d]
      /\ \A d \in Slots : keepalive_next'[d] = IF d = c THEN keepalive_head ELSE keepalive_next[d]
      /\ keepalive_head' = c
  BY DEF AddToKeepAliveList, ListInv, ListTypeOK
<1>4. \A i \in 1 .. Len(o) : o[i] \in Slots /\ o[i] # c
  BY DEF Chained
<1>5. \A i \in 1 .. Len(p) : i = 1 \/ (i - 1 \in 1 .. Len(o) /\ p[i] = o[i - 1])
  <2> TAKE i \in 1 .. Len(p)
  <2>1. i # 1 => i - 1 \in 1 .. Len(o) /\ (i - 1) + 1 = i
    BY <1>1, <1>2
  <2> QED
    BY <1>2, <2>1
<1>6. \A i, j \in 1 .. Len(p) : p[i] = p[j] => i = j
  <2> TAKE i, j \in 1 .. Len(p)
  <2>1. CASE i = 1 \/ j = 1
    BY <1>2, <1>4, <1>5, <2>1
  <2>2. CASE i # 1 /\ j # 1
    <3>1. /\ i - 1 \in 1 .. Len(o) /\ p[i] = o[i - 1]
          /\ j - 1 \in 1 .. Len(o) /\ p[j] = o[j - 1]
      BY <1>5, <2>2
    <3>2. o[i - 1] = o[j - 1] => i - 1 = j - 1
      BY <1>0, <3>1
    <3> QED
      BY <3>1, <3>2
  <2> QED
    BY <2>1, <2>2
<1>7. \A d \in Slots : in_keepalive_list'[d] <=> \E i \in 1 .. Len(p) : p[i] = d
  <2> SUFFICES ASSUME NEW d \in Slots
               PROVE  in_keepalive_list'[d] <=> \E i \in 1 .. Len(p) : p[i] = d
    OBVIOUS
  <2>1. CASE d = c
    <3>1. 1 \in 1 .. Len(p)
      BY <1>1, <1>2
    <3> QED
      BY <1>2, <1>3, <2>1, <3>1
  <2>2. CASE d # c
    <3>1. in_keepalive_list'[d] <=> \E i \in 1 .. Len(o) : o[i] = d
      BY <1>3, <2>2 DEF Chained
    <3>2. ASSUME NEW i \in 1 .. Len(o), o[i] = d
          PROVE  \E j \in 1 .. Len(p) : p[j] = d
      <4>1. i + 1 \in 1 .. Len(p)
        BY <1>1, <1>2
      <4> QED
        BY <1>2, <3>2, <4>1
    <3>3. (\E i \in 1 .. Len(p) : p[i] = d) => \E i \in 1 .. Len(o) : o[i] = d
      BY <1>2, <1>5, <2>2
    <3> QED
      BY <3>1, <3>2, <3>3
  <2> QED
    BY <2>1, <2>2
<1>8. \A i \in 1 .. Len(p) :
        keepalive_next'[p[i]] = IF i = Len(p) THEN NoConn ELSE p[i + 1]
  <2> SUFFICES ASSUME NEW i \in 1 .. Len(p)
               PROVE  keepalive_next'[p[i]] = IF i = Len(p) THEN NoConn ELSE p[i + 1]
    OBVIOUS
  <2>1. CASE i = 1
    BY <1>1, <1>2, <1>3, <2>1 DEF Chained
  <2>2. CASE i # 1
    <3>1. i - 1 \in 1 .. Len(o) /\ p[i] = o[i - 1]
      BY <1>5, <2>2
    <3>2. keepalive_next'[p[i]] = IF i - 1 = Len(o) THEN NoConn ELSE o[(i - 1) + 1]
      BY <1>3, <1>4, <3>1 DEF Chained
    <3>3. i # Len(p) => i \in 1 .. Len(o) /\ p[i + 1] = o[i] /\ (i - 1) + 1 = i
      BY <1>1, <1>2, <2>2
    <3> QED
      BY <1>1, <1>2, <3>2, <3>3
  <2> QED
    BY <2>1, <2>2
<1>9. Chained(p)'
  BY <1>2, <1>3, <1>6, <1>7, <1>8, <1>1 DEF Chained
<1> QED
  BY <1>9 DEF p

\* remove_from_keepalive_list takes the node out.
LEMMA RemoveChained ==
  ASSUME ListInv, NEW o, Chained(o), NEW k \in 1 .. Len(o),
         RemoveFromKeepAliveList(o[k])
  PROVE  Chained(SubSeq(o, 1, k - 1) \o SubSeq(o, k + 1, Len(o)))'
<1> DEFINE p == SubSeq(o, 1, k - 1) \o SubSeq(o, k + 1, Len(o))
           c == o[k]
<1>0. /\ \A i, j \in 1 .. Len(o) : o[i] = o[j] => i = j
      /\ \A d \in Slots : in_keepalive_list[d] <=> \E i \in 1 .. Len(o) : o[i] = d
  BY DEF Chained
<1>1. o \in Seq(Slots) /\ Len(o) \in Nat /\ c \in Slots /\ in_keepalive_list[c]
  BY DEF Chained
<1>2. /\ p \in Seq(Slots) /\ Len(p) = Len(o) - 1
      /\ \A i \in 1 .. Len(o) - 1 : p[i] = IF i < k THEN o[i] ELSE o[i + 1]
  BY <1>1, TakenOut
<1> HIDE DEF p
<1>3. /\ \A d \in Slots : in_keepalive_list'[d] = IF d = c THEN FALSE ELSE in_keepalive_list[d]
      /\ keepalive_head' = IF k = 1 THEN keepalive_next[c] ELSE keepalive_head
      /\ \A d \in Slots :
           keepalive_next'[d] = CASE d = c -> NoConn
                                  [] d # c /\ k # 1 /\ d = o[k - 1] -> keepalive_next[c]
                                  [] OTHER -> keepalive_next[d]
  <2>1. keepalive_prev[c] = IF k = 1 THEN NoConn ELSE o[k - 1]
    BY ChainNeighbours
  <2>2. k # 1 => o[k - 1] \in Slots
    BY <1>1
  <2>3. \A d \in Slots : in_keepalive_list'[d] = IF d = c THEN FALSE ELSE in_keepalive_list[d]
    BY <1>1 DEF RemoveFromKeepAliveList, ListInv, ListTypeOK
  <2>4. keepalive_head' = IF k = 1 THEN keepalive_next[c] ELSE keepalive_head
    BY <1>1, <2>1, <2>2, NullIsNoSlot DEF RemoveFromKeepAliveList
  <2>5. keepalive_next' =
          [SetUnlessNull(keepalive_next, keepalive_prev[c], keepalive_next[c])
             EXCEPT ![c] = NoConn]
    BY <1>1 DEF RemoveFromKeepAliveList
  <2>6. CASE k = 1
    BY <1>1, <2>1, <2>3, <2>4, <2>5, <2>6 DEF SetUnlessNull, ListInv, ListTypeOK
  <2>7. CASE k # 1
    <3>1. keepalive_next' =
            [[keepalive_next EXCEPT ![o[k - 1]] = keepalive_next[c]] EXCEPT ![c] = NoConn]
      BY <2>1, <2>2, <2>5, <2>7, NullIsNoSlot DEF SetUnlessNull
    <3> QED
      BY <1>1, <2>2, <2>3, <2>4, <2>7, <3>1 DEF ListInv, ListTypeOK
  <2> QED
    BY <2>6, <2>7
<1>4. keepalive_next[c] = IF k = Len(o) THEN NoConn ELSE o[k + 1]
  BY DEF Chained
<1>5. \A i \in 1 .. Len(p) :
        LET m == IF i < k THEN i ELSE i + 1
        IN p[i] = o[m] /\ m \in 1 .. Len(o) /\ m # k
  BY <1>1, <1>2
<1>6. \A i, j \in 1 .. Len(p) : p[i] = p[j] => i = j
  <2> TAKE i, j \in 1 .. Len(p)
  <2> DEFINE m == IF i < k THEN i ELSE i + 1
             n == IF j < k THEN j ELSE j + 1
  <2>1. p[i] = o[m] /\ m \in 1 .. Len(o) /\ p[j] = o[n] /\ n \in 1 .. Len(o)
    BY <1>5
  <2>2. m = n => i = j
    BY <1>1, <1>2
  <2> HIDE DEF m, n
  <2>3. o[m] = o[n] => m = n
    BY <1>0, <2>1
  <2> QED
    BY <2>1, <2>2, <2>3
<1>7. \A d \in Slots : in_keepalive_list'[d] <=> \E i \in 1 .. Len(p) : p[i] = d
  <2> SUFFICES ASSUME NEW d \in Slots
               PROVE  in_keepalive_list'[d] <=> \E i \in 1 .. Len(p) : p[i] = d
    OBVIOUS
  <2>1. in_keepalive_list'[d] <=> \E m \in 1 .. Len(o) : m # k /\ o[m] = d
    <3>1. CASE d = c
      BY <1>0, <1>3, <3>1
    <3>2. CASE d # c
      BY <1>0, <1>3, <3>2
    <3> QED
      BY <3>1, <3>2
  <2>2. ASSUME NEW m \in 1 .. Len(o), m # k, o[m] = d
        PROVE  \E i \in 1 .. Len(p) : p[i] = d
    <3>1. CASE m < k
      BY <1>1, <1>2, <2>2, <3>1
    <3>2. CASE m > k
      <4>1. m - 1 \in 1 .. Len(p) /\ ~(m - 1 < k) /\ (m - 1) + 1 = m
        BY <1>1, <1>2, <3>2
      <4> QED
        BY <1>2, <2>2, <4>1
    <3> QED
      BY <2>2, <3>1, <3>2
  <2>3. ASSUME NEW i \in 1 .. Len(p), p[i] = d
        PROVE  \E m \in 1 .. Len(o) : m # k /\ o[m] = d
    BY <1>5, <2>3
  <2>4. (\E m \in 1 .. Len(o) : m # k /\ o[m] = d) <=> \E i \in 1 .. Len(p) : p[i] = d
    BY <2>2, <2>3
  <2> QED
    BY <2>1, <2>4
<1>8. keepalive_head' = IF Len(p) = 0 THEN NoConn ELSE p[1]
  BY <1>1, <1>2, <1>3, <1>4 DEF Chained
<1>9. \A i \in 1 .. Len(p) :
        keepalive_next'[p[i]] = IF i = Len(p) THEN NoConn ELSE p[i + 1]
  <2> SUFFICES ASSUME NEW i \in 1 .. Len(p)
               PROVE  keepalive_next'[p[i]] = IF i = Len(p) THEN NoConn ELSE p[i + 1]
    OBVIOUS
  <2>1. i # Len(p) => i + 1 \in 1 .. Len(o) - 1 /\ i + 1 \in 1 .. Len(p)
    BY <1>1, <1>2
  <2>2. CASE i < k - 1
    <3>1. i \in 1 .. Len(o) /\ p[i] = o[i] /\ p[i] \in Slots /\ i # k /\ k - 1 \in 1 .. Len(o)
      BY <1>1, <1>2, <2>2
    <3>2. o[i] # c /\ o[i] # o[k - 1]
      BY <2>2, <3>1 DEF Chained
    <3>3. keepalive_next'[p[i]] = keepalive_next[o[i]]
      BY <1>3, <3>1, <3>2
    <3>4. keepalive_next[o[i]] = o[i + 1]
      BY <1>1, <2>2, <3>1 DEF Chained
    <3>5. i # Len(p) /\ p[i + 1] = o[i + 1]
      BY <1>1, <1>2, <2>1, <2>2
    <3> QED
      BY <3>3, <3>4, <3>5
  <2>3. CASE i = k - 1
    <3>1. i \in 1 .. Len(o) /\ p[i] = o[k - 1] /\ p[i] \in Slots /\ k # 1 /\ i # k
      BY <1>1, <1>2, <2>3
    <3>2. o[k - 1] # c
      BY <2>3, <3>1 DEF Chained
    <3>3. keepalive_next'[p[i]] = keepalive_next[c]
      BY <1>3, <3>1, <3>2
    <3>4. i # Len(p) => p[i + 1] = o[k + 1]
      BY <1>1, <1>2, <2>1, <2>3
    <3> QED
      BY <1>1, <1>2, <1>4, <2>3, <3>3, <3>4
  <2>4. CASE i >= k
    <3>1. i + 1 \in 1 .. Len(o) /\ p[i] = o[i + 1] /\ p[i] \in Slots /\ i + 1 # k /\ i + 1 # k - 1
      BY <1>1, <1>2, <2>4
    <3>2. o[i + 1] # c /\ (k # 1 => o[i + 1] # o[k - 1])
      BY <1>1, <3>1 DEF Chained
    <3>3. keepalive_next'[p[i]] = keepalive_next[o[i + 1]]
      BY <1>3, <3>1, <3>2
    <3>4. keepalive_next[o[i + 1]] = IF i + 1 = Len(o) THEN NoConn ELSE o[(i + 1) + 1]
      BY <3>1 DEF Chained
    <3>5. i # Len(p) => p[i + 1] = o[(i + 1) + 1]
      BY <1>1, <1>2, <2>1, <2>4
    <3> QED
      BY <1>1, <1>2, <3>3, <3>4, <3>5
  <2> QED
    BY <1>1, <1>2, <2>2, <2>3, <2>4
<1>10. Chained(p)'
  BY <1>2, <1>6, <1>7, <1>8, <1>9 DEF Chained
<1> QED
  BY <1>10 DEF p

\* A chain is no longer than the array of connections.
LEMMA ChainFits ==
  ASSUME NEW o, Chained(o)
  PROVE  Len(o) \in 0 .. MAX_CONNECTIONS
<1>1. o \in Seq(Slots) /\ Len(o) \in Nat
  BY DEF Chained
<1>2. o \in Injection(1 .. Len(o), Slots)
  BY <1>1 DEF Chained, Injection, IsInjective
<1>3. /\ IsFiniteSet(Slots) /\ Cardinality(Slots) = MAX_CONNECTIONS
      /\ IsFiniteSet(1 .. Len(o)) /\ Cardinality(1 .. Len(o)) = Len(o)
  <2>1. /\ IsFiniteSet(0 .. MAX_CONNECTIONS - 1)
        /\ Cardinality(0 .. MAX_CONNECTIONS - 1) = MAX_CONNECTIONS
    BY PoolAssumption, FS_Interval
  <2>2. IsFiniteSet(1 .. Len(o)) /\ Cardinality(1 .. Len(o)) = Len(o)
    BY <1>1, FS_Interval
  <2> QED
    BY <2>1, <2>2 DEF Slots
<1>4. Cardinality(1 .. Len(o)) <= Cardinality(Slots)
  BY <1>2, <1>3, FS_Injection
<1> QED
  BY <1>1, <1>3, <1>4, PoolAssumption

\* Every operation of the list keeps it one chain.
LEMMA ChainNext ==
  ASSUME ChainInv, [ListNext]_listVars
  PROVE  ChainInv'
<1>1. ListInv'
  <2>1. CASE ListNext
    BY <2>1, AddInv, RemoveInv, ClearInv DEF ChainInv, ListNext
  <2>2. CASE UNCHANGED listVars
    BY <2>2 DEF ChainInv, ListInv, ListTypeOK, LinksAgree, listVars
  <2> QED
    BY <2>1, <2>2
<1>2. PICK o : Chained(o)
  BY DEF ChainInv
<1>3. o \in Seq(Slots)
  BY <1>2 DEF Chained
<1>4. ASSUME UNCHANGED listVars PROVE Chained(o)'
  BY <1>2, <1>4 DEF Chained, listVars
<1>5. \E p : Chained(p)'
  <2>1. ASSUME NEW c \in Slots, AddToKeepAliveList(c) PROVE \E p : Chained(p)'
    <3>1. CASE in_keepalive_list[c]
      BY <1>4, <2>1, <3>1 DEF AddToKeepAliveList
    <3>2. CASE ~in_keepalive_list[c]
      BY <1>2, <2>1, <3>2, AddChained DEF ChainInv
    <3> QED
      BY <3>1, <3>2
  <2>2. ASSUME NEW c \in Slots, RemoveFromKeepAliveList(c) PROVE \E p : Chained(p)'
    <3>1. CASE ~in_keepalive_list[c]
      BY <1>4, <2>2, <3>1 DEF RemoveFromKeepAliveList
    <3>2. CASE in_keepalive_list[c]
      <4>1. PICK k \in 1 .. Len(o) : o[k] = c
        BY <1>2, <3>2 DEF Chained
      <4> QED
        BY <1>2, <2>2, <4>1, RemoveChained DEF ChainInv
    <3> QED
      BY <3>1, <3>2
  <2>3. ASSUME NEW c \in Slots, ~in_keepalive_list[c], ClearListNode(c)
        PROVE  \E p : Chained(p)'
    <3>1. UNCHANGED listVars
      BY <2>3 DEF ClearListNode, ChainInv, ListInv, ListTypeOK, LinksAgree, listVars
    <3> QED
      BY <1>4, <3>1
  <2> QED
    BY <1>4, <2>1, <2>2, <2>3 DEF ListNext
<1> QED
  BY <1>1, <1>5 DEF ChainInv

\* An empty list is an empty chain.
LEMMA ChainInit == ListInit => ChainInv
<1> SUFFICES ASSUME ListInit PROVE ChainInv
  OBVIOUS
<1>1. Chained(<<>>)
  BY DEF ListInit, Chained
<1> QED
  BY <1>1, ListInitInv DEF ChainInv

\* The list always is one chain.
THEOREM ChainInvariance == ListSpec => []ChainInv
<1>1. ChainInv /\ [ListNext]_listVars => ChainInv'
  BY ChainNext
<1> QED
  BY <1>1, ChainInit, PTL DEF ListSpec

--------------------------------------------------------------------------------
(* The walk of the sweep.                                                      *)

WalkStep(f, n) ==
  IF n = 0 THEN keepalive_head
  ELSE IF f[n - 1] = NoConn THEN NoConn ELSE keepalive_next[f[n - 1]]

\* The recursive definition of Visit defines a function.
LEMMA VisitDefined ==
  \A n \in 0 .. MAX_CONNECTIONS : Visit[n] = WalkStep(Visit, n)
<1> DEFINE Walk(f, m) == f = [n \in 0 .. m |-> WalkStep(f, n)]
           T == {m \in Nat : \E f : Walk(f, m)}
<1>1. 0 \in T
  <2>1. Walk([n \in 0 .. 0 |-> keepalive_head], 0)
    BY DEF WalkStep
  <2> QED
    BY <2>1
<1>2. ASSUME NEW m \in T PROVE m + 1 \in T
  <2>1. m \in Nat
    OBVIOUS
  <2>2. PICK f : f = [n \in 0 .. m |-> WalkStep(f, n)]
    OBVIOUS
  <2> HIDE DEF T
  <2> DEFINE g == [n \in 0 .. m + 1 |-> IF n = m + 1 THEN WalkStep(f, n) ELSE f[n]]
  <2>3. ASSUME NEW n \in 0 .. m + 1 PROVE g[n] = WalkStep(g, n)
    <3>1. n # 0 => n - 1 \in 0 .. m /\ n - 1 # m + 1
      BY <2>1
    <3>2. n # 0 => g[n - 1] = f[n - 1]
      BY <2>1, <3>1
    <3>3. WalkStep(g, n) = WalkStep(f, n)
      BY <3>2 DEF WalkStep
    <3>4. n # m + 1 => f[n] = WalkStep(f, n)
      BY <2>1, <2>2
    <3> QED
      BY <3>3, <3>4
  <2>4. g = [n \in 0 .. m + 1 |-> WalkStep(g, n)]
    BY <2>3
  <2> HIDE DEF g
  <2> QED
    BY <2>1, <2>4 DEF T
<1>3. T = Nat
  <2> HIDE DEF T
  <2>1. T \in SUBSET Nat
    BY DEF T
  <2> QED
    BY <1>1, <1>2, <2>1, NatSetInduction
<1>4. \E f : Walk(f, MAX_CONNECTIONS)
  BY <1>3, PoolAssumption
<1>5. Visit = CHOOSE f : Walk(f, MAX_CONNECTIONS)
  BY Zenon DEF Visit, WalkStep
<1>6. Walk(Visit, MAX_CONNECTIONS)
  BY <1>4, <1>5, Zenon
<1> QED
  BY <1>6

\* The walk passes the nodes of the chain in order and ends in nullptr.
LEMMA WalkFollowsChain ==
  ASSUME NEW o, Chained(o)
  PROVE  \A n \in 0 .. MAX_CONNECTIONS :
           Visit[n] = IF n < Len(o) THEN o[n + 1] ELSE NoConn
<1>1. o \in Seq(Slots) /\ Len(o) \in Nat
  BY DEF Chained
<1> DEFINE At(n) == Visit[n] = IF n < Len(o) THEN o[n + 1] ELSE NoConn
           T == {n \in Nat : n <= MAX_CONNECTIONS => At(n)}
<1>2. 0 \in T
  BY <1>1, VisitDefined, PoolAssumption DEF WalkStep, Chained
<1>3. ASSUME NEW n \in T PROVE n + 1 \in T
  <2> SUFFICES ASSUME n + 1 <= MAX_CONNECTIONS PROVE At(n + 1)
    OBVIOUS
  <2>1. n \in Nat /\ n + 1 \in 0 .. MAX_CONNECTIONS /\ (n + 1) - 1 = n /\ At(n)
    BY PoolAssumption
  <2>2. Visit[n + 1] = IF Visit[n] = NoConn THEN NoConn ELSE keepalive_next[Visit[n]]
    BY <2>1, VisitDefined DEF WalkStep
  <2>3. CASE n < Len(o)
    <3>1. n + 1 \in 1 .. Len(o) /\ o[n + 1] \in Slots /\ Visit[n] = o[n + 1]
      BY <1>1, <2>1, <2>3
    <3>2. keepalive_next[o[n + 1]] = IF n + 1 = Len(o) THEN NoConn ELSE o[(n + 1) + 1]
      BY <3>1 DEF Chained
    <3> QED
      BY <1>1, <2>1, <2>2, <2>3, <3>1, <3>2, NullIsNoSlot
  <2>4. CASE ~(n < Len(o))
    BY <1>1, <2>1, <2>2, <2>4
  <2> QED
    BY <2>3, <2>4
<1>4. T = Nat
  <2> HIDE DEF T
  <2>1. T \in SUBSET Nat
    BY DEF T
  <2> QED
    BY <1>2, <1>3, <2>1, NatSetInduction
<1> QED
  BY <1>4, PoolAssumption

\* A chain is what the walk passes, all of it.
LEMMA ChainIsWalked == ChainInv => WalkVisitsEveryMember
<1> SUFFICES ASSUME ChainInv PROVE WalkVisitsEveryMember
  OBVIOUS
<1>1. PICK o : Chained(o)
  BY DEF ChainInv
<1>2. /\ o \in Seq(Slots) /\ Len(o) \in Nat /\ Len(o) <= MAX_CONNECTIONS
      /\ \A c \in Slots : in_keepalive_list[c] <=> \E i \in 1 .. Len(o) : o[i] = c
  BY <1>1, ChainFits DEF Chained
<1>3. \A n \in 0 .. MAX_CONNECTIONS :
        Visit[n] = IF n < Len(o) THEN o[n + 1] ELSE NoConn
  BY <1>1, WalkFollowsChain
<1>4. Visit[MAX_CONNECTIONS] = NoConn
  BY <1>2, <1>3, PoolAssumption
<1>5. ASSUME NEW c \in Slots, in_keepalive_list[c]
      PROVE  c \in {Visit[n] : n \in 0 .. MAX_CONNECTIONS} \ {NoConn}
  <2>1. PICK i \in 1 .. Len(o) : o[i] = c
    BY <1>2, <1>5
  <2>2. i - 1 \in 0 .. MAX_CONNECTIONS /\ i - 1 < Len(o) /\ (i - 1) + 1 = i
    BY <1>2, PoolAssumption
  <2>3. Visit[i - 1] = c
    BY <1>3, <2>1, <2>2
  <2> QED
    BY <2>2, <2>3, NullIsNoSlot
<1>6. ASSUME NEW n \in 0 .. MAX_CONNECTIONS, Visit[n] # NoConn
      PROVE  Visit[n] \in Slots /\ in_keepalive_list[Visit[n]]
  <2>1. n < Len(o) /\ Visit[n] = o[n + 1] /\ n + 1 \in 1 .. Len(o)
    BY <1>2, <1>3, <1>6
  <2> QED
    BY <1>2, <2>1
<1> QED
  BY <1>4, <1>5, <1>6 DEF WalkVisitsEveryMember

\* The sweep of handle_timer sees every idle connection, and its walk ends: the
\* list has no cycle and no member apart from the chain at its head.
THEOREM WalkAlwaysComplete == ListSpec => []WalkVisitsEveryMember
BY ChainIsWalked, ChainInvariance, PTL

--------------------------------------------------------------------------------
(* The list implements RecencyList.                                            *)

Order == [i \in 1 .. Length |-> Visit[i - 1]]

\* The sequence that the refinement reads off the pointers is the chain.
LEMMA OrderIsChain ==
  ASSUME NEW o, Chained(o)
  PROVE  Order = o
<1>1. o \in Seq(Slots) /\ Len(o) \in 0 .. MAX_CONNECTIONS /\ Len(o) \in Nat
  BY ChainFits DEF Chained
<1>2. \A n \in 0 .. MAX_CONNECTIONS :
        Visit[n] = IF n < Len(o) THEN o[n + 1] ELSE NoConn
  BY WalkFollowsChain
<1>3. \A n \in 0 .. MAX_CONNECTIONS : Visit[n] = NoConn <=> n >= Len(o)
  <2> TAKE n \in 0 .. MAX_CONNECTIONS
  <2>1. n < Len(o) => n + 1 \in 1 .. Len(o) /\ o[n + 1] \in Slots
    BY <1>1
  <2> QED
    BY <1>1, <1>2, <2>1, NullIsNoSlot
<1>4. \A n \in 0 .. MAX_CONNECTIONS :
        (Visit[n] = NoConn /\ \A m \in 0 .. n - 1 : Visit[m] # NoConn) <=> n = Len(o)
  <2> TAKE n \in 0 .. MAX_CONNECTIONS
  <2>1. \A m \in 0 .. n - 1 : m \in 0 .. MAX_CONNECTIONS
    BY PoolAssumption
  <2>2. CASE n = Len(o)
    BY <1>1, <1>3, <2>1, <2>2
  <2>3. CASE n < Len(o)
    BY <1>1, <1>3, <2>3
  <2>4. CASE n > Len(o)
    <3>1. Len(o) \in 0 .. n - 1
      BY <1>1, <2>4
    <3> QED
      BY <1>1, <1>3, <2>4, <3>1
  <2> QED
    BY <1>1, <2>2, <2>3, <2>4
<1>5. Length = Len(o)
  BY <1>1, <1>4 DEF Length
<1>6. \A i \in 1 .. Len(o) : Visit[i - 1] = o[i]
  <2> TAKE i \in 1 .. Len(o)
  <2>1. i - 1 \in 0 .. MAX_CONNECTIONS /\ i - 1 < Len(o) /\ (i - 1) + 1 = i
    BY <1>1, PoolAssumption
  <2> QED
    BY <1>2, <2>1
<1>7. o = [i \in 1 .. Len(o) |-> o[i]]
  BY <1>1
<1> QED
  BY <1>5, <1>6, <1>7 DEF Order


OrderFollowsChain == \A o : Chained(o) => Order = o

\* The same of the state after a step.
LEMMA NextOrderIsChain == OrderFollowsChain'
<1>1. OrderFollowsChain
  BY OrderIsChain DEF OrderFollowsChain
<1> QED
  BY <1>1, PTL

\* add_to_keepalive_list is Insert, remove_from_keepalive_list is Drop, and
\* whatever leaves the links alone leaves the sequence alone.
LEMMA OrderSteps ==
  ASSUME ChainInv, [ListNext]_listVars
  PROVE  [\E c \in Slots : Recency!Insert(c) \/ Recency!Drop(c)]_Order
<1>1. PICK o : Chained(o)
  BY DEF ChainInv
<1>2. o \in Seq(Slots) /\ Order = o
  BY <1>1, OrderIsChain DEF Chained
<1>3. \A p : Chained(p)' => Order' = p
  BY NextOrderIsChain DEF OrderFollowsChain
<1>4. UNCHANGED listVars => UNCHANGED Order
  <2> SUFFICES ASSUME UNCHANGED listVars PROVE Chained(o)'
    BY <1>2, <1>3
  <2> QED
    BY <1>1 DEF Chained, listVars
<1>5. ASSUME NEW c \in Slots, AddToKeepAliveList(c), ~in_keepalive_list[c]
      PROVE  Recency!Insert(c)
  <2>1. Chained(<<c>> \o o)'
    BY <1>1, <1>5, AddChained DEF ChainInv
  <2>2. Order' = <<c>> \o o
    BY <1>3, <2>1
  <2>3. c \notin {o[i] : i \in DOMAIN o}
    BY <1>1, <1>2, <1>5 DEF Chained
  <2> QED
    BY <1>2, <2>2, <2>3 DEF Recency!Insert, Recency!ToSet, Order
<1>6. ASSUME NEW c \in Slots, RemoveFromKeepAliveList(c), in_keepalive_list[c]
      PROVE  Recency!Drop(c)
  <2>1. PICK k \in 1 .. Len(o) : o[k] = c
    BY <1>1, <1>6 DEF Chained
  <2>2. Chained(SubSeq(o, 1, k - 1) \o SubSeq(o, k + 1, Len(o)))'
    BY <1>1, <1>6, <2>1, RemoveChained DEF ChainInv
  <2>3. Order' = SubSeq(o, 1, k - 1) \o SubSeq(o, k + 1, Len(o))
    BY <1>3, <2>2
  <2>4. k \in DOMAIN o
    BY <1>2
  <2> QED
    BY <1>2, <2>1, <2>3, <2>4 DEF Recency!Drop, Recency!RemoveAt, Order
<1>7. CASE UNCHANGED listVars
  BY <1>4, <1>7
<1>8. CASE ListNext
  <2>1. ASSUME NEW c \in Slots, ~in_keepalive_list[c], ClearListNode(c)
        PROVE  UNCHANGED listVars
    BY <2>1 DEF ClearListNode, ChainInv, ListInv, ListTypeOK, LinksAgree, listVars
  <2>2. ASSUME NEW c \in Slots, AddToKeepAliveList(c), in_keepalive_list[c]
        PROVE  UNCHANGED listVars
    BY <2>2 DEF AddToKeepAliveList
  <2>3. ASSUME NEW c \in Slots, RemoveFromKeepAliveList(c), ~in_keepalive_list[c]
        PROVE  UNCHANGED listVars
    BY <2>3 DEF RemoveFromKeepAliveList
  <2> QED
    BY <1>4, <1>5, <1>6, <1>8, <2>1, <2>2, <2>3 DEF ListNext
<1> QED
  BY <1>7, <1>8

\* The intrusive list implements RecencyList: each connection at most once, the
\* one that became idle last in front, and a removal takes out that one alone.
THEOREM ListImplementsRecency == ListSpec => RecencySpec
<1>1. ListInit => Recency!Init
  <2> SUFFICES ASSUME ListInit PROVE Order = <<>>
    BY DEF Recency!Init, Order
  <2>1. Chained(<<>>)
    BY DEF ListInit, Chained
  <2> QED
    BY <2>1, OrderIsChain
<1>2. ChainInv /\ [ListNext]_listVars => [Recency!Next]_Order
  BY OrderSteps DEF Recency!Next
<1> QED
  BY <1>1, <1>2, ChainInvariance, PTL DEF ListSpec, RecencySpec, Recency!Spec, Order

================================================================================
