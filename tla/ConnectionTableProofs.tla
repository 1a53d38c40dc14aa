------------------------- MODULE ConnectionTableProofs --------------------------
(* The table is a pool and a list at once, for every number of slots. That a   *)
(* step of the table is a step of the list needs MembersAreLent: acquire()     *)
(* hands out a slot that is not lent, so Connection::init clears a node that   *)
(* is outside the list. What the two components promise then holds of the      *)
(* table as it stands.                                                         *)
EXTENDS ConnectionTable, ConnectionPoolProofs, KeepAliveListProofs

TableInv == PoolInv /\ ListInv /\ MembersAreLent

\* create_connection takes a slot whose node is clear already.
LEMMA OpenInv ==
  ASSUME TableInv, NEW s \in Slots, TableOpen(s)
  PROVE  TableInv' /\ ~in_keepalive_list[s]
<1>1. PoolInv' /\ s \notin lent
  BY AcquireInv DEF TableInv, TableOpen
<1>2. ~in_keepalive_list[s]
  BY <1>1 DEF TableInv, MembersAreLent
<1>3. ListInv'
  BY <1>2, ClearInv DEF TableInv, TableOpen
<1>4. MembersAreLent'
  <2>1. lent \subseteq lent'
    BY DEF TableOpen, Acquire
  <2>2. \A c \in Slots : in_keepalive_list'[c] => in_keepalive_list[c]
    BY DEF TableOpen, ClearListNode, TableInv, ListInv, ListTypeOK
  <2> QED
    BY <2>1, <2>2 DEF TableInv, MembersAreLent
<1> QED
  BY <1>1, <1>2, <1>3, <1>4 DEF TableInv

\* A slot that is lent enters the list.
LEMMA IdleInv ==
  ASSUME TableInv, NEW s \in Slots, TableIdle(s)
  PROVE  TableInv'
<1>1. PoolInv'
  BY PoolNextInv DEF TableInv, TableIdle
<1>2. ListInv'
  BY AddInv DEF TableInv, TableIdle
<1>3. MembersAreLent'
  <2>1. lent' = lent
    BY DEF TableIdle, poolVars
  <2>2. \A c \in Slots : in_keepalive_list'[c] => in_keepalive_list[c] \/ c = s
    BY DEF TableIdle, AddToKeepAliveList, TableInv, ListInv, ListTypeOK, listVars
  <2> QED
    BY <2>1, <2>2 DEF TableInv, MembersAreLent, TableIdle
<1> QED
  BY <1>1, <1>2, <1>3 DEF TableInv

\* What remove_from_keepalive_list leaves in the list.
LEMMA Removed ==
  ASSUME ListInv, NEW s \in Slots, RemoveFromKeepAliveList(s)
  PROVE  \A c \in Slots : in_keepalive_list'[c] <=> in_keepalive_list[c] /\ c # s
<1>1. CASE in_keepalive_list[s]
  BY <1>1 DEF RemoveFromKeepAliveList, ListInv, ListTypeOK
<1>2. CASE ~in_keepalive_list[s]
  BY <1>2 DEF RemoveFromKeepAliveList, listVars
<1> QED
  BY <1>1, <1>2

\* A slot leaves the list.
LEMMA BusyInv ==
  ASSUME TableInv, NEW s \in Slots, TableBusy(s)
  PROVE  TableInv'
<1>1. PoolInv'
  BY PoolNextInv DEF TableInv, TableBusy
<1>2. ListInv'
  BY RemoveInv DEF TableInv, TableBusy
<1>3. MembersAreLent'
  BY Removed DEF TableInv, TableBusy, MembersAreLent, poolVars
<1> QED
  BY <1>1, <1>2, <1>3 DEF TableInv

\* destroy_connection unlinks the node before it gives the slot back.
LEMMA DestroyInv ==
  ASSUME TableInv, NEW s \in Slots, TableDestroy(s)
  PROVE  TableInv'
<1>1. PoolInv'
  BY ReleaseInv DEF TableInv, TableDestroy
<1>2. ListInv'
  BY RemoveInv DEF TableInv, TableDestroy
<1>3. MembersAreLent'
  BY Removed DEF TableInv, TableDestroy, MembersAreLent, Release
<1> QED
  BY <1>1, <1>2, <1>3 DEF TableInv

\* The inductive invariant of the table.
LEMMA TableNextInv == TableInv /\ [TableNext]_tableVars => TableInv'
<1> SUFFICES ASSUME TableInv, [TableNext]_tableVars PROVE TableInv'
  OBVIOUS
<1>1. ASSUME UNCHANGED tableVars PROVE TableInv'
  <2>1. UNCHANGED poolVars /\ UNCHANGED listVars
    BY <1>1 DEF tableVars
  <2>2. PoolInv'
    BY <2>1, PoolNextInv DEF TableInv
  <2>3. ListInv'
    BY <2>1 DEF TableInv, listVars, ListInv, ListTypeOK, LinksAgree
  <2> QED
    BY <2>1, <2>2, <2>3 DEF TableInv, MembersAreLent, poolVars, listVars
<1>2. ASSUME TableRefuse PROVE UNCHANGED tableVars
  BY <1>2 DEF TableRefuse, AcquireFull, tableVars
<1> QED
  BY <1>1, <1>2, OpenInv, IdleInv, BusyInv, DestroyInv DEF TableNext

\* It holds in every reachable state.
THEOREM TableInvariance == TableSpec => []TableInv
<1>1. TableInit => TableInv
  BY PoolInitInv, ListInitInv DEF TableInit, TableInv, MembersAreLent, ListInit
<1> QED
  BY <1>1, TableNextInv, PTL DEF TableSpec

\* No free slot is linked: none is destroyed by a sweep, and none has its node
\* cleared under its neighbours when it is handed out again.
THEOREM MembersAlwaysLent == TableSpec => []MembersAreLent
<1>1. TableInv => MembersAreLent
  BY DEF TableInv
<1> QED
  BY <1>1, TableInvariance, PTL

--------------------------------------------------------------------------------
\* A step of the table is a step of the pool, and takes back only what is lent.
THEOREM TableImplementsPool == TableSpec => PoolSpec
<1>1. TableInit => PoolInit
  BY DEF TableInit
<1>2. [TableNext]_tableVars => [PoolNext]_poolVars
  BY DEF TableNext, TableRefuse, TableOpen, TableIdle, TableBusy, TableDestroy,
         PoolNext, tableVars
<1> QED
  BY <1>1, <1>2, PTL DEF TableSpec, PoolSpec

\* A step of the table is a step of the list, and initialises only nodes that
\* are outside it.
LEMMA TableStepIsListStep ==
  ASSUME TableInv, [TableNext]_tableVars
  PROVE  [ListNext]_listVars
<1>1. ASSUME NEW s \in Slots, TableOpen(s) PROVE ListNext
  BY <1>1, OpenInv DEF TableOpen, ListNext
<1>2. ASSUME NEW s \in Slots, TableIdle(s) \/ TableBusy(s) \/ TableDestroy(s)
      PROVE  ListNext
  BY <1>2 DEF TableIdle, TableBusy, TableDestroy, ListNext
<1>3. ASSUME TableRefuse \/ UNCHANGED tableVars PROVE UNCHANGED listVars
  BY <1>3 DEF TableRefuse, tableVars
<1> QED
  BY <1>1, <1>2, <1>3 DEF TableNext

\* So the table behaves like a list.
THEOREM TableImplementsList == TableSpec => ListSpec
<1>1. TableInit => ListInit
  BY DEF TableInit
<1>2. TableInv /\ [TableNext]_tableVars => [ListNext]_listVars
  BY TableStepIsListStep
<1> QED
  BY <1>1, <1>2, TableInvariance, PTL DEF TableSpec, ListSpec

\* The pool of the table is exact: types, free stack, count, refusal.
THEOREM TablePoolExact ==
  TableSpec => [](PoolTypeOK /\ FreeStackIsExact /\ ActiveCountIsExact /\ RefusesOnlyWhenAllLent)
BY TableImplementsPool, PoolTypeCorrect, FreeStackCorrect, ActiveCountCorrect,
   RefusalCorrect, PTL

\* The list of the table is linked both ways, and a sweep sees all of it.
THEOREM TableListComplete == TableSpec => [](LinksAgree /\ WalkVisitsEveryMember)
BY TableImplementsList, LinksAlwaysAgree, WalkAlwaysComplete, PTL

\* The table implements the abstract allocator and the abstract list.
THEOREM TableImplementsBoth == TableSpec => AllocatorSpec /\ RecencySpec
BY TableImplementsPool, TableImplementsList, PoolImplementsAllocator, ListImplementsRecency, PTL
================================================================================
