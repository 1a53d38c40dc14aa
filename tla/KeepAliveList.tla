----------------------------- MODULE KeepAliveList -----------------------------
(* The intrusive doubly linked list of EventLoop: the nodes are members of     *)
(* Connection (keepalive_prev_, keepalive_next_, in_keepalive_list_), the head *)
(* is a member of the loop. Insertion and removal are idempotent.              *)
EXTENDS PoolSlots

VARIABLES
  keepalive_head,     \* EventLoop::keepalive_head_
  keepalive_prev,     \* Connection::keepalive_prev_
  keepalive_next,     \* Connection::keepalive_next_
  in_keepalive_list   \* Connection::in_keepalive_list_

listVars == <<keepalive_head, keepalive_prev, keepalive_next, in_keepalive_list>>

--------------------------------------------------------------------------------
ListInit ==
  /\ keepalive_head = NoConn
  /\ keepalive_prev = [c \in Slots |-> NoConn]
  /\ keepalive_next = [c \in Slots |-> NoConn]
  /\ in_keepalive_list = [c \in Slots |-> FALSE]

\* p->member = v under "if (p)".
SetUnlessNull(f, p, v) == IF p = NoConn THEN f ELSE [f EXCEPT ![p] = v]

\* Mutant: the old head does not learn of its new predecessor.
AddWithoutBackLink(c) ==
  IF in_keepalive_list[c]
  THEN UNCHANGED listVars
  ELSE /\ in_keepalive_list' = [in_keepalive_list EXCEPT ![c] = TRUE]
       /\ keepalive_prev' = [keepalive_prev EXCEPT ![c] = NoConn]
       /\ keepalive_next' = [keepalive_next EXCEPT ![c] = keepalive_head]
       /\ keepalive_head' = c

\* add_to_keepalive_list(c): c becomes the head.
AddToKeepAliveList(c) ==
  IF in_keepalive_list[c]
  THEN UNCHANGED listVars
  ELSE /\ in_keepalive_list' = [in_keepalive_list EXCEPT ![c] = TRUE]
       /\ keepalive_prev' =
            SetUnlessNull([keepalive_prev EXCEPT ![c] = NoConn], keepalive_head, c)
       /\ keepalive_next' = [keepalive_next EXCEPT ![c] = keepalive_head]
       /\ keepalive_head' = c

\* Mutant: removing the first node leaves the head where it was.
RemoveKeepingHead(c) ==
  IF ~in_keepalive_list[c]
  THEN UNCHANGED listVars
  ELSE LET p == keepalive_prev[c]
           n == keepalive_next[c]
       IN /\ in_keepalive_list' = [in_keepalive_list EXCEPT ![c] = FALSE]
          /\ keepalive_next' =
               [SetUnlessNull(keepalive_next, p, n) EXCEPT ![c] = NoConn]
          /\ keepalive_prev' =
               [SetUnlessNull(keepalive_prev, n, p) EXCEPT ![c] = NoConn]
          /\ UNCHANGED keepalive_head

\* remove_from_keepalive_list(c): the neighbours of c are joined.
RemoveFromKeepAliveList(c) ==
  IF ~in_keepalive_list[c]
  THEN UNCHANGED listVars
  ELSE LET p == keepalive_prev[c]
           n == keepalive_next[c]
       IN /\ in_keepalive_list' = [in_keepalive_list EXCEPT ![c] = FALSE]
          /\ keepalive_next' =
               [SetUnlessNull(keepalive_next, p, n) EXCEPT ![c] = NoConn]
          /\ keepalive_head' = IF p = NoConn THEN n ELSE keepalive_head
          /\ keepalive_prev' =
               [SetUnlessNull(keepalive_prev, n, p) EXCEPT ![c] = NoConn]

\* The part of Connection::init() that clears the node of a fresh connection,
\* without unlinking it.
ClearListNode(c) ==
  /\ keepalive_prev' = [keepalive_prev EXCEPT ![c] = NoConn]
  /\ keepalive_next' = [keepalive_next EXCEPT ![c] = NoConn]
  /\ in_keepalive_list' = [in_keepalive_list EXCEPT ![c] = FALSE]
  /\ UNCHANGED keepalive_head

\* The loop initialises only connections it removed before.
ListNext ==
  \E c \in Slots : \/ AddToKeepAliveList(c)
                   \/ RemoveFromKeepAliveList(c)
                   \/ ~in_keepalive_list[c] /\ ClearListNode(c)

ListSpec == ListInit /\ [][ListNext]_listVars

--------------------------------------------------------------------------------
Pointers == Slots \union {NoConn}

\* Types of the pointers.
ListTypeOK ==
  /\ keepalive_head \in Pointers
  /\ keepalive_prev \in [Slots -> Pointers]
  /\ keepalive_next \in [Slots -> Pointers]
  /\ in_keepalive_list \in [Slots -> BOOLEAN]

\* The two directions agree node by node, the head is the only member without
\* a predecessor, and a node outside the list points nowhere: what the pointer
\* surgery of add and remove must keep in every order of calls.
LinksAgree ==
  /\ keepalive_head # NoConn =>
       in_keepalive_list[keepalive_head] /\ keepalive_prev[keepalive_head] = NoConn
  /\ \A c \in Slots :
       IF in_keepalive_list[c]
       THEN /\ keepalive_prev[c] = NoConn => keepalive_head = c
            /\ keepalive_prev[c] # NoConn =>
                 /\ in_keepalive_list[keepalive_prev[c]]
                 /\ keepalive_next[keepalive_prev[c]] = c
            /\ keepalive_next[c] # NoConn =>
                 /\ in_keepalive_list[keepalive_next[c]]
                 /\ keepalive_prev[keepalive_next[c]] = c
       ELSE keepalive_prev[c] = NoConn /\ keepalive_next[c] = NoConn

\* What the sweep of handle_timer visits after n steps from the head.
Visit[n \in 0 .. MAX_CONNECTIONS] ==
  IF n = 0 THEN keepalive_head
  ELSE IF Visit[n - 1] = NoConn THEN NoConn ELSE keepalive_next[Visit[n - 1]]

Length == CHOOSE n \in 0 .. MAX_CONNECTIONS :
            Visit[n] = NoConn /\ \A m \in 0 .. n - 1 : Visit[m] # NoConn

\* A walk from the head reaches nullptr and passes every member: no cycle, and
\* no idle connection that the sweep of handle_timer cannot see.
WalkVisitsEveryMember ==
  /\ Visit[MAX_CONNECTIONS] = NoConn
  /\ {c \in Slots : in_keepalive_list[c]} =
       {Visit[n] : n \in 0 .. MAX_CONNECTIONS} \ {NoConn}

\* The list as a sequence; the pointers implement RecencyList.
Recency == INSTANCE RecencyList
             WITH Conns <- Slots, order <- [i \in 1 .. Length |-> Visit[i - 1]]
RecencySpec == Recency!Spec
================================================================================
