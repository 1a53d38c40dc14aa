---------------------------- MODULE ConnectionTable ----------------------------
(* The pool and the keep-alive list put together as the loop uses them: a slot *)
(* is taken and its node cleared, a lent slot moves in and out of the list,    *)
(* and a slot goes back after its node was unlinked. EventLoop implements      *)
(* TableSpec, with the events, descriptors and states that decide when.        *)
EXTENDS ConnectionPool, KeepAliveList

tableVars == <<poolVars, listVars>>

--------------------------------------------------------------------------------
TableInit == PoolInit /\ ListInit

\* create_connection on the slot s: acquire and Connection::init.
TableOpen(s) == Acquire(s) /\ ClearListNode(s)

\* create_connection on a full pool.
TableRefuse == AcquireFull /\ UNCHANGED listVars

\* process_connection ends in KEEP_ALIVE ...
TableIdle(s) == s \in lent /\ AddToKeepAliveList(s) /\ UNCHANGED poolVars

\* ... or leaves it.
TableBusy(s) == s \in lent /\ RemoveFromKeepAliveList(s) /\ UNCHANGED poolVars

\* Mutant: the slot goes back while its node is still linked.
TableDestroyLinked(s) == s \in lent /\ Release(s) /\ UNCHANGED listVars

\* destroy_connection: unlink, then release.
TableDestroy(s) == s \in lent /\ RemoveFromKeepAliveList(s) /\ Release(s)

TableNext ==
  \/ TableRefuse
  \/ \E s \in Slots : \/ TableOpen(s)
                      \/ TableIdle(s)
                      \/ TableBusy(s)
                      \/ TableDestroy(s)

TableSpec == TableInit /\ [][TableNext]_tableVars

--------------------------------------------------------------------------------
\* Only slots that are lent are members of the list. A free slot that stayed
\* linked would be destroyed by the next sweep, or have its node cleared by
\* Connection::init under its neighbours when acquire() hands it out again.
MembersAreLent == {c \in Slots : in_keepalive_list[c]} \subseteq lent
================================================================================
