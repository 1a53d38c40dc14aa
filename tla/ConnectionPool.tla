---------------------------- MODULE ConnectionPool -----------------------------
(* core/connection_pool.h: a fixed array of connections and a stack of free    *)
(* indices. acquire() pops the stack, release() pushes; neither looks at what  *)
(* the slot is used for, so the pool is only as good as its callers: release() *)
(* "must be given a pointer obtained with acquire". PoolNext obeys that rule;  *)
(* the actions themselves do not check it, exactly as the code does not.       *)
EXTENDS PoolSlots, FiniteSets

VARIABLES
  free_list,     \* free_list_: the stack of free indices
  free_head,     \* free_head_: position of the next index to hand out
  active_count,  \* active_count_
  lent           \* ghost: the slots acquire() returned and release() did not take back

poolVars == <<free_list, free_head, active_count, lent>>

--------------------------------------------------------------------------------
\* size_t arithmetic: 0 - 1 wraps around.
Dec(n) == IF n = 0 THEN SIZE_MAX ELSE n - 1

\* The constructor: every slot is free, lowest index first.
PoolInit ==
  /\ free_list = [i \in Slots |-> i]
  /\ free_head = 0
  /\ active_count = 0
  /\ lent = {}

\* Mutant: the post-increment taken for a pre-increment.
AcquirePreIncrement(s) ==
  /\ free_head < MAX_CONNECTIONS - 1
  /\ s = free_list[free_head + 1]
  /\ free_head' = free_head + 1
  /\ active_count' = active_count + 1
  /\ lent' = lent \union {s}
  /\ UNCHANGED free_list

\* acquire() returns the slot s.
Acquire(s) ==
  /\ free_head < MAX_CONNECTIONS
  /\ s = free_list[free_head]
  /\ free_head' = free_head + 1
  /\ active_count' = active_count + 1
  /\ lent' = lent \union {s}
  /\ UNCHANGED free_list

\* acquire() returns nullptr.
AcquireFull ==
  /\ free_head >= MAX_CONNECTIONS
  /\ UNCHANGED poolVars

\* Mutant: release() stores before it moves the head back.
ReleasePostDecrement(s) ==
  /\ free_list' = IF free_head \in Slots
                    THEN [free_list EXCEPT ![free_head] = s] ELSE free_list
  /\ free_head' = Dec(free_head)
  /\ active_count' = Dec(active_count)
  /\ lent' = lent \ {s}

\* Mutant: release() forgets the counter.
ReleaseUncounted(s) ==
  /\ free_list' = IF Dec(free_head) \in Slots
                    THEN [free_list EXCEPT ![Dec(free_head)] = s] ELSE free_list
  /\ free_head' = Dec(free_head)
  /\ lent' = lent \ {s}
  /\ UNCHANGED active_count

\* release(s). A store past the end of free_list_ (free_head_ wrapped around)
\* hits memory outside the pool and leaves free_list_ as it was.
Release(s) ==
  /\ free_list' = IF Dec(free_head) \in Slots
                    THEN [free_list EXCEPT ![Dec(free_head)] = s] ELSE free_list
  /\ free_head' = Dec(free_head)
  /\ active_count' = Dec(active_count)
  /\ lent' = lent \ {s}

PoolNext ==
  \/ \E s \in Slots : Acquire(s)
  \/ AcquireFull
  \/ \E s \in lent : Release(s)

PoolSpec == PoolInit /\ [][PoolNext]_poolVars

--------------------------------------------------------------------------------
\* Types; the head stays inside the array plus one.
PoolTypeOK ==
  /\ free_list \in [Slots -> Slots]
  /\ free_head \in 0 .. MAX_CONNECTIONS
  /\ active_count \in 0 .. MAX_CONNECTIONS
  /\ lent \subseteq Slots

\* The positions of the stack that hold a free index.
FreePositions == free_head .. MAX_CONNECTIONS - 1

\* The stack holds each slot that is not lent exactly once, and no other: no
\* slot can be handed out twice and none gets lost (free_list_, free_head_).
FreeStackIsExact ==
  /\ \A i, j \in FreePositions : free_list[i] = free_list[j] => i = j
  /\ {free_list[i] : i \in FreePositions} = Slots \ lent

\* active_count() is the number of slots lent, and it is what free_head_ says.
ActiveCountIsExact ==
  /\ active_count = Cardinality(lent)
  /\ active_count = free_head

\* acquire() answers nullptr only when every slot is lent.
RefusesOnlyWhenAllLent == free_head >= MAX_CONNECTIONS => lent = Slots

\* The pool does what SlotAllocator promises.
Allocator == INSTANCE SlotAllocator WITH count <- active_count
AllocatorSpec == Allocator!Spec
================================================================================
