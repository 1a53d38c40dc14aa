------------------------- MODULE ConnectionPoolProofs --------------------------
(* Proofs about ConnectionPool, for every capacity of the pool. The stack of   *)
(* free indices alone does not bound free_head_ from below: that release()     *)
(* never moves it past 0 needs the count of lent slots, so the invariant is    *)
(* the conjunction of the three properties that TLC checks.                    *)
EXTENDS ConnectionPool, FiniteSetTheorems, TLAPS

PoolInv == PoolTypeOK /\ FreeStackIsExact /\ ActiveCountIsExact

\* The set of slots is finite, and so is every set of lent slots.
LEMMA SlotsFinite ==
  ASSUME NEW S \in SUBSET Slots
  PROVE  IsFiniteSet(S)
<1>1. IsFiniteSet(Slots)
  BY PoolAssumption, FS_Interval DEF Slots
<1> QED
  BY <1>1, FS_Subset

\* The constructor establishes the invariant.
LEMMA PoolInitInv == PoolInit => PoolInv
<1> SUFFICES ASSUME PoolInit PROVE PoolInv
  OBVIOUS
<1>1. PoolTypeOK
  BY PoolAssumption DEF PoolInit, PoolTypeOK, Slots
<1>2. FreeStackIsExact
  BY PoolAssumption DEF PoolInit, FreeStackIsExact, FreePositions, Slots
<1>3. ActiveCountIsExact
  BY FS_EmptySet DEF PoolInit, ActiveCountIsExact
<1> QED
  BY <1>1, <1>2, <1>3 DEF PoolInv

\* acquire() hands out a slot that nobody holds and keeps the invariant.
LEMMA AcquireInv ==
  ASSUME PoolInv, NEW s \in Slots, Acquire(s)
  PROVE  PoolInv' /\ s \notin lent
<1> USE PoolAssumption
<1>0. free_head \in FreePositions /\ s = free_list[free_head]
  BY DEF PoolInv, PoolTypeOK, Acquire, FreePositions
<1>1. s \notin lent
  BY <1>0 DEF PoolInv, FreeStackIsExact
<1>2. PoolTypeOK'
  BY DEF PoolInv, PoolTypeOK, ActiveCountIsExact, Acquire
<1>3. FreePositions' = FreePositions \ {free_head}
  BY DEF PoolInv, PoolTypeOK, Acquire, FreePositions
<1>4. FreeStackIsExact'
  <2>1. \A i, j \in FreePositions' : free_list'[i] = free_list'[j] => i = j
    BY <1>3 DEF PoolInv, FreeStackIsExact, Acquire
  <2>2. {free_list[i] : i \in FreePositions \ {free_head}}
          = {free_list[i] : i \in FreePositions} \ {s}
    BY <1>0 DEF PoolInv, FreeStackIsExact
  <2>3. {free_list'[i] : i \in FreePositions'} = (Slots \ lent) \ {s}
    BY <1>3, <2>2 DEF PoolInv, FreeStackIsExact, Acquire
  <2> QED
    BY <2>1, <2>3 DEF FreeStackIsExact, Acquire
<1>5. ActiveCountIsExact'
  <2>1. IsFiniteSet(lent)
    BY SlotsFinite DEF PoolInv, PoolTypeOK
  <2>2. Cardinality(lent \union {s}) = Cardinality(lent) + 1
    BY <1>1, <2>1, FS_AddElement
  <2> QED
    BY <2>2 DEF PoolInv, ActiveCountIsExact, Acquire
<1> QED
  BY <1>1, <1>2, <1>4, <1>5 DEF PoolInv

\* release() of a slot that is lent keeps the invariant; free_head_ was not 0.
LEMMA ReleaseInv ==
  ASSUME PoolInv, NEW s \in lent, Release(s)
  PROVE  PoolInv' /\ active_count' = active_count - 1
<1> USE PoolAssumption
<1>0. s \in Slots
  BY DEF PoolInv, PoolTypeOK
<1>1. IsFiniteSet(lent)
  BY SlotsFinite DEF PoolInv, PoolTypeOK
<1>2. Cardinality(lent \ {s}) = Cardinality(lent) - 1 /\ Cardinality(lent) # 0
  BY <1>1, FS_RemoveElement, FS_EmptySet
<1>3. /\ free_head \in 1 .. MAX_CONNECTIONS
      /\ Dec(free_head) = free_head - 1
      /\ Dec(active_count) = active_count - 1
      /\ free_head - 1 \in Slots
  BY <1>2 DEF PoolInv, PoolTypeOK, ActiveCountIsExact, Dec, Slots
<1>4. /\ free_list' = [free_list EXCEPT ![free_head - 1] = s]
      /\ free_head' = free_head - 1
      /\ active_count' = active_count - 1
      /\ lent' = lent \ {s}
  BY <1>3 DEF Release
<1>5. PoolTypeOK'
  BY <1>0, <1>3, <1>4 DEF PoolInv, PoolTypeOK, ActiveCountIsExact
<1>6. /\ FreePositions' = FreePositions \union {free_head - 1}
      /\ free_head - 1 \notin FreePositions
      /\ FreePositions \subseteq Slots
  BY <1>3, <1>4 DEF FreePositions, Slots
<1>7. /\ free_list'[free_head - 1] = s
      /\ \A i \in FreePositions : free_list'[i] = free_list[i]
  BY <1>3, <1>4, <1>6 DEF PoolInv, PoolTypeOK
<1>8. FreeStackIsExact'
  <2>1. \A i \in FreePositions : free_list[i] # s
    BY DEF PoolInv, FreeStackIsExact
  <2>2. \A i, j \in FreePositions' : free_list'[i] = free_list'[j] => i = j
    BY <1>6, <1>7, <2>1 DEF PoolInv, FreeStackIsExact
  <2>3. {free_list'[i] : i \in FreePositions \union {free_head - 1}}
          = {free_list[i] : i \in FreePositions} \union {s}
    BY <1>7
  <2>4. {free_list'[i] : i \in FreePositions'} = (Slots \ lent) \union {s}
    BY <1>6, <2>3 DEF PoolInv, FreeStackIsExact
  <2>5. (Slots \ lent) \union {s} = Slots \ lent'
    BY <1>0, <1>4
  <2> QED
    BY <2>2, <2>4, <2>5 DEF FreeStackIsExact
<1>9. ActiveCountIsExact'
  BY <1>2, <1>4 DEF PoolInv, ActiveCountIsExact
<1> QED
  BY <1>4, <1>5, <1>8, <1>9 DEF PoolInv

\* Every step of the pool keeps the invariant.
LEMMA PoolNextInv == PoolInv /\ [PoolNext]_poolVars => PoolInv'
<1> SUFFICES ASSUME PoolInv, [PoolNext]_poolVars PROVE PoolInv'
  OBVIOUS
<1>1. CASE \E s \in Slots : Acquire(s)
  BY <1>1, AcquireInv
<1>2. CASE UNCHANGED poolVars
  BY <1>2 DEF PoolInv, PoolTypeOK, FreeStackIsExact, FreePositions,
              ActiveCountIsExact, poolVars
<1>3. CASE \E s \in lent : Release(s)
  BY <1>3, ReleaseInv
<1> QED
  BY <1>1, <1>2, <1>3 DEF PoolNext, AcquireFull

\* The inductive invariant holds in every reachable state.
THEOREM PoolInvariance == PoolSpec => []PoolInv
<1> QED
  BY PoolInitInv, PoolNextInv, PTL DEF PoolSpec

\* free_list_ and free_head_ stay in range: no store of release() and no load
\* of acquire() leaves the array.
THEOREM PoolTypeCorrect == PoolSpec => []PoolTypeOK
<1>1. PoolInv => PoolTypeOK
  BY DEF PoolInv
<1> QED
  BY <1>1, PoolInvariance, PTL

\* No slot is on the free stack twice and none is lost (acquire, release).
THEOREM FreeStackCorrect == PoolSpec => []FreeStackIsExact
<1>1. PoolInv => FreeStackIsExact
  BY DEF PoolInv
<1> QED
  BY <1>1, PoolInvariance, PTL

\* active_count() always is the number of slots lent.
THEOREM ActiveCountCorrect == PoolSpec => []ActiveCountIsExact
<1>1. PoolInv => ActiveCountIsExact
  BY DEF PoolInv
<1> QED
  BY <1>1, PoolInvariance, PTL

\* acquire() returns nullptr only when all the slots are lent.
THEOREM RefusalCorrect == PoolSpec => []RefusesOnlyWhenAllLent
<1>1. PoolInv => RefusesOnlyWhenAllLent
  <2> SUFFICES ASSUME PoolInv, free_head >= MAX_CONNECTIONS PROVE lent = Slots
    BY DEF RefusesOnlyWhenAllLent
  <2>1. FreePositions = {}
    BY PoolAssumption DEF PoolInv, PoolTypeOK, FreePositions
  <2> QED
    BY <2>1 DEF PoolInv, PoolTypeOK, FreeStackIsExact
<1> QED
  BY <1>1, PoolInvariance, PTL

\* The pool implements SlotAllocator: acquire() is a grant of a slot that was
\* not lent, release() a return, a refusal a stuttering step.
THEOREM PoolImplementsAllocator == PoolSpec => AllocatorSpec
<1>1. PoolInit => Allocator!Init
  BY DEF PoolInit, Allocator!Init
<1>2. PoolInv /\ [PoolNext]_poolVars => [Allocator!Next]_(Allocator!vars)
  <2> SUFFICES ASSUME PoolInv, [PoolNext]_poolVars
               PROVE  [Allocator!Next]_(Allocator!vars)
    OBVIOUS
  <2>1. ASSUME NEW s \in Slots, Acquire(s) PROVE Allocator!Grant(s)
    BY <2>1, AcquireInv DEF Acquire, Allocator!Grant
  <2>2. ASSUME NEW s \in lent, Release(s)
        PROVE  s \in Slots /\ Allocator!Return(s)
    BY <2>2, ReleaseInv DEF Release, Allocator!Return, PoolInv, PoolTypeOK
  <2>3. CASE UNCHANGED poolVars
    BY <2>3 DEF poolVars, Allocator!vars
  <2> QED
    BY <2>1, <2>2, <2>3 DEF PoolNext, AcquireFull, Allocator!Next
<1> QED
  BY <1>1, <1>2, PoolInvariance, PTL
     DEF PoolSpec, AllocatorSpec, Allocator!Spec
================================================================================
