--------------------------- MODULE MempoolProofs ---------------------------
(***************************************************************************)
(* The proof that a memory pool keeps its free list, counter, reserve and  *)
(* ownership intact for any number of threads, any object and page sizes   *)
(* and any amount of memory, and that it implements the abstract pool.     *)
(***************************************************************************)
EXTENDS Mempool, SequenceTheorems, TLAPS

Busy(t) == pc[t] \in Locked \cup Expanding
Adding(t) == pc[t] \in {"add_link", "add_push"}

\* The lock serialises the operations; until mempool_init has returned there is
\* no lock holder and one thread at most.
Mutex ==
  /\ \A t, u \in Threads : Busy(t) /\ Busy(u) => t = u
  /\ phase = "initialized" => \A t \in Threads : Busy(t) <=> lock = t
  /\ phase # "initialized" =>
               /\ lock = NoThread
               /\ \A t \in Threads : /\ pc[t] \in {"idle"} \cup Expanding
                                     /\ held[t] = {}

\* What the local variable obj of each operation points to.
Locals ==
  \A t \in Threads :
    /\ pc[t] \in {"alloc_unlock", "free_lock", "free_link", "free_push"} => obj[t] \in 1..mapped
    /\ Adding(t) => obj[t] \in 1..mapped
    /\ pc[t] \in {"add_push", "free_push"} => next[obj[t]] = free_list
    /\ pc[t] = "unlink" => stack # <<>> /\ obj[t] = stack[1]

\* Nothing that malloc has not provided, or add_memory not reached, is in use.
Fresh ==
  /\ \A i \in 1..Len(stack) : stack[i] <= mapped
  /\ \A t \in Threads : held[t] \subseteq 1..mapped
  /\ \A t \in Threads : Adding(t) =>
       /\ \A i \in 1..Len(stack) : stack[i] < obj[t]
       /\ \A u \in Threads : \A o \in Own(u) : o < obj[t]

\* How far the list is from the reserve at each point of an operation.
ReserveInv ==
  /\ phase = "initialized" /\ lock = NoThread => num_free >= reserve
  /\ \A t \in Threads :
       /\ pc[t] \in {"check", "unlink", "alloc_unlock", "free_link", "free_push", "free_unlock"}
            => num_free >= reserve
       /\ Adding(t) => num_free + (mapped - obj[t]) >= reserve
       /\ pc[t] = "take" => num_free > reserve

IInv ==
  /\ TypeOK
  /\ Mutex
  /\ Locals
  /\ Fresh
  /\ FreeListIsStack
  /\ NumFreeCounts
  /\ ExclusiveOwnership
  /\ ReserveInv
-----------------------------------------------------------------------------
\* Rounding up never rounds down.
LEMMA AlignBound ==
  ASSUME NEW x \in Nat, NEW a \in Nat \ {0}
  PROVE  UNW_ALIGN(x, a) \in Nat /\ UNW_ALIGN(x, a) >= x
<1> DEFINE q == (x + a - 1) \div a
<1>1. x + a - 1 \in Nat OBVIOUS
<1>2. q \in Nat /\ x + a - 1 = a * q + ((x + a - 1) % a) /\ (x + a - 1) % a \in 0..(a-1)
  BY <1>1, SMT
<1>3. q * a >= x
  BY <1>2, SMT
<1>4. q * a \in Nat BY <1>2, SMT
<1> QED BY <1>3, <1>4 DEF UNW_ALIGN

\* n bytes hold at least k objects of b bytes when k * b <= n.
LEMMA DivBound ==
  ASSUME NEW n \in Nat, NEW b \in Nat \ {0}, NEW k \in Nat, k * b <= n
  PROVE  n \div b \in Nat /\ n \div b >= k
<1> DEFINE q == n \div b
<1>1. q \in Nat /\ n = b * q + (n % b) /\ n % b \in 0..(b-1)
  BY SMT
<1>2. ASSUME q < k PROVE FALSE
  <2>1. q + 1 <= k BY <1>1, <1>2
  <2>2. (q + 1) * b <= k * b BY <2>1, <1>1, SMT
  <2>3. q * b + b <= n BY <2>2, <1>1, SMT
  <2> QED BY <2>3, <1>1, SMT
<1> QED BY <1>1, <1>2

\* What a sequence looks like with one element put in front.
LEMMA Push ==
  ASSUME NEW S, NEW s \in Seq(S), NEW x \in S
  PROVE  /\ <<x>> \o s \in Seq(S)
         /\ Len(<<x>> \o s) = Len(s) + 1
         /\ (<<x>> \o s)[1] = x
         /\ \A i \in 2..(Len(s) + 1) : (<<x>> \o s)[i] = s[i - 1]
<1>1. <<x>> \in Seq(S) /\ Len(<<x>>) = 1 /\ <<x>>[1] = x OBVIOUS
<1> QED BY <1>1, ConcatProperties

\* What is left of a sequence without its first element.
LEMMA Pop ==
  ASSUME NEW S, NEW s \in Seq(S), s # <<>>
  PROVE  /\ Tail(s) \in Seq(S)
         /\ Len(s) \in Nat \ {0}
         /\ Len(Tail(s)) = Len(s) - 1
         /\ \A i \in 1..(Len(s) - 1) : Tail(s)[i] = s[i + 1]
BY HeadTailProperties, LenProperties, EmptySeq
\* mempool_init chooses a reserve of at least one object and a chunk that holds
\* more objects than the reserve.
LEMMA Sizes ==
  /\ obj_size \in Nat \ {0}
  /\ reserve \in Nat \ {0}
  /\ ChunkObjs \in Nat
  /\ ChunkObjs > reserve
  /\ Brk \in Nat
<1>1. obj_size \in Nat \ {0}
  BY AlignBound, PoolAssumption DEF obj_size
<1>2. reserve \in Nat \ {0}
  BY <1>1, PoolAssumption DEF reserve
<1>3. 2 * reserve \in Nat /\ (2 * reserve) * obj_size \in Nat
  BY <1>1, <1>2
<1>4. chunk_size \in Nat /\ chunk_size >= (2 * reserve) * obj_size
  BY <1>3, AlignBound, PoolAssumption DEF chunk_size
<1>5. ChunkObjs \in Nat /\ ChunkObjs >= 2 * reserve
  BY <1>1, <1>3, <1>4, DivBound DEF ChunkObjs
<1>6. Brk \in Nat
  BY <1>5, PoolAssumption DEF Brk
<1> QED BY <1>1, <1>2, <1>5, <1>6

\* free_object puts an object that is not on the list in front of it.
LEMMA PushKeepsList ==
  ASSUME TypeOK, FreeListIsStack, ExclusiveOwnership, NEW t \in Threads,
         obj[t] \in Addr, next[obj[t]] = free_list,
         \A i \in 1..Len(stack) : stack[i] # obj[t],
         stack' \in Seq(Addr),
         Len(stack') = Len(stack) + 1,
         stack'[1] = obj[t],
         \A i \in 2..(Len(stack) + 1) : stack'[i] = stack[i - 1],
         free_list' = obj[t], UNCHANGED next
  PROVE  /\ \A i, j \in 1..Len(stack') : stack'[i] = stack'[j] => i = j
         /\ FreeListIsStack'
<1>1. stack \in Seq(Addr) /\ Len(stack) \in Nat
  BY LenProperties DEF TypeOK
<1>3. ASSUME NEW i \in 1..Len(stack'), NEW j \in 1..Len(stack'), stack'[i] = stack'[j]
      PROVE  i = j
  <2>1. CASE i = 1 \/ j = 1
    <3>1. \A k \in 1..Len(stack') : k # 1 => stack'[k] # obj[t]
      BY <1>1
    <3> QED BY <2>1, <1>3, <3>1
  <2>2. CASE i # 1 /\ j # 1
    <3>1. /\ i - 1 \in 1..Len(stack) /\ j - 1 \in 1..Len(stack)
          /\ stack'[i] = stack[i - 1] /\ stack'[j] = stack[j - 1]
      BY <2>2, <1>1
    <3>2. i - 1 = j - 1
      BY <3>1, <1>3 DEF ExclusiveOwnership
    <3> QED BY <3>2
  <2> QED BY <2>1, <2>2
<1>4. stack' # <<>>
  BY <1>1, EmptySeq
<1>5. free_list' = IF stack' = <<>> THEN NULL ELSE stack'[1]
  BY <1>4
<1>6. ASSUME NEW i \in 1..Len(stack')
      PROVE  next'[stack'[i]] = IF i = Len(stack') THEN NULL ELSE stack'[i + 1]
  <2>1. CASE i = 1
    <3>1. next'[stack'[1]] = free_list
      OBVIOUS
    <3>2. CASE stack = <<>>
      BY <3>1, <3>2, <2>1, <1>1 DEF FreeListIsStack
    <3>3. CASE stack # <<>>
      <4>1. Len(stack) # 0
        BY <3>3, <1>1, EmptySeq
      <4>2. stack'[2] = stack[1]
        BY <4>1, <1>1
      <4> QED
        BY <3>1, <3>3, <2>1, <4>1, <4>2, <1>1 DEF FreeListIsStack
    <3> QED BY <3>2, <3>3
  <2>2. CASE i # 1
    <3>1. i - 1 \in 1..Len(stack) /\ stack'[i] = stack[i - 1]
      BY <2>2, <1>1
    <3>2. next[stack[i - 1]] = IF i - 1 = Len(stack) THEN NULL ELSE stack[i - 1 + 1]
      BY <3>1 DEF FreeListIsStack
    <3>3. ASSUME i # Len(stack') PROVE stack'[i + 1] = stack[i]
      <4>1. i + 1 \in 2..(Len(stack) + 1) /\ (i + 1) - 1 = i
        BY <2>2, <3>3, <1>1
      <4> QED BY <4>1
    <3> QED BY <3>1, <3>2, <3>3, <1>1
  <2> QED BY <2>1, <2>2
<1> QED BY <1>3, <1>5, <1>6 DEF FreeListIsStack

\* mempool_alloc takes the first object off the list.
LEMMA PopKeepsList ==
  ASSUME TypeOK, FreeListIsStack, NEW t \in Threads,
         Len(stack) \in Nat \ {0}, obj[t] = stack[1],
         stack' \in Seq(Addr),
         Len(stack') = Len(stack) - 1,
         \A i \in 1..(Len(stack) - 1) : stack'[i] = stack[i + 1],
         free_list' = next[obj[t]], UNCHANGED next
  PROVE  free_list' \in Addr \cup {NULL} /\ FreeListIsStack'
<1>2. next[stack[1]] = IF 1 = Len(stack) THEN NULL ELSE stack[2]
  BY DEF FreeListIsStack
<1>3. stack' = <<>> <=> Len(stack) = 1
  BY EmptySeq
<1>4. free_list' = IF stack' = <<>> THEN NULL ELSE stack'[1]
  BY <1>2, <1>3
<1>5. ASSUME NEW i \in 1..Len(stack')
      PROVE  next'[stack'[i]] = IF i = Len(stack') THEN NULL ELSE stack'[i + 1]
  <2>1. i + 1 \in 1..Len(stack) /\ stack'[i] = stack[i + 1]
    OBVIOUS
  <2>2. next[stack[i + 1]] = IF i + 1 = Len(stack) THEN NULL ELSE stack[i + 1 + 1]
    BY <2>1 DEF FreeListIsStack
  <2>3. i # Len(stack') => stack'[i + 1] = stack[i + 1 + 1]
    OBVIOUS
  <2> QED BY <2>1, <2>2, <2>3
<1>6. free_list' \in Addr \cup {NULL}
  <2>1. stack' # <<>> => stack'[1] \in Addr
    BY <1>3, ElementOfSeq
  <2> QED BY <2>1, <1>4
<1> QED BY <1>4, <1>5, <1>6 DEF FreeListIsStack

\* A thread that goes on inside its operation leaves the lock discipline intact.
LEMMA StayBusy ==
  ASSUME TypeOK, Mutex, NEW t \in Threads, Busy(t), NEW x \in Locked \cup Expanding,
         pc' = [pc EXCEPT ![t] = x], phase = "initialized" \/ x \in Expanding,
         UNCHANGED <<lock, phase, held>>
  PROVE  Mutex'
<1>1. Busy(t)' /\ pc'[t] = x
  BY DEF TypeOK, Busy
<1>2. \A u \in Threads : Busy(u)' <=> Busy(u)
  BY <1>1 DEF TypeOK, Busy
<1>3. \A u \in Threads : u # t => pc'[u] = pc[u]
  BY DEF TypeOK
<1>4. CASE phase = "initialized"
  BY <1>2, <1>4 DEF Mutex
<1>5. CASE phase # "initialized"
  BY <1>1, <1>2, <1>3, <1>5 DEF Mutex
<1> QED BY <1>4, <1>5

\* These actions leave every object with its owner.
LEMMA OwnStable ==
  ASSUME TypeOK, Locals, NEW t \in Threads,
         \/ mempool_init(t) \/ CallAlloc(t) \/ AllocLock(t) \/ AllocCheck(t)
         \/ GetMemory(t) \/ AddLink(t) \/ AddPush(t) \/ Take(t) \/ AllocUnlock(t)
         \/ Store(t) \/ CallFree(t) \/ FreeLock(t) \/ FreeLink(t) \/ FreeUnlock(t)
  PROVE  \A u \in Threads : Own(u)' = Own(u)
<1> USE DEF TypeOK, Own, InFlight, Goto, poolVars, Locked, Expanding
<1>1. CASE mempool_init(t) BY <1>1 DEF mempool_init
<1>2. CASE CallAlloc(t) BY <1>2 DEF CallAlloc
<1>3. CASE AllocLock(t) BY <1>3 DEF AllocLock
<1>4. CASE AllocCheck(t) BY <1>4 DEF AllocCheck
<1>5. CASE GetMemory(t) BY <1>5 DEF GetMemory
<1>6. CASE AddLink(t) BY <1>6 DEF AddLink
<1>7. CASE AddPush(t) BY <1>7 DEF AddPush, MoreToAdd
<1>8. CASE Take(t) BY <1>8 DEF Take
<1>9. CASE AllocUnlock(t) BY <1>9 DEF AllocUnlock
<1>10. CASE Store(t) BY <1>10 DEF Store
<1>11. CASE CallFree(t)
  <2>1. PICK o \in held[t] : /\ obj' = [obj EXCEPT ![t] = o]
                             /\ held' = [held EXCEPT ![t] = @ \ {o}]
    BY <1>11 DEF CallFree
  <2>2. Own(t)' = (held[t] \ {o}) \cup {o} /\ Own(t) = held[t]
    BY <2>1, <1>11 DEF CallFree
  <2>3. ASSUME NEW u \in Threads, u # t PROVE Own(u)' = Own(u)
    BY <2>1, <2>3, <1>11 DEF CallFree
  <2> QED BY <2>2, <2>3
<1>12. CASE FreeLock(t) BY <1>12 DEF FreeLock
<1>13. CASE FreeLink(t) BY <1>13 DEF FreeLink
<1>14. CASE FreeUnlock(t) BY <1>14 DEF FreeUnlock
<1> QED BY <1>1, <1>2, <1>3, <1>4, <1>5, <1>6, <1>7, <1>8, <1>9, <1>10, <1>11,
           <1>12, <1>13, <1>14

\* The start of mempool_init keeps the invariant.
LEMMA mempool_init_Inv ==
  ASSUME IInv, NEW t \in Threads, mempool_init(t)
  PROVE  IInv'
<1> USE Sizes, PoolAssumption
<1> USE DEF mempool_init, Goto, poolVars, Addr, NULL, Locked, Expanding, Busy, Adding
<1>1. TypeOK'
  BY DEF IInv, TypeOK, Mutex, Locals, Fresh, FreeListIsStack, NumFreeCounts, ExclusiveOwnership,
         ReserveInv, Own, InFlight
<1>2. Mutex'
  BY DEF IInv, TypeOK, Mutex, Locals, Fresh, FreeListIsStack, NumFreeCounts, ExclusiveOwnership,
         ReserveInv, Own, InFlight
<1>3. Locals'
  BY DEF IInv, TypeOK, Mutex, Locals, Fresh, FreeListIsStack, NumFreeCounts, ExclusiveOwnership,
         ReserveInv, Own, InFlight
<1>4. Fresh'
  BY DEF IInv, TypeOK, Mutex, Locals, Fresh, FreeListIsStack, NumFreeCounts, ExclusiveOwnership,
         ReserveInv, Own, InFlight
<1>5. FreeListIsStack'
  BY DEF IInv, TypeOK, Mutex, Locals, Fresh, FreeListIsStack, NumFreeCounts, ExclusiveOwnership,
         ReserveInv, Own, InFlight
<1>6. NumFreeCounts'
  BY DEF IInv, TypeOK, Mutex, Locals, Fresh, FreeListIsStack, NumFreeCounts, ExclusiveOwnership,
         ReserveInv, Own, InFlight
<1>7. ExclusiveOwnership'
  BY DEF IInv, TypeOK, Mutex, Locals, Fresh, FreeListIsStack, NumFreeCounts, ExclusiveOwnership,
         ReserveInv, Own, InFlight
<1>8. ReserveInv'
  BY DEF IInv, TypeOK, Mutex, Locals, Fresh, FreeListIsStack, NumFreeCounts, ExclusiveOwnership,
         ReserveInv, Own, InFlight
<1> QED BY <1>1, <1>2, <1>3, <1>4, <1>5, <1>6, <1>7, <1>8 DEF IInv

\* A call of mempool_alloc keeps the invariant.
LEMMA CallAlloc_Inv ==
  ASSUME IInv, NEW t \in Threads, CallAlloc(t)
  PROVE  IInv'
<1> USE Sizes, PoolAssumption
<1> USE DEF CallAlloc, Goto, poolVars, Addr, NULL, Locked, Expanding, Busy, Adding
<1>1. TypeOK'
  BY DEF IInv, TypeOK, Mutex, Locals, Fresh, FreeListIsStack, NumFreeCounts, ExclusiveOwnership,
         ReserveInv, Own, InFlight
<1>2. Mutex'
  BY DEF IInv, TypeOK, Mutex, Locals, Fresh, FreeListIsStack, NumFreeCounts, ExclusiveOwnership,
         ReserveInv, Own, InFlight
<1>3. Locals'
  BY DEF IInv, TypeOK, Mutex, Locals, Fresh, FreeListIsStack, NumFreeCounts, ExclusiveOwnership,
         ReserveInv, Own, InFlight
<1>4. Fresh'
  BY DEF IInv, TypeOK, Mutex, Locals, Fresh, FreeListIsStack, NumFreeCounts, ExclusiveOwnership,
         ReserveInv, Own, InFlight
<1>5. FreeListIsStack'
  BY DEF IInv, TypeOK, Mutex, Locals, Fresh, FreeListIsStack, NumFreeCounts, ExclusiveOwnership,
         ReserveInv, Own, InFlight
<1>6. NumFreeCounts'
  BY DEF IInv, TypeOK, Mutex, Locals, Fresh, FreeListIsStack, NumFreeCounts, ExclusiveOwnership,
         ReserveInv, Own, InFlight
<1>7. ExclusiveOwnership'
  BY DEF IInv, TypeOK, Mutex, Locals, Fresh, FreeListIsStack, NumFreeCounts, ExclusiveOwnership,
         ReserveInv, Own, InFlight
<1>8. ReserveInv'
  BY DEF IInv, TypeOK, Mutex, Locals, Fresh, FreeListIsStack, NumFreeCounts, ExclusiveOwnership,
         ReserveInv, Own, InFlight
<1> QED BY <1>1, <1>2, <1>3, <1>4, <1>5, <1>6, <1>7, <1>8 DEF IInv

\* mempool_alloc's lock_acquire keeps the invariant.
LEMMA AllocLock_Inv ==
  ASSUME IInv, NEW t \in Threads, AllocLock(t)
  PROVE  IInv'
<1> USE Sizes, PoolAssumption
<1> USE DEF AllocLock, Goto, poolVars, Addr, NULL, Locked, Expanding, Busy, Adding
<1>1. TypeOK'
  BY DEF IInv, TypeOK, Mutex, Locals, Fresh, FreeListIsStack, NumFreeCounts, ExclusiveOwnership,
         ReserveInv, Own, InFlight
<1>2. Mutex'
  BY DEF IInv, TypeOK, Mutex, Locals, Fresh, FreeListIsStack, NumFreeCounts, ExclusiveOwnership,
         ReserveInv, Own, InFlight
<1>3. Locals'
  BY DEF IInv, TypeOK, Mutex, Locals, Fresh, FreeListIsStack, NumFreeCounts, ExclusiveOwnership,
         ReserveInv, Own, InFlight
<1>4. Fresh'
  BY DEF IInv, TypeOK, Mutex, Locals, Fresh, FreeListIsStack, NumFreeCounts, ExclusiveOwnership,
         ReserveInv, Own, InFlight
<1>5. FreeListIsStack'
  BY DEF IInv, TypeOK, Mutex, Locals, Fresh, FreeListIsStack, NumFreeCounts, ExclusiveOwnership,
         ReserveInv, Own, InFlight
<1>6. NumFreeCounts'
  BY DEF IInv, TypeOK, Mutex, Locals, Fresh, FreeListIsStack, NumFreeCounts, ExclusiveOwnership,
         ReserveInv, Own, InFlight
<1>7. ExclusiveOwnership'
  BY DEF IInv, TypeOK, Mutex, Locals, Fresh, FreeListIsStack, NumFreeCounts, ExclusiveOwnership,
         ReserveInv, Own, InFlight
<1>8. ReserveInv'
  BY DEF IInv, TypeOK, Mutex, Locals, Fresh, FreeListIsStack, NumFreeCounts, ExclusiveOwnership,
         ReserveInv, Own, InFlight
<1> QED BY <1>1, <1>2, <1>3, <1>4, <1>5, <1>6, <1>7, <1>8 DEF IInv

\* mempool_alloc's test of num_free against reserve keeps the invariant.
LEMMA AllocCheck_Inv ==
  ASSUME IInv, NEW t \in Threads, AllocCheck(t)
  PROVE  IInv'
<1> USE Sizes, PoolAssumption
<1> USE DEF AllocCheck, Goto, poolVars, Addr, NULL, Locked, Expanding, Busy, Adding, NeedsMemory
<1>1. TypeOK'
  BY DEF IInv, TypeOK, Mutex, Locals, Fresh, FreeListIsStack, NumFreeCounts, ExclusiveOwnership,
         ReserveInv, Own, InFlight
<1>2. Mutex'
  BY DEF IInv, TypeOK, Mutex, Locals, Fresh, FreeListIsStack, NumFreeCounts, ExclusiveOwnership,
         ReserveInv, Own, InFlight
<1>3. Locals'
  BY DEF IInv, TypeOK, Mutex, Locals, Fresh, FreeListIsStack, NumFreeCounts, ExclusiveOwnership,
         ReserveInv, Own, InFlight
<1>4. Fresh'
  BY DEF IInv, TypeOK, Mutex, Locals, Fresh, FreeListIsStack, NumFreeCounts, ExclusiveOwnership,
         ReserveInv, Own, InFlight
<1>5. FreeListIsStack'
  BY DEF IInv, TypeOK, Mutex, Locals, Fresh, FreeListIsStack, NumFreeCounts, ExclusiveOwnership,
         ReserveInv, Own, InFlight
<1>6. NumFreeCounts'
  BY DEF IInv, TypeOK, Mutex, Locals, Fresh, FreeListIsStack, NumFreeCounts, ExclusiveOwnership,
         ReserveInv, Own, InFlight
<1>7. ExclusiveOwnership'
  BY DEF IInv, TypeOK, Mutex, Locals, Fresh, FreeListIsStack, NumFreeCounts, ExclusiveOwnership,
         ReserveInv, Own, InFlight
<1>8. ReserveInv'
  BY DEF IInv, TypeOK, Mutex, Locals, Fresh, FreeListIsStack, NumFreeCounts, ExclusiveOwnership,
         ReserveInv, Own, InFlight
<1> QED BY <1>1, <1>2, <1>3, <1>4, <1>5, <1>6, <1>7, <1>8 DEF IInv

\* expand's malloc keeps the invariant.
LEMMA GetMemory_Inv ==
  ASSUME IInv, NEW t \in Threads, GetMemory(t)
  PROVE  IInv'
<1> USE Sizes, PoolAssumption
<1> USE DEF GetMemory, Goto, poolVars, Addr, NULL, Locked, Expanding, Busy, Adding
<1>o. \A u \in Threads : Own(u)' = Own(u)
  BY OwnStable DEF IInv
<1>1. TypeOK'
  BY DEF IInv, TypeOK
<1>2. Mutex'
  BY DEF IInv, TypeOK, Mutex
<1>3. Locals'
  BY DEF IInv, TypeOK, Locals
<1>4. Fresh'
  <2>1. \A u \in Threads : \A o \in Own(u) : o \in Nat /\ o <= mapped
    BY DEF IInv, TypeOK, Fresh, Locals, Own, InFlight
  <2>2. \A i \in 1..Len(stack) : stack[i] \in Nat /\ stack[i] <= mapped
    BY ElementOfSeq DEF IInv, TypeOK, Fresh
  <2>3. \A u \in Threads : Adding(u)' => obj'[u] = mapped + 1
    BY DEF IInv, TypeOK, Mutex
  <2>4. mapped \in Nat /\ mapped <= mapped'
    BY DEF IInv, TypeOK
  <2>5. \A i \in 1..Len(stack') : stack'[i] <= mapped'
    BY <2>2, <2>4
  <2>6. \A u \in Threads : held'[u] \subseteq 1..mapped'
    BY <2>4 DEF IInv, TypeOK, Fresh
  <2>7. ASSUME NEW u \in Threads, Adding(u)'
        PROVE  /\ \A i \in 1..Len(stack') : stack'[i] < obj'[u]
               /\ \A v \in Threads : \A o \in Own(v)' : o < obj'[u]
    BY <2>1, <2>2, <2>3, <2>4, <2>7, <1>o
  <2> QED BY <2>5, <2>6, <2>7 DEF Fresh
<1>5. FreeListIsStack'
  BY DEF IInv, FreeListIsStack
<1>6. NumFreeCounts'
  BY DEF IInv, TypeOK, NumFreeCounts
<1>7. ExclusiveOwnership'
  BY <1>o DEF IInv, TypeOK, ExclusiveOwnership, InFlight
<1>8. ReserveInv'
  BY DEF IInv, TypeOK, Mutex, ReserveInv
<1> QED BY <1>1, <1>2, <1>3, <1>4, <1>5, <1>6, <1>7, <1>8 DEF IInv

\* The first statement of free_object in add_memory keeps the invariant.
LEMMA AddLink_Inv ==
  ASSUME IInv, NEW t \in Threads, AddLink(t)
  PROVE  IInv'
<1> USE Sizes, PoolAssumption
<1> USE DEF AddLink, Goto, poolVars, Addr, NULL, Locked, Expanding, Busy, Adding, LinkObject
<1>1. TypeOK'
  BY DEF IInv, TypeOK, Mutex, Locals, Fresh, FreeListIsStack, NumFreeCounts, ExclusiveOwnership,
         ReserveInv, Own, InFlight
<1>2. Mutex'
  BY DEF IInv, TypeOK, Mutex, Locals, Fresh, FreeListIsStack, NumFreeCounts, ExclusiveOwnership,
         ReserveInv, Own, InFlight
<1>3. Locals'
  BY DEF IInv, TypeOK, Mutex, Locals, Fresh, FreeListIsStack, NumFreeCounts, ExclusiveOwnership,
         ReserveInv, Own, InFlight
<1>4. Fresh'
  BY DEF IInv, TypeOK, Mutex, Locals, Fresh, FreeListIsStack, NumFreeCounts, ExclusiveOwnership,
         ReserveInv, Own, InFlight
<1>5. FreeListIsStack'
  BY DEF IInv, TypeOK, Mutex, Locals, Fresh, FreeListIsStack, NumFreeCounts, ExclusiveOwnership,
         ReserveInv, Own, InFlight
<1>6. NumFreeCounts'
  BY DEF IInv, TypeOK, Mutex, Locals, Fresh, FreeListIsStack, NumFreeCounts, ExclusiveOwnership,
         ReserveInv, Own, InFlight
<1>7. ExclusiveOwnership'
  BY DEF IInv, TypeOK, Mutex, Locals, Fresh, FreeListIsStack, NumFreeCounts, ExclusiveOwnership,
         ReserveInv, Own, InFlight
<1>8. ReserveInv'
  BY DEF IInv, TypeOK, Mutex, Locals, Fresh, FreeListIsStack, NumFreeCounts, ExclusiveOwnership,
         ReserveInv, Own, InFlight
<1> QED BY <1>1, <1>2, <1>3, <1>4, <1>5, <1>6, <1>7, <1>8 DEF IInv

\* The rest of free_object in add_memory, and the end of expand keeps the invariant.
LEMMA AddPush_Inv ==
  ASSUME IInv, NEW t \in Threads, AddPush(t)
  PROVE  IInv'
<1> USE Sizes, PoolAssumption
<1> USE DEF Addr, NULL, Locked, Expanding, Busy, Adding
<1>a. pc[t] = "add_push" /\ obj[t] \in 1..mapped /\ obj[t] \in Addr /\ next[obj[t]] = free_list
  BY DEF IInv, TypeOK, Locals, AddPush, MoreToAdd
<1>b. \A i \in 1..Len(stack) : stack[i] # obj[t]
  BY <1>a DEF IInv, TypeOK, Fresh
<1>s. stack \in Seq(Addr) /\ Len(stack) \in Nat /\ num_free \in Nat
  BY LenProperties DEF IInv, TypeOK
<1>q. free_list' = obj[t] /\ num_free' = num_free + 1 /\ UNCHANGED <<lock, next, mapped, held>>
  BY DEF AddPush, MoreToAdd, PushObject
<1>p. /\ stack' \in Seq(Addr)
      /\ Len(stack') = Len(stack) + 1
      /\ stack'[1] = obj[t]
      /\ \A i \in 2..(Len(stack) + 1) : stack'[i] = stack[i - 1]
  BY <1>a, <1>s, Push DEF AddPush, MoreToAdd, PushObject
<1>l. /\ \A i, j \in 1..Len(stack') : stack'[i] = stack'[j] => i = j
      /\ FreeListIsStack'
  BY <1>a, <1>b, <1>p, <1>q, PushKeepsList DEF IInv
<1>o. \A u \in Threads : Own(u)' = Own(u)
  BY OwnStable DEF IInv
<1>c. \/ /\ obj[t] < mapped /\ obj' = [obj EXCEPT ![t] = @ + 1]
         /\ pc' = [pc EXCEPT ![t] = "add_link"] /\ phase' = phase
      \/ /\ obj[t] = mapped /\ obj' = obj /\ phase = "initialized" /\ phase' = "initialized"
         /\ pc' = [pc EXCEPT ![t] = "take"]
      \/ /\ obj[t] = mapped /\ obj' = obj /\ phase # "initialized" /\ phase' = "initialized"
         /\ pc' = [pc EXCEPT ![t] = "idle"]
  BY <1>a DEF IInv, TypeOK, AddPush, MoreToAdd, Goto
<1>e. \A u \in Threads : u # t => ~Busy(u)
  BY <1>a DEF IInv, Mutex
<1>1. TypeOK'
  <2>1. obj' \in [Threads -> Addr \cup {NULL}]
    BY <1>a, <1>c DEF IInv, TypeOK
  <2>2. /\ pc' \in [Threads -> {"idle", "alloc_lock", "free_lock"} \cup Locked \cup Expanding]
        /\ phase' \in {"uninitialized", "initialized"}
    BY <1>c DEF IInv, TypeOK
  <2> QED BY <2>1, <2>2, <1>a, <1>p, <1>q, <1>s DEF IInv, TypeOK
<1>2. Mutex'
  <2>1. CASE phase' = phase
    <3>1. PICK x \in {"add_link", "take"} :
            pc' = [pc EXCEPT ![t] = x] /\ (phase = "initialized" \/ x = "add_link")
      BY <2>1, <1>c
    <3> QED BY <2>1, <3>1, <1>a, <1>q, StayBusy DEF IInv
  <2>2. CASE phase' # phase
    <3>1. /\ phase # "initialized" /\ phase' = "initialized"
          /\ pc' = [pc EXCEPT ![t] = "idle"]
      BY <2>2, <1>c
    <3>2. \A u \in Threads : ~Busy(u)'
      BY <3>1, <1>e DEF IInv, TypeOK
    <3>3. lock' = NoThread
      BY <3>1, <1>q DEF IInv, Mutex
    <3> QED BY <3>1, <3>2, <3>3 DEF Mutex
  <2> QED BY <2>1, <2>2
<1>3. Locals'
  BY <1>a, <1>c, <1>e, <1>q DEF IInv, TypeOK, Locals
<1>4. Fresh'
  <2>1. \A i \in 1..Len(stack') : stack'[i] <= obj[t]
    <3> SUFFICES ASSUME NEW i \in 1..Len(stack') PROVE stack'[i] <= obj[t]
      OBVIOUS
    <3>1. CASE i = 1
      BY <3>1, <1>a, <1>p
    <3>2. CASE i # 1
      <4>1. i - 1 \in 1..Len(stack) /\ stack'[i] = stack[i - 1]
        BY <3>2, <1>p, <1>s
      <4>2. stack[i - 1] < obj[t] /\ stack[i - 1] \in Nat
        BY <4>1, <1>a, <1>s, ElementOfSeq DEF IInv, Fresh
      <4> QED BY <4>1, <4>2, <1>a
    <3> QED BY <3>1, <3>2
  <2>2. \A i \in 1..Len(stack') : stack'[i] \in Nat /\ stack'[i] <= mapped'
    BY <2>1, <1>a, <1>p, <1>q, ElementOfSeq DEF IInv, TypeOK
  <2>3. ASSUME NEW u \in Threads, Adding(u)'
        PROVE  /\ \A i \in 1..Len(stack') : stack'[i] < obj'[u]
               /\ \A v \in Threads : \A o \in Own(v)' : o < obj'[u]
    <3>1. u = t /\ obj'[u] = obj[t] + 1 /\ obj[t] \in Nat
      BY <1>a, <1>c, <1>e, <2>3 DEF IInv, TypeOK
    <3>2. \A v \in Threads : \A o \in Own(v) : o \in Nat /\ o < obj[t]
      BY <1>a DEF IInv, TypeOK, Fresh, Locals, Own, InFlight
    <3> QED BY <3>1, <3>2, <2>1, <2>2, <1>o
  <2>4. \A u \in Threads : held'[u] \subseteq 1..mapped'
    BY <1>q DEF IInv, Fresh
  <2> QED BY <2>2, <2>3, <2>4 DEF Fresh
<1>5. FreeListIsStack'
  BY <1>l
<1>6. NumFreeCounts'
  BY <1>a, <1>c, <1>e, <1>p, <1>q, <1>s DEF IInv, TypeOK, NumFreeCounts
<1>7. ExclusiveOwnership'
  <2>1. \A u \in Threads : obj[t] \notin Own(u)
    BY <1>a DEF IInv, TypeOK, Fresh
  <2>2. ASSUME NEW u \in Threads, NEW i \in 1..Len(stack')
        PROVE  stack'[i] \notin Own(u)'
    <3>1. CASE i = 1
      BY <3>1, <2>1, <1>o, <1>p
    <3>2. CASE i # 1
      <4>1. i - 1 \in 1..Len(stack) /\ stack'[i] = stack[i - 1]
        BY <3>2, <1>p, <1>s
      <4> QED BY <4>1, <1>o DEF IInv, ExclusiveOwnership
    <3> QED BY <3>1, <3>2
  <2>3. \A u \in Threads : (held[u] \cap InFlight(u) = {})'
    BY <1>a, <1>c, <1>q DEF IInv, TypeOK, ExclusiveOwnership, InFlight
  <2> QED BY <2>2, <2>3, <1>o, <1>l DEF IInv, ExclusiveOwnership
<1>8. ReserveInv'
  <2>1. num_free' + (mapped - obj[t]) >= reserve + 1 /\ mapped \in Nat
    BY <1>a, <1>q, <1>s DEF IInv, TypeOK, ReserveInv
  <2>2. \A u \in Threads : u # t => pc'[u] = pc[u]
    BY <1>c DEF IInv, TypeOK
  <2>3. CASE obj[t] < mapped
    <3>1. pc'[t] = "add_link" /\ obj'[t] = obj[t] + 1 /\ phase' = phase
      BY <2>3, <1>a, <1>c DEF IInv, TypeOK
    <3>2. phase = "initialized" => lock # NoThread
      BY <1>a DEF IInv, Mutex
    <3>3. num_free' + (mapped' - obj'[t]) >= reserve
      BY <3>1, <2>1, <1>a, <1>q, <1>s
    <3>4. ~(phase' = "initialized" /\ lock' = NoThread)
      BY <3>1, <3>2, <1>q
    <3> QED BY <3>1, <3>3, <3>4, <2>2, <1>e DEF ReserveInv
  <2>4. CASE obj[t] = mapped
    <3>1. pc'[t] \in {"take", "idle"}
      BY <2>4, <1>a, <1>c DEF IInv, TypeOK
    <3>2. num_free' > reserve
      BY <2>1, <2>4, <1>q, <1>s, <1>a
    <3> QED BY <3>1, <3>2, <2>2, <1>e, <1>q, <1>s DEF ReserveInv
  <2> QED BY <2>3, <2>4, <1>c
<1> QED BY <1>1, <1>2, <1>3, <1>4, <1>5, <1>6, <1>7, <1>8 DEF IInv

\* mempool_alloc's decrement and read of free_list keeps the invariant.
LEMMA Take_Inv ==
  ASSUME IInv, NEW t \in Threads, Take(t)
  PROVE  IInv'
<1> USE Sizes, PoolAssumption
<1> USE DEF Take, Goto, poolVars, Addr, NULL, Locked, Expanding, Busy, Adding
<1>1. TypeOK'
  BY DEF IInv, TypeOK, Mutex, Locals, Fresh, FreeListIsStack, NumFreeCounts, ExclusiveOwnership,
         ReserveInv, Own, InFlight
<1>2. Mutex'
  <2>1. Busy(t) /\ phase = "initialized"
    BY DEF IInv, TypeOK, Mutex
  <2> QED BY <2>1, StayBusy DEF IInv
<1>3. Locals'
  BY DEF IInv, TypeOK, Mutex, Locals, Fresh, FreeListIsStack, NumFreeCounts, ExclusiveOwnership,
         ReserveInv, Own, InFlight
<1>4. Fresh'
  BY DEF IInv, TypeOK, Mutex, Locals, Fresh, FreeListIsStack, NumFreeCounts, ExclusiveOwnership,
         ReserveInv, Own, InFlight
<1>5. FreeListIsStack'
  BY DEF IInv, TypeOK, Mutex, Locals, Fresh, FreeListIsStack, NumFreeCounts, ExclusiveOwnership,
         ReserveInv, Own, InFlight
<1>6. NumFreeCounts'
  BY DEF IInv, TypeOK, Mutex, Locals, Fresh, FreeListIsStack, NumFreeCounts, ExclusiveOwnership,
         ReserveInv, Own, InFlight
<1>7. ExclusiveOwnership'
  BY DEF IInv, TypeOK, Mutex, Locals, Fresh, FreeListIsStack, NumFreeCounts, ExclusiveOwnership,
         ReserveInv, Own, InFlight
<1>8. ReserveInv'
  BY DEF IInv, TypeOK, Mutex, Locals, Fresh, FreeListIsStack, NumFreeCounts, ExclusiveOwnership,
         ReserveInv, Own, InFlight
<1> QED BY <1>1, <1>2, <1>3, <1>4, <1>5, <1>6, <1>7, <1>8 DEF IInv

\* mempool_alloc's store to free_list keeps the invariant.
LEMMA Unlink_Inv ==
  ASSUME IInv, NEW t \in Threads, Unlink(t)
  PROVE  IInv'
<1> USE Sizes, PoolAssumption
<1> USE DEF Addr, NULL, Locked, Expanding, Busy, Adding
<1>a. /\ pc[t] = "unlink" /\ pc' = [pc EXCEPT ![t] = "alloc_unlock"]
      /\ free_list' = next[obj[t]]
      /\ UNCHANGED <<lock, num_free, next, mapped, phase, obj, held>>
  BY DEF Unlink, Goto
<1>b. stack # <<>> /\ obj[t] = stack[1] /\ stack \in Seq(Addr)
  BY <1>a DEF IInv, TypeOK, Locals
<1>p. /\ stack' \in Seq(Addr)
      /\ Len(stack) \in Nat \ {0}
      /\ Len(stack') = Len(stack) - 1
      /\ \A i \in 1..(Len(stack) - 1) : stack'[i] = stack[i + 1]
  BY <1>b, Pop DEF Unlink
<1>l. free_list' \in Addr \cup {NULL} /\ FreeListIsStack'
  BY <1>a, <1>b, <1>p, PopKeepsList DEF IInv
<1>e. \A u \in Threads : u # t => ~Busy(u)
  BY <1>a DEF IInv, Mutex
<1>s. stack[1] \in Addr /\ stack[1] <= mapped
  BY <1>b, <1>p, ElementOfSeq DEF IInv, Fresh
<1>o. /\ Own(t)' = Own(t) \cup {obj[t]}
      /\ InFlight(t)' = {obj[t]} /\ InFlight(t) = {} /\ Own(t) = held[t]
      /\ \A u \in Threads : u # t => Own(u)' = Own(u) /\ InFlight(u)' = InFlight(u)
  BY <1>a DEF IInv, TypeOK, Own, InFlight
<1>1. TypeOK'
  BY <1>a, <1>l, <1>p DEF IInv, TypeOK
<1>2. Mutex'
  BY <1>a, <1>e DEF IInv, TypeOK, Mutex
<1>3. Locals'
  BY <1>a, <1>b, <1>e, <1>s DEF IInv, TypeOK, Locals
<1>4. Fresh'
  <2>1. \A u \in Threads : ~Adding(u)'
    BY <1>a, <1>e DEF IInv, TypeOK
  <2>2. ASSUME NEW i \in 1..Len(stack') PROVE stack'[i] <= mapped'
    <3>1. i + 1 \in 1..Len(stack) /\ stack'[i] = stack[i + 1]
      BY <1>p
    <3> QED BY <3>1, <1>a DEF IInv, Fresh
  <2> QED BY <2>1, <2>2, <1>a DEF IInv, Fresh
<1>5. FreeListIsStack'
  BY <1>l
<1>6. NumFreeCounts'
  <2>1. ~\E u \in Threads : pc'[u] = "unlink"
    BY <1>a, <1>e DEF IInv, TypeOK
  <2> QED BY <2>1, <1>a, <1>p DEF IInv, NumFreeCounts
<1>7. ExclusiveOwnership'
  <2>1. ASSUME NEW i \in 1..Len(stack')
        PROVE  i + 1 \in 1..Len(stack) /\ stack'[i] = stack[i + 1] /\ stack'[i] # obj[t]
    <3>1. i + 1 \in 1..Len(stack) /\ 1 \in 1..Len(stack) /\ stack'[i] = stack[i + 1]
      BY <1>p
    <3>2. i + 1 # 1
      BY <1>p
    <3> QED BY <3>1, <3>2, <1>b DEF IInv, ExclusiveOwnership
  <2>2. ASSUME NEW i \in 1..Len(stack'), NEW j \in 1..Len(stack'), stack'[i] = stack'[j]
        PROVE  i = j
    <3>1. i + 1 = j + 1
      BY <2>1, <2>2 DEF IInv, ExclusiveOwnership
    <3> QED BY <3>1, <1>p
  <2>3. \A u \in Threads : obj[t] \notin Own(u)
    BY <1>b, <1>p DEF IInv, ExclusiveOwnership
  <2>4. ASSUME NEW u \in Threads, NEW i \in 1..Len(stack')
        PROVE  stack'[i] \notin Own(u)'
    BY <2>1, <1>o DEF IInv, ExclusiveOwnership
  <2>5. \A u \in Threads : held'[u] \cap InFlight(u)' = {}
    BY <2>3, <1>a, <1>o DEF IInv, ExclusiveOwnership
  <2>6. \A u, v \in Threads : u # v => Own(u)' \cap Own(v)' = {}
    BY <2>3, <1>o DEF IInv, ExclusiveOwnership
  <2> QED BY <2>2, <2>4, <2>5, <2>6 DEF ExclusiveOwnership
<1>8. ReserveInv'
  BY <1>a, <1>e DEF IInv, TypeOK, ReserveInv, Mutex
<1> QED BY <1>1, <1>2, <1>3, <1>4, <1>5, <1>6, <1>7, <1>8 DEF IInv

\* mempool_alloc's lock_release keeps the invariant.
LEMMA AllocUnlock_Inv ==
  ASSUME IInv, NEW t \in Threads, AllocUnlock(t)
  PROVE  IInv'
<1> USE Sizes, PoolAssumption
<1> USE DEF AllocUnlock, Goto, poolVars, Addr, NULL, Locked, Expanding, Busy, Adding
<1>1. TypeOK'
  BY DEF IInv, TypeOK, Mutex, Locals, Fresh, FreeListIsStack, NumFreeCounts, ExclusiveOwnership,
         ReserveInv, Own, InFlight
<1>2. Mutex'
  BY DEF IInv, TypeOK, Mutex, Locals, Fresh, FreeListIsStack, NumFreeCounts, ExclusiveOwnership,
         ReserveInv, Own, InFlight
<1>3. Locals'
  BY DEF IInv, TypeOK, Mutex, Locals, Fresh, FreeListIsStack, NumFreeCounts, ExclusiveOwnership,
         ReserveInv, Own, InFlight
<1>4. Fresh'
  BY DEF IInv, TypeOK, Mutex, Locals, Fresh, FreeListIsStack, NumFreeCounts, ExclusiveOwnership,
         ReserveInv, Own, InFlight
<1>5. FreeListIsStack'
  BY DEF IInv, TypeOK, Mutex, Locals, Fresh, FreeListIsStack, NumFreeCounts, ExclusiveOwnership,
         ReserveInv, Own, InFlight
<1>6. NumFreeCounts'
  BY DEF IInv, TypeOK, Mutex, Locals, Fresh, FreeListIsStack, NumFreeCounts, ExclusiveOwnership,
         ReserveInv, Own, InFlight
<1>7. ExclusiveOwnership'
  BY DEF IInv, TypeOK, Mutex, Locals, Fresh, FreeListIsStack, NumFreeCounts, ExclusiveOwnership,
         ReserveInv, Own, InFlight
<1>8. ReserveInv'
  BY DEF IInv, TypeOK, Mutex, Locals, Fresh, FreeListIsStack, NumFreeCounts, ExclusiveOwnership,
         ReserveInv, Own, InFlight
<1> QED BY <1>1, <1>2, <1>3, <1>4, <1>5, <1>6, <1>7, <1>8 DEF IInv

\* A caller's store into its object keeps the invariant.
LEMMA Store_Inv ==
  ASSUME IInv, NEW t \in Threads, Store(t)
  PROVE  IInv'
<1> USE Sizes, PoolAssumption
<1> USE DEF Store, Goto, poolVars, Addr, NULL, Locked, Expanding, Busy, Adding
<1>a. PICK o \in held[t], v \in Data : next' = [next EXCEPT ![o] = v]
  OBVIOUS
<1>1. TypeOK'
  BY <1>a DEF IInv, TypeOK, Mutex, Locals, Fresh, FreeListIsStack, NumFreeCounts, ExclusiveOwnership,
         ReserveInv, Own, InFlight
<1>2. Mutex'
  BY <1>a DEF IInv, TypeOK, Mutex, Locals, Fresh, FreeListIsStack, NumFreeCounts, ExclusiveOwnership,
         ReserveInv, Own, InFlight
<1>3. Locals'
  <2>1. ASSUME NEW u \in Threads, pc[u] \in {"add_push", "free_push"}
        PROVE  obj[u] # o
    <3>1. CASE pc[u] = "add_push"
      BY <3>1, <2>1 DEF IInv, TypeOK, Fresh, Own
    <3>2. CASE pc[u] = "free_push"
      BY <3>2, <2>1 DEF IInv, ExclusiveOwnership, Own, InFlight
    <3> QED BY <2>1, <3>1, <3>2
  <2> QED BY <2>1, <1>a DEF IInv, TypeOK, Locals
<1>4. Fresh'
  BY <1>a DEF IInv, TypeOK, Mutex, Locals, Fresh, FreeListIsStack, NumFreeCounts, ExclusiveOwnership,
         ReserveInv, Own, InFlight
<1>5. FreeListIsStack'
  <2>1. \A i \in 1..Len(stack) : stack[i] # o
    BY DEF IInv, ExclusiveOwnership, Own
  <2> QED BY <2>1, <1>a DEF IInv, TypeOK, FreeListIsStack
<1>6. NumFreeCounts'
  BY <1>a DEF IInv, TypeOK, Mutex, Locals, Fresh, FreeListIsStack, NumFreeCounts, ExclusiveOwnership,
         ReserveInv, Own, InFlight
<1>7. ExclusiveOwnership'
  BY <1>a DEF IInv, TypeOK, Mutex, Locals, Fresh, FreeListIsStack, NumFreeCounts, ExclusiveOwnership,
         ReserveInv, Own, InFlight
<1>8. ReserveInv'
  BY <1>a DEF IInv, TypeOK, Mutex, Locals, Fresh, FreeListIsStack, NumFreeCounts, ExclusiveOwnership,
         ReserveInv, Own, InFlight
<1> QED BY <1>1, <1>2, <1>3, <1>4, <1>5, <1>6, <1>7, <1>8 DEF IInv

\* A call of mempool_free keeps the invariant.
LEMMA CallFree_Inv ==
  ASSUME IInv, NEW t \in Threads, CallFree(t)
  PROVE  IInv'
<1> USE Sizes, PoolAssumption
<1> USE DEF CallFree, Goto, poolVars, Addr, NULL, Locked, Expanding, Busy, Adding
<1>1. TypeOK'
  BY DEF IInv, TypeOK, Mutex, Locals, Fresh, FreeListIsStack, NumFreeCounts, ExclusiveOwnership,
         ReserveInv, Own, InFlight
<1>2. Mutex'
  BY DEF IInv, TypeOK, Mutex, Locals, Fresh, FreeListIsStack, NumFreeCounts, ExclusiveOwnership,
         ReserveInv, Own, InFlight
<1>3. Locals'
  BY DEF IInv, TypeOK, Mutex, Locals, Fresh, FreeListIsStack, NumFreeCounts, ExclusiveOwnership,
         ReserveInv, Own, InFlight
<1>o. \A u \in Threads : Own(u)' = Own(u)
  BY OwnStable DEF IInv
<1>4. Fresh'
  BY <1>o DEF IInv, TypeOK, Fresh
<1>5. FreeListIsStack'
  BY DEF IInv, TypeOK, Mutex, Locals, Fresh, FreeListIsStack, NumFreeCounts, ExclusiveOwnership,
         ReserveInv, Own, InFlight
<1>6. NumFreeCounts'
  BY DEF IInv, TypeOK, Mutex, Locals, Fresh, FreeListIsStack, NumFreeCounts, ExclusiveOwnership,
         ReserveInv, Own, InFlight
<1>7. ExclusiveOwnership'
  BY DEF IInv, TypeOK, Mutex, Locals, Fresh, FreeListIsStack, NumFreeCounts, ExclusiveOwnership,
         ReserveInv, Own, InFlight
<1>8. ReserveInv'
  BY DEF IInv, TypeOK, Mutex, Locals, Fresh, FreeListIsStack, NumFreeCounts, ExclusiveOwnership,
         ReserveInv, Own, InFlight
<1> QED BY <1>1, <1>2, <1>3, <1>4, <1>5, <1>6, <1>7, <1>8 DEF IInv

\* mempool_free's lock_acquire keeps the invariant.
LEMMA FreeLock_Inv ==
  ASSUME IInv, NEW t \in Threads, FreeLock(t)
  PROVE  IInv'
<1> USE Sizes, PoolAssumption
<1> USE DEF FreeLock, Goto, poolVars, Addr, NULL, Locked, Expanding, Busy, Adding
<1>1. TypeOK'
  BY DEF IInv, TypeOK, Mutex, Locals, Fresh, FreeListIsStack, NumFreeCounts, ExclusiveOwnership,
         ReserveInv, Own, InFlight
<1>2. Mutex'
  BY DEF IInv, TypeOK, Mutex, Locals, Fresh, FreeListIsStack, NumFreeCounts, ExclusiveOwnership,
         ReserveInv, Own, InFlight
<1>3. Locals'
  BY DEF IInv, TypeOK, Mutex, Locals, Fresh, FreeListIsStack, NumFreeCounts, ExclusiveOwnership,
         ReserveInv, Own, InFlight
<1>o. \A u \in Threads : Own(u)' = Own(u)
  BY OwnStable DEF IInv
<1>4. Fresh'
  BY <1>o DEF IInv, TypeOK, Fresh
<1>5. FreeListIsStack'
  BY DEF IInv, TypeOK, Mutex, Locals, Fresh, FreeListIsStack, NumFreeCounts, ExclusiveOwnership,
         ReserveInv, Own, InFlight
<1>6. NumFreeCounts'
  BY DEF IInv, TypeOK, Mutex, Locals, Fresh, FreeListIsStack, NumFreeCounts, ExclusiveOwnership,
         ReserveInv, Own, InFlight
<1>7. ExclusiveOwnership'
  BY DEF IInv, TypeOK, Mutex, Locals, Fresh, FreeListIsStack, NumFreeCounts, ExclusiveOwnership,
         ReserveInv, Own, InFlight
<1>8. ReserveInv'
  BY DEF IInv, TypeOK, Mutex, ReserveInv
<1> QED BY <1>1, <1>2, <1>3, <1>4, <1>5, <1>6, <1>7, <1>8 DEF IInv

\* The first statement of free_object in mempool_free keeps the invariant.
LEMMA FreeLink_Inv ==
  ASSUME IInv, NEW t \in Threads, FreeLink(t)
  PROVE  IInv'
<1> USE Sizes, PoolAssumption
<1> USE DEF FreeLink, Goto, poolVars, Addr, NULL, Locked, Expanding, Busy, Adding, LinkObject
<1>1. TypeOK'
  BY DEF IInv, TypeOK, Mutex, Locals, Fresh, FreeListIsStack, NumFreeCounts, ExclusiveOwnership,
         ReserveInv, Own, InFlight
<1>2. Mutex'
  <2>1. Busy(t) /\ phase = "initialized"
    BY DEF IInv, TypeOK, Mutex
  <2> QED BY <2>1, StayBusy DEF IInv
<1>3. Locals'
  BY DEF IInv, TypeOK, Mutex, Locals, Fresh, FreeListIsStack, NumFreeCounts, ExclusiveOwnership,
         ReserveInv, Own, InFlight
<1>4. Fresh'
  BY DEF IInv, TypeOK, Mutex, Locals, Fresh, FreeListIsStack, NumFreeCounts, ExclusiveOwnership,
         ReserveInv, Own, InFlight
<1>5. FreeListIsStack'
  BY DEF IInv, TypeOK, Mutex, Locals, Fresh, FreeListIsStack, NumFreeCounts, ExclusiveOwnership,
         ReserveInv, Own, InFlight
<1>6. NumFreeCounts'
  BY DEF IInv, TypeOK, Mutex, Locals, Fresh, FreeListIsStack, NumFreeCounts, ExclusiveOwnership,
         ReserveInv, Own, InFlight
<1>7. ExclusiveOwnership'
  BY DEF IInv, TypeOK, Mutex, Locals, Fresh, FreeListIsStack, NumFreeCounts, ExclusiveOwnership,
         ReserveInv, Own, InFlight
<1>8. ReserveInv'
  BY DEF IInv, TypeOK, Mutex, Locals, Fresh, FreeListIsStack, NumFreeCounts, ExclusiveOwnership,
         ReserveInv, Own, InFlight
<1> QED BY <1>1, <1>2, <1>3, <1>4, <1>5, <1>6, <1>7, <1>8 DEF IInv

\* The rest of free_object in mempool_free keeps the invariant.
LEMMA FreePush_Inv ==
  ASSUME IInv, NEW t \in Threads, FreePush(t)
  PROVE  IInv'
<1> USE Sizes, PoolAssumption
<1> USE DEF Addr, NULL, Locked, Expanding, Busy, Adding
<1>a. /\ pc[t] = "free_push" /\ obj[t] \in 1..mapped /\ obj[t] \in Addr
      /\ next[obj[t]] = free_list /\ obj[t] \in Own(t)
  BY DEF IInv, TypeOK, Locals, FreePush, Goto, Own, InFlight
<1>b. \A i \in 1..Len(stack) : stack[i] # obj[t]
  BY <1>a DEF IInv, ExclusiveOwnership
<1>s. stack \in Seq(Addr) /\ Len(stack) \in Nat /\ num_free \in Nat
  BY LenProperties DEF IInv, TypeOK
<1>q. /\ free_list' = obj[t] /\ num_free' = num_free + 1
      /\ pc' = [pc EXCEPT ![t] = "free_unlock"]
      /\ UNCHANGED <<lock, next, mapped, phase, obj, held>>
  BY DEF FreePush, PushObject, Goto
<1>p. /\ stack' \in Seq(Addr)
      /\ Len(stack') = Len(stack) + 1
      /\ stack'[1] = obj[t]
      /\ \A i \in 2..(Len(stack) + 1) : stack'[i] = stack[i - 1]
  BY <1>a, <1>s, Push DEF FreePush, PushObject
<1>l. /\ \A i, j \in 1..Len(stack') : stack'[i] = stack'[j] => i = j
      /\ FreeListIsStack'
  BY <1>a, <1>b, <1>p, <1>q, PushKeepsList DEF IInv
<1>e. \A u \in Threads : u # t => ~Busy(u)
  BY <1>a DEF IInv, Mutex
<1>o. /\ Own(t)' = Own(t) \ {obj[t]} /\ InFlight(t)' = {}
      /\ \A u \in Threads : u # t => Own(u)' = Own(u) /\ InFlight(u)' = InFlight(u)
  BY <1>a, <1>q DEF IInv, TypeOK, ExclusiveOwnership, Own, InFlight
<1>1. TypeOK'
  BY <1>a, <1>p, <1>q DEF IInv, TypeOK
<1>2. Mutex'
  BY <1>a, <1>q, <1>e DEF IInv, TypeOK, Mutex
<1>3. Locals'
  BY <1>a, <1>q, <1>e DEF IInv, TypeOK, Locals
<1>4. Fresh'
  <2>1. \A u \in Threads : ~Adding(u)'
    BY <1>a, <1>q, <1>e DEF IInv, TypeOK
  <2>2. ASSUME NEW i \in 1..Len(stack') PROVE stack'[i] <= mapped'
    <3>1. CASE i = 1
      BY <3>1, <1>a, <1>p, <1>q DEF IInv, TypeOK
    <3>2. CASE i # 1
      <4>1. i - 1 \in 1..Len(stack) /\ stack'[i] = stack[i - 1]
        BY <3>2, <1>p, <1>s
      <4> QED BY <4>1, <1>q DEF IInv, Fresh
    <3> QED BY <3>1, <3>2
  <2> QED BY <2>1, <2>2, <1>q DEF IInv, Fresh
<1>5. FreeListIsStack'
  BY <1>l
<1>6. NumFreeCounts'
  <2>1. /\ ~\E u \in Threads : pc[u] = "unlink"
        /\ ~\E u \in Threads : pc'[u] = "unlink"
    BY <1>a, <1>q, <1>e DEF IInv, TypeOK
  <2> QED BY <2>1, <1>p, <1>q DEF IInv, NumFreeCounts
<1>7. ExclusiveOwnership'
  <2>1. \A u \in Threads : obj[t] \notin Own(u)'
    BY <1>o, <1>a DEF IInv, ExclusiveOwnership
  <2>2. ASSUME NEW u \in Threads, NEW i \in 1..Len(stack')
        PROVE  stack'[i] \notin Own(u)'
    <3>1. CASE i = 1
      BY <3>1, <2>1, <1>p
    <3>2. CASE i # 1
      <4>1. i - 1 \in 1..Len(stack) /\ stack'[i] = stack[i - 1]
        BY <3>2, <1>p, <1>s
      <4> QED BY <4>1, <1>o DEF IInv, ExclusiveOwnership
    <3> QED BY <3>1, <3>2
  <2>3. \A u \in Threads : held'[u] \cap InFlight(u)' = {}
    BY <1>o, <1>q DEF IInv, ExclusiveOwnership
  <2>4. \A u, v \in Threads : u # v => Own(u)' \cap Own(v)' = {}
    BY <1>o DEF IInv, ExclusiveOwnership
  <2> QED BY <2>2, <2>3, <2>4, <1>l DEF ExclusiveOwnership
<1>8. ReserveInv'
  BY <1>a, <1>q, <1>e, <1>s DEF IInv, TypeOK, ReserveInv, Mutex
<1> QED BY <1>1, <1>2, <1>3, <1>4, <1>5, <1>6, <1>7, <1>8 DEF IInv

\* mempool_free's lock_release keeps the invariant.
LEMMA FreeUnlock_Inv ==
  ASSUME IInv, NEW t \in Threads, FreeUnlock(t)
  PROVE  IInv'
<1> USE Sizes, PoolAssumption
<1> USE DEF FreeUnlock, Goto, poolVars, Addr, NULL, Locked, Expanding, Busy, Adding
<1>1. TypeOK'
  BY DEF IInv, TypeOK, Mutex, Locals, Fresh, FreeListIsStack, NumFreeCounts, ExclusiveOwnership,
         ReserveInv, Own, InFlight
<1>2. Mutex'
  BY DEF IInv, TypeOK, Mutex, Locals, Fresh, FreeListIsStack, NumFreeCounts, ExclusiveOwnership,
         ReserveInv, Own, InFlight
<1>3. Locals'
  BY DEF IInv, TypeOK, Mutex, Locals, Fresh, FreeListIsStack, NumFreeCounts, ExclusiveOwnership,
         ReserveInv, Own, InFlight
<1>4. Fresh'
  BY DEF IInv, TypeOK, Mutex, Locals, Fresh, FreeListIsStack, NumFreeCounts, ExclusiveOwnership,
         ReserveInv, Own, InFlight
<1>5. FreeListIsStack'
  BY DEF IInv, TypeOK, Mutex, Locals, Fresh, FreeListIsStack, NumFreeCounts, ExclusiveOwnership,
         ReserveInv, Own, InFlight
<1>6. NumFreeCounts'
  BY DEF IInv, TypeOK, Mutex, Locals, Fresh, FreeListIsStack, NumFreeCounts, ExclusiveOwnership,
         ReserveInv, Own, InFlight
<1>7. ExclusiveOwnership'
  BY DEF IInv, TypeOK, Mutex, Locals, Fresh, FreeListIsStack, NumFreeCounts, ExclusiveOwnership,
         ReserveInv, Own, InFlight
<1>8. ReserveInv'
  BY DEF IInv, TypeOK, Mutex, Locals, Fresh, FreeListIsStack, NumFreeCounts, ExclusiveOwnership,
         ReserveInv, Own, InFlight
<1> QED BY <1>1, <1>2, <1>3, <1>4, <1>5, <1>6, <1>7, <1>8 DEF IInv

\* The invariant holds of the zeroed pool before mempool_init.
LEMMA InitInv == Init => IInv
<1> SUFFICES ASSUME Init PROVE IInv
  OBVIOUS
<1> USE Sizes, PoolAssumption
<1> USE DEF Init, Addr, NULL, Locked, Expanding, Busy, Adding
<1>1. Len(stack) = 0 /\ stack \in Seq(Addr)
  BY EmptySeq
<1>2. TypeOK
  BY <1>1 DEF TypeOK
<1>3. Mutex /\ Locals
  BY DEF Mutex, Locals
<1>4. Fresh
  BY <1>1 DEF Fresh
<1>5. FreeListIsStack /\ NumFreeCounts /\ ReserveInv
  BY <1>1 DEF FreeListIsStack, NumFreeCounts, ReserveInv
<1>6. ExclusiveOwnership
  BY <1>1 DEF ExclusiveOwnership, Own, InFlight
<1> QED BY <1>2, <1>3, <1>4, <1>5, <1>6 DEF IInv

\* Every step keeps the invariant.
LEMMA NextInv == IInv /\ [Next]_vars => IInv'
<1> SUFFICES ASSUME IInv, [Next]_vars PROVE IInv'
  OBVIOUS
<1>1. CASE UNCHANGED vars
  BY <1>1 DEF vars, IInv, TypeOK, Mutex, Locals, Fresh, FreeListIsStack, NumFreeCounts,
              ExclusiveOwnership, ReserveInv, Busy, Adding, Own, InFlight
<1>2. CASE Next
  <2>1. PICK t \in Threads :
          mempool_init(t) \/ mempool_alloc(t) \/ expand(t) \/ mempool_free(t) \/ Store(t)
    BY <1>2 DEF Next
  <2>2. CASE mempool_alloc(t)
    BY <2>2, CallAlloc_Inv, AllocLock_Inv, AllocCheck_Inv, Take_Inv, Unlink_Inv,
       AllocUnlock_Inv DEF mempool_alloc
  <2>3. CASE expand(t)
    BY <2>3, GetMemory_Inv, AddLink_Inv, AddPush_Inv DEF expand
  <2>4. CASE mempool_free(t)
    BY <2>4, CallFree_Inv, FreeLock_Inv, FreeLink_Inv, FreePush_Inv, FreeUnlock_Inv
       DEF mempool_free
  <2> QED BY <2>1, <2>2, <2>3, <2>4, mempool_init_Inv, Store_Inv
<1> QED BY <1>1, <1>2

\* The pool's inductive invariant holds in every reachable state.
THEOREM Invariance == Spec => []IInv
BY InitInv, NextInv, PTL DEF Spec

\* Type correctness of the pool (mempool.c) for every number of threads and sizes.
THEOREM PoolTypeCorrect == Spec => []TypeOK
<1>1. IInv => TypeOK
  BY DEF IInv
<1> QED BY <1>1, Invariance, PTL

\* The linked free list of mempool.c is always the stack of free objects.
THEOREM FreeListCorrect == Spec => []FreeListIsStack
<1>1. IInv => FreeListIsStack
  BY DEF IInv
<1> QED BY <1>1, Invariance, PTL

\* num_free of mempool.c always counts the free list.
THEOREM CountCorrect == Spec => []NumFreeCounts
<1>1. IInv => NumFreeCounts
  BY DEF IInv
<1> QED BY <1>1, Invariance, PTL

\* mempool_alloc never hands an object to two callers.
THEOREM OwnershipCorrect == Spec => []ExclusiveOwnership
<1>1. IInv => ExclusiveOwnership
  BY DEF IInv
<1> QED BY <1>1, Invariance, PTL

\* mempool_alloc leaves `reserve' objects on the list whenever it gives the lock back.
THEOREM ReserveCorrect == Spec => []ReserveKept
<1>1. IInv => ReserveKept
  BY DEF IInv, ReserveInv, ReserveKept
<1> QED BY <1>1, Invariance, PTL

\* The assertion num_free > 0 of mempool_alloc (mempool.c:159) never fails.
THEOREM AssertionCorrect == Spec => []NumFreePositive
<1>1. IInv => NumFreePositive
  BY Sizes DEF IInv, TypeOK, ReserveInv, NumFreePositive
<1> QED BY <1>1, Invariance, PTL
-----------------------------------------------------------------------------
\* free_object adds the object to the set of free objects.
LEMMA OnStackPush ==
  ASSUME IInv, NEW t \in Threads, PushObject(t), obj[t] \in Addr
  PROVE  OnStack' = OnStack \cup {obj[t]}
<1>1. stack \in Seq(Addr) /\ Len(stack) \in Nat
  BY LenProperties DEF IInv, TypeOK
<1>2. /\ Len(stack') = Len(stack) + 1
      /\ stack'[1] = obj[t]
      /\ \A i \in 2..(Len(stack) + 1) : stack'[i] = stack[i - 1]
  BY <1>1, Push DEF PushObject
<1>3. ASSUME NEW i \in 1..Len(stack') PROVE stack'[i] \in OnStack \cup {obj[t]}
  <2>1. CASE i = 1
    BY <2>1, <1>2
  <2>2. CASE i # 1
    <3>1. i - 1 \in 1..Len(stack) /\ stack'[i] = stack[i - 1]
      BY <2>2, <1>1, <1>2
    <3> QED BY <3>1 DEF OnStack
  <2> QED BY <2>1, <2>2
<1>4. obj[t] \in OnStack'
  <2>1. 1 \in 1..Len(stack')
    BY <1>1, <1>2
  <2> QED BY <2>1, <1>2 DEF OnStack
<1>5. ASSUME NEW i \in 1..Len(stack) PROVE stack[i] \in OnStack'
  <2>1. i + 1 \in 1..Len(stack') /\ i + 1 \in 2..(Len(stack) + 1) /\ (i + 1) - 1 = i
    BY <1>1, <1>2
  <2>2. stack'[i + 1] = stack[i]
    BY <2>1, <1>2
  <2> QED BY <2>1, <2>2 DEF OnStack
<1> QED BY <1>3, <1>4, <1>5 DEF OnStack

\* mempool_alloc removes the object from the set of free objects.
LEMMA OnStackPop ==
  ASSUME IInv, NEW t \in Threads, Unlink(t)
  PROVE  obj[t] \in OnStack /\ OnStack' = OnStack \ {obj[t]}
<1>1. stack \in Seq(Addr) /\ stack # <<>> /\ obj[t] = stack[1]
  BY DEF IInv, TypeOK, Locals, Unlink, Goto
<1>2. /\ Len(stack) \in Nat \ {0}
      /\ Len(stack') = Len(stack) - 1
      /\ \A i \in 1..(Len(stack) - 1) : stack'[i] = stack[i + 1]
  BY <1>1, Pop DEF Unlink
<1>3. 1 \in 1..Len(stack)
  BY <1>2
<1>4. \A i \in 1..Len(stack) : i # 1 => stack[i] # obj[t]
  BY <1>1, <1>3 DEF IInv, ExclusiveOwnership
<1>5. ASSUME NEW i \in 1..Len(stack')
      PROVE  stack'[i] \in OnStack /\ stack'[i] # obj[t]
  <2>1. i + 1 \in 1..Len(stack) /\ i + 1 # 1 /\ stack'[i] = stack[i + 1]
    BY <1>2
  <2> QED BY <2>1, <1>4 DEF OnStack
<1>6. ASSUME NEW i \in 1..Len(stack), stack[i] # obj[t]
      PROVE  stack[i] \in OnStack'
  <2>1. i - 1 \in 1..Len(stack') /\ i - 1 \in 1..(Len(stack) - 1) /\ (i - 1) + 1 = i
    BY <1>1, <1>2, <1>6
  <2>2. stack'[i - 1] = stack[i]
    BY <2>1, <1>2
  <2> QED BY <2>1, <2>2 DEF OnStack
<1> QED BY <1>1, <1>3, <1>5, <1>6 DEF OnStack

\* The object mempool_alloc unlinks is then the thread's.
LEMMA UnlinkOwn ==
  ASSUME IInv, NEW t \in Threads, Unlink(t)
  PROVE  /\ Own(t)' = Own(t) \cup {obj[t]}
         /\ \A u \in Threads : u # t => Own(u)' = Own(u)
BY DEF IInv, TypeOK, Own, InFlight, Unlink, Goto

\* The object mempool_free links in is no longer the thread's.
LEMMA FreePushOwn ==
  ASSUME IInv, NEW t \in Threads, FreePush(t)
  PROVE  /\ obj[t] \in Own(t) /\ obj[t] \in Addr
         /\ Own(t)' = Own(t) \ {obj[t]}
         /\ \A u \in Threads : u # t => Own(u)' = Own(u)
<1> USE DEF FreePush, Goto, Own, InFlight
<1>1. obj[t] \in Own(t) /\ obj[t] \in Addr
  BY Sizes DEF IInv, TypeOK, Locals, Addr
<1>2. Own(t)' = Own(t) \ {obj[t]}
  BY DEF IInv, TypeOK, ExclusiveOwnership
<1>3. \A u \in Threads : u # t => Own(u)' = Own(u)
  BY DEF IInv, TypeOK
<1> QED BY <1>1, <1>2, <1>3

\* The actions that neither take an object off the list nor put one on it.
Quiet(t) ==
  \/ mempool_init(t) \/ CallAlloc(t) \/ AllocLock(t) \/ AllocCheck(t) \/ GetMemory(t)
  \/ AddLink(t) \/ Take(t) \/ AllocUnlock(t) \/ Store(t) \/ CallFree(t) \/ FreeLock(t)
  \/ FreeLink(t) \/ FreeUnlock(t)

\* Every step is a quiet one or one of the three that move an object.
LEMMA NextCases ==
  Next => \E t \in Threads : Quiet(t) \/ AddPush(t) \/ Unlink(t) \/ FreePush(t)
BY DEF Next, mempool_alloc, expand, mempool_free, Quiet

\* Quiet steps leave the abstract pool as it is.
LEMMA QuietStep ==
  ASSUME IInv, NEW t \in Threads, Quiet(t)
  PROVE  OnStack' = OnStack /\ \A u \in Threads : Own(u)' = Own(u)
<1>1. stack' = stack
  BY DEF Quiet, mempool_init, CallAlloc, AllocLock, AllocCheck, GetMemory, AddLink, Take,
         AllocUnlock, Store, CallFree, FreeLock, FreeLink, FreeUnlock, poolVars
<1>2. \A u \in Threads : Own(u)' = Own(u)
  BY OwnStable DEF Quiet, IInv
<1> QED BY <1>1, <1>2 DEF OnStack

\* The pool of mempool.c implements the abstract object pool: every step of it is a
\* step of the abstract pool or leaves the abstract state alone.
THEOREM Refinement == Spec => Pool!Spec
<1>1. Init => Pool!Init
  <2> SUFFICES ASSUME Init PROVE Pool!Init
    OBVIOUS
  <2>1. OnStack = {}
    BY EmptySeq DEF Init, OnStack
  <2>2. \A t \in Threads : Own(t) = {}
    BY DEF Init, Own, InFlight
  <2> QED BY <2>1, <2>2 DEF Pool!Init
<1>2. IInv /\ [Next]_vars => [Pool!Next]_(Pool!vars)
  <2> SUFFICES ASSUME IInv, [Next]_vars PROVE [Pool!Next]_(Pool!vars)
    OBVIOUS
  <2> DEFINE own == [t \in Threads |-> Own(t)]
  <2>1. CASE UNCHANGED vars
    <3>1. OnStack' = OnStack /\ \A u \in Threads : Own(u)' = Own(u)
      BY <2>1 DEF vars, OnStack, Own, InFlight
    <3> QED BY <3>1 DEF Pool!vars
  <2>2. CASE Next
    <3>1. PICK t \in Threads : Quiet(t) \/ AddPush(t) \/ Unlink(t) \/ FreePush(t)
      BY <2>2, NextCases
    <3>2. CASE Quiet(t)
      BY <3>2, QuietStep DEF Pool!vars
    <3>3. CASE AddPush(t)
      <4>1. obj[t] \in Addr /\ PushObject(t) /\ obj[t] \in 1..mapped /\ Adding(t)
        BY <3>3, Sizes DEF IInv, TypeOK, Locals, Addr, AddPush, MoreToAdd, Adding
      <4>2. OnStack' = OnStack \cup {obj[t]}
        BY <4>1, OnStackPush
      <4>3. \A u \in Threads : Own(u)' = Own(u)
        BY <3>3, OwnStable DEF IInv
      <4>4. obj[t] \notin OnStack /\ \A u \in Threads : obj[t] \notin Own(u)
        BY <4>1 DEF IInv, TypeOK, Fresh, OnStack
      <4>5. Pool!Grow(obj[t])
        BY <4>2, <4>3, <4>4 DEF Pool!Grow, Pool!Owned
      <4> QED BY <4>1, <4>5 DEF Pool!Next
    <3>4. CASE Unlink(t)
      <4>1. obj[t] \in OnStack /\ OnStack' = OnStack \ {obj[t]}
        BY <3>4, OnStackPop
      <4>2. own' = [own EXCEPT ![t] = @ \cup {obj[t]}]
        BY <3>4, UnlinkOwn
      <4>3. obj[t] \in Addr
        BY <4>1, ElementOfSeq DEF IInv, TypeOK, OnStack
      <4>4. Pool!Alloc(t, obj[t])
        BY <4>1, <4>2 DEF Pool!Alloc
      <4> QED BY <4>3, <4>4 DEF Pool!Next
    <3>5. CASE FreePush(t)
      <4>1. /\ obj[t] \in Own(t) /\ obj[t] \in Addr
            /\ own' = [own EXCEPT ![t] = @ \ {obj[t]}]
        BY <3>5, FreePushOwn
      <4>2. OnStack' = OnStack \cup {obj[t]}
        BY <3>5, <4>1, OnStackPush DEF FreePush
      <4>3. Pool!Free(t, obj[t])
        BY <4>1, <4>2 DEF Pool!Free
      <4> QED BY <4>1, <4>3 DEF Pool!Next
    <3> QED BY <3>1, <3>2, <3>3, <3>4, <3>5
  <2> QED BY <2>1, <2>2
<1> QED BY <1>1, <1>2, Invariance, PTL DEF Spec, Pool!Spec
-----------------------------------------------------------------------------
\* Where an object that malloc has provided can be.
Somewhere(o) == o \in OnStack \/ \E t \in Threads : o \in Own(t) \/ o \in ToAdd(t)

\* NoObjectLost object by object.
LEMMA LostPointwise ==
  /\ NoObjectLost <=> \A o : o \in 1..mapped <=> Somewhere(o)
  /\ NoObjectLost' <=> \A o : o \in 1..mapped' <=> Somewhere(o)'
<1>1. \A o : o \in UNION {Own(t) \cup ToAdd(t) : t \in Threads}
               <=> \E t \in Threads : o \in Own(t) \/ o \in ToAdd(t)
  OBVIOUS
<1>2. \A o : o \in UNION {Own(t)' \cup ToAdd(t)' : t \in Threads}
               <=> \E t \in Threads : o \in Own(t)' \/ o \in ToAdd(t)'
  OBVIOUS
<1> QED BY <1>1, <1>2 DEF NoObjectLost, Somewhere

\* Only expand and add_memory change what is still to be added to the list.
LEMMA ToAddStable ==
  ASSUME IInv, NEW t \in Threads, Quiet(t) \/ Unlink(t) \/ FreePush(t), ~GetMemory(t)
  PROVE  mapped' = mapped /\ \A u \in Threads : ToAdd(u)' = ToAdd(u)
<1> USE DEF IInv, TypeOK, ToAdd, Goto, poolVars
<1>1. CASE mempool_init(t) BY <1>1 DEF mempool_init
<1>2. CASE CallAlloc(t) BY <1>2 DEF CallAlloc
<1>3. CASE AllocLock(t) BY <1>3 DEF AllocLock
<1>4. CASE AllocCheck(t) BY <1>4 DEF AllocCheck
<1>5. CASE AddLink(t) BY <1>5 DEF AddLink
<1>6. CASE Take(t) BY <1>6 DEF Take
<1>7. CASE AllocUnlock(t) BY <1>7 DEF AllocUnlock
<1>8. CASE Store(t) BY <1>8 DEF Store
<1>9. CASE CallFree(t) BY <1>9 DEF CallFree
<1>10. CASE FreeLock(t) BY <1>10 DEF FreeLock
<1>11. CASE FreeLink(t) BY <1>11 DEF FreeLink
<1>12. CASE FreeUnlock(t) BY <1>12 DEF FreeUnlock
<1>13. CASE Unlink(t) BY <1>13 DEF Unlink
<1>14. CASE FreePush(t) BY <1>14 DEF FreePush
<1> QED BY <1>1, <1>2, <1>3, <1>4, <1>5, <1>6, <1>7, <1>8, <1>9, <1>10, <1>11, <1>12,
           <1>13, <1>14 DEF Quiet

\* The chunk malloc provides is what add_memory has to add.
LEMMA GetMemoryAdds ==
  ASSUME IInv, NEW t \in Threads, GetMemory(t)
  PROVE  /\ mapped' = mapped + ChunkObjs
         /\ ToAdd(t) = {} /\ ToAdd(t)' = (mapped + 1)..(mapped + ChunkObjs)
         /\ \A u \in Threads : u # t => ToAdd(u) = {} /\ ToAdd(u)' = {}
<1>1. /\ pc[t] = "expand" /\ pc' = [pc EXCEPT ![t] = "add_link"]
      /\ mapped' = mapped + ChunkObjs /\ obj' = [obj EXCEPT ![t] = mapped + 1]
  BY DEF GetMemory, Goto
<1>2. ToAdd(t) = {} /\ ToAdd(t)' = (mapped + 1)..(mapped + ChunkObjs)
  BY <1>1 DEF ToAdd, IInv, TypeOK
<1>3. ASSUME NEW u \in Threads, u # t PROVE ToAdd(u) = {} /\ ToAdd(u)' = {}
  <2>1. ~Busy(u)
    BY <1>1, <1>3 DEF IInv, Mutex, Busy, Expanding
  <2>2. pc'[u] = pc[u]
    BY <1>1, <1>3 DEF IInv, TypeOK
  <2> QED BY <2>1, <2>2 DEF Busy, Expanding, ToAdd
<1> QED BY <1>1, <1>2, <1>3

\* add_memory's loop takes the objects of the chunk one by one, to the last.
LEMMA AddPushAdds ==
  ASSUME IInv, NEW t \in Threads, AddPush(t)
  PROVE  /\ mapped' = mapped
         /\ obj[t] \in ToAdd(t) /\ ToAdd(t)' = ToAdd(t) \ {obj[t]}
         /\ \A u \in Threads : u # t => ToAdd(u)' = ToAdd(u)
<1>1. pc[t] = "add_push" /\ obj[t] \in 1..mapped /\ mapped \in Nat /\ mapped' = mapped
  BY Sizes DEF AddPush, IInv, TypeOK, Locals, Adding
<1>2. obj[t] \in ToAdd(t) /\ ToAdd(t) = obj[t]..mapped
  BY <1>1 DEF ToAdd
<1>3. ToAdd(t)' = ToAdd(t) \ {obj[t]}
  <2>1. CASE MoreToAdd(t)
    <3>1. obj' = [obj EXCEPT ![t] = @ + 1] /\ pc' = [pc EXCEPT ![t] = "add_link"]
      BY <2>1 DEF AddPush, Goto
    <3>2. ToAdd(t)' = (obj[t] + 1)..mapped
      BY <3>1, <1>1 DEF ToAdd, IInv, TypeOK
    <3> QED BY <3>2, <1>1, <1>2
  <2>2. CASE ~MoreToAdd(t)
    <3>1. pc'[t] \in {"take", "idle"}
      BY <2>2 DEF AddPush, Goto, IInv, TypeOK
    <3>2. obj[t] = mapped
      BY <2>2, <1>1 DEF MoreToAdd
    <3> QED BY <3>1, <3>2, <1>1, <1>2 DEF ToAdd
  <2> QED BY <2>1, <2>2
<1>4. \A u \in Threads : u # t => pc'[u] = pc[u] /\ obj'[u] = obj[u]
  BY DEF AddPush, Goto, IInv, TypeOK
<1>5. \A u \in Threads : u # t => ToAdd(u)' = ToAdd(u)
  BY <1>4, <1>1 DEF ToAdd
<1> QED BY <1>1, <1>2, <1>3, <1>5

\* Every step leaves each provided object somewhere, and nothing else.
LEMMA NextLost == IInv /\ NoObjectLost /\ [Next]_vars => NoObjectLost'
<1> SUFFICES ASSUME IInv, NoObjectLost, [Next]_vars, NEW o
             PROVE  o \in 1..mapped' <=> Somewhere(o)'
  BY LostPointwise
<1>1. o \in 1..mapped <=> Somewhere(o)
  BY LostPointwise
<1>2. CASE UNCHANGED vars
  <2>1. Somewhere(o)' <=> Somewhere(o)
    BY <1>2 DEF vars, Somewhere, OnStack, Own, InFlight, ToAdd
  <2> QED BY <1>1, <1>2, <2>1 DEF vars
<1>3. CASE Next
  <2>1. PICK t \in Threads : Quiet(t) \/ AddPush(t) \/ Unlink(t) \/ FreePush(t)
    BY <1>3, NextCases
  <2>2. CASE Quiet(t) /\ ~GetMemory(t)
    BY <1>1, <2>2, QuietStep, ToAddStable DEF Somewhere
  <2>3. CASE GetMemory(t)
    <3>1. OnStack' = OnStack /\ \A u \in Threads : Own(u)' = Own(u)
      BY <2>3, QuietStep DEF Quiet
    <3>2. Somewhere(o)' <=> Somewhere(o) \/ o \in (mapped + 1)..(mapped + ChunkObjs)
      BY <3>1, <2>3, GetMemoryAdds DEF Somewhere
    <3>3. mapped \in Nat /\ mapped' = mapped + ChunkObjs
      BY <2>3, GetMemoryAdds, Sizes DEF IInv, TypeOK
    <3> QED BY <1>1, <3>2, <3>3, Sizes
  <2>4. CASE AddPush(t)
    <3>1. obj[t] \in Addr /\ PushObject(t)
      BY <2>4, Sizes DEF IInv, TypeOK, Locals, Addr, AddPush, Adding
    <3>2. OnStack' = OnStack \cup {obj[t]} /\ \A u \in Threads : Own(u)' = Own(u)
      BY <3>1, <2>4, OnStackPush, OwnStable DEF IInv
    <3>3. Somewhere(o)' <=> Somewhere(o)
      BY <3>2, <2>4, AddPushAdds DEF Somewhere
    <3> QED BY <1>1, <3>3, <2>4, AddPushAdds
  <2>5. CASE Unlink(t)
    <3>1. mapped' = mapped /\ \A u \in Threads : ToAdd(u)' = ToAdd(u)
      BY <2>5, ToAddStable DEF Unlink, GetMemory, Goto
    <3>2. Somewhere(o)' <=> Somewhere(o)
      BY <3>1, <2>5, OnStackPop, UnlinkOwn DEF Somewhere
    <3> QED BY <1>1, <3>1, <3>2
  <2>6. CASE FreePush(t)
    <3>1. mapped' = mapped /\ \A u \in Threads : ToAdd(u)' = ToAdd(u)
      BY <2>6, ToAddStable DEF FreePush, GetMemory, Goto
    <3>2. OnStack' = OnStack \cup {obj[t]}
      BY <2>6, FreePushOwn, OnStackPush DEF FreePush
    <3>3. Somewhere(o)' <=> Somewhere(o)
      BY <3>1, <3>2, <2>6, FreePushOwn DEF Somewhere
    <3> QED BY <1>1, <3>1, <3>3
  <2> QED BY <2>1, <2>2, <2>3, <2>4, <2>5, <2>6
<1> QED BY <1>2, <1>3

\* The pool of mempool.c loses no object: whatever the threads do, every object malloc has
\* provided is on the free list, with a caller, on its way or still to be added by
\* add_memory (mempool.c:98-99), for any number of threads and any sizes.
THEOREM NothingLost == Spec => []NoObjectLost
<1>1. Init => NoObjectLost
  <2> SUFFICES ASSUME Init, NEW o PROVE o \in 1..mapped <=> Somewhere(o)
    BY LostPointwise
  <2> QED BY EmptySeq DEF Init, Somewhere, OnStack, Own, InFlight, ToAdd
<1> QED BY <1>1, NextLost, Invariance, PTL DEF Spec
=============================================================================
