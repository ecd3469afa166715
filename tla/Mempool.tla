------------------------------ MODULE Mempool ------------------------------
(***************************************************************************)
(* The memory pools of mempool.c, from which the unwinder takes its DWARF  *)
(* register states, CIE infos and trace caches.  A pool is a singly linked *)
(* free list threaded through the free objects themselves, a counter       *)
(* num_free and an sx lock.  Each C statement that touches the pool is a   *)
(* step of its own, so that it is the lock and not the model that makes    *)
(* the operations atomic.                                                  *)
(*                                                                         *)
(* GET_MEMORY is malloc(9) with M_WAITOK: it sleeps instead of returning   *)
(* NULL, so the fallbacks of expand() to a smaller chunk and to sos_alloc  *)
(* (mempool.c:110-120) cannot run in this build and are left out.          *)
(***************************************************************************)
EXTENDS Integers, Sequences, FiniteSets

CONSTANTS Threads,      \* the kernel threads that use the pool
          NoThread,     \* the owner of a lock that is free
          ObjSize,      \* mempool_init's obj_size argument
          ReserveArg,   \* mempool_init's reserve argument, 0 for the default
          PageSize,     \* PAGE_SIZE
          MaxAlign,     \* MAX_ALIGN
          MemoryChunks, \* how many chunks the kernel has memory for
          MaxHeld,      \* how many objects a thread holds at most
          Data          \* what callers store in the first word of an object

UNW_ALIGN(x, a) == ((x + a - 1) \div a) * a

obj_size == UNW_ALIGN(ObjSize, MaxAlign)

\* mempool_init's choice of pool->reserve
reserve ==
  IF ReserveArg # 0 THEN ReserveArg
  ELSE LET quarter == (PageSize \div obj_size) \div 4
       IN  IF quarter # 0 THEN quarter ELSE 16

chunk_size == UNW_ALIGN(2 * reserve * obj_size, PageSize)

\* How many objects the loop of add_memory cuts out of a chunk.
ChunkObjs == chunk_size \div obj_size

Brk == MemoryChunks * ChunkObjs

\* Objects are numbered in the order in which malloc provides them.
Addr == 1..Brk
NULL == 0

ASSUME PoolAssumption ==
  /\ NoThread \notin Threads
  /\ ObjSize \in Nat \ {0} /\ ReserveArg \in Nat
  /\ PageSize \in Nat \ {0} /\ MaxAlign \in Nat \ {0}
  /\ MemoryChunks \in Nat \ {0} /\ MaxHeld \in Nat

VARIABLES
  lock,       \* pool->lock: its owner
  free_list,  \* pool->free_list
  num_free,   \* pool->num_free
  next,       \* next[o]: the first word of object o, its link while it is free
  mapped,     \* how many objects malloc has provided so far
  phase,      \* whether mempool_init has returned
  pc,         \* pc[t]: what thread t does next
  obj,        \* obj[t]: the local variable obj of the operation t is in
  held,       \* held[t]: the objects the callers in thread t have
  stack       \* history variable: the free objects, last freed first

poolVars == <<free_list, num_free, next, stack>>
vars == <<lock, free_list, num_free, next, mapped, phase, pc, obj, held, stack>>

Goto(t, from, to) == pc[t] = from /\ pc' = [pc EXCEPT ![t] = to]

Init ==
  /\ lock = NoThread
  /\ free_list = NULL
  /\ num_free = 0
  /\ next = [o \in Addr |-> NULL]
  /\ mapped = 0
  /\ phase = "uninitialized"
  /\ pc = [t \in Threads |-> "idle"]
  /\ obj = [t \in Threads |-> NULL]
  /\ held = [t \in Threads |-> {}]
  /\ stack = <<>>
-----------------------------------------------------------------------------
\* mempool_init: clears the pool and expands it, without taking the lock.  The
\* library calls it before anyone else can reach the pool.
mempool_init(t) ==
  /\ Goto(t, "idle", "expand")
  /\ phase = "uninitialized"
  /\ \A u \in Threads : pc[u] = "idle"
  /\ UNCHANGED <<lock, poolVars, mapped, phase, obj, held>>

\* Some caller in thread t calls mempool_alloc.
CallAlloc(t) ==
  /\ Goto(t, "idle", "alloc_lock")
  /\ phase = "initialized"
  /\ Cardinality(held[t]) < MaxHeld
  /\ UNCHANGED <<lock, poolVars, mapped, phase, obj, held>>

\* Mutant: mempool_alloc without the lock.
AllocLockUnguarded(t) ==
  /\ Goto(t, "alloc_lock", "check")
  /\ lock' = t
  /\ UNCHANGED <<poolVars, mapped, phase, obj, held>>

AllocLock(t) ==
  /\ Goto(t, "alloc_lock", "check")
  /\ lock = NoThread
  /\ lock' = t
  /\ UNCHANGED <<poolVars, mapped, phase, obj, held>>

\* Mutants: the comparison off by one, and off by two.
NeedsMemoryBelow == num_free < reserve
NeedsMemoryLate == num_free + 1 < reserve

\* mempool_alloc: if (pool->num_free <= pool->reserve) expand (pool);
NeedsMemory == num_free <= reserve

AllocCheck(t) ==
  /\ Goto(t, "check", IF NeedsMemory THEN "expand" ELSE "take")
  /\ UNCHANGED <<lock, poolVars, mapped, phase, obj, held>>

\* expand: malloc(9) provides a chunk, or sleeps (the guard) until it can.  The
\* loop of add_memory then starts at the chunk's first object.
GetMemory(t) ==
  /\ Goto(t, "expand", "add_link")
  /\ mapped + ChunkObjs <= Brk
  /\ mapped' = mapped + ChunkObjs
  /\ obj' = [obj EXCEPT ![t] = mapped + 1]
  /\ UNCHANGED <<lock, poolVars, phase, held>>

\* free_object: obj->next = pool->free_list;
LinkObject(t) == next' = [next EXCEPT ![obj[t]] = free_list]

\* Mutant: free_object does not count the object.
PushObjectUncounted(t) ==
  /\ free_list' = obj[t]
  /\ stack' = <<obj[t]>> \o stack
  /\ UNCHANGED num_free

\* free_object: pool->free_list = obj; ++pool->num_free;
PushObject(t) ==
  /\ free_list' = obj[t]
  /\ num_free' = num_free + 1
  /\ stack' = <<obj[t]>> \o stack

AddLink(t) ==
  /\ Goto(t, "add_link", "add_push")
  /\ LinkObject(t)
  /\ UNCHANGED <<lock, free_list, num_free, stack, mapped, phase, obj, held>>

\* Mutants: the loop of add_memory stops one object early, or one late.
MoreToAddEarly(t) == obj[t] + 1 < mapped
MoreToAddLate(t) == obj[t] <= mapped

\* add_memory's loop goes on as long as a whole object is left.
MoreToAdd(t) == obj[t] < mapped

\* The last object of the chunk ends expand, which returns to mempool_alloc or,
\* the first time, to mempool_init.
AddPush(t) ==
  /\ pc[t] = "add_push"
  /\ PushObject(t)
  /\ IF MoreToAdd(t)
       THEN /\ obj' = [obj EXCEPT ![t] = @ + 1]
            /\ Goto(t, "add_push", "add_link")
            /\ UNCHANGED phase
       ELSE /\ Goto(t, "add_push", IF phase = "initialized" THEN "take" ELSE "idle")
            /\ phase' = "initialized"
            /\ UNCHANGED obj
  /\ UNCHANGED <<lock, next, mapped, held>>

\* mempool_alloc: assert (pool->num_free > 0); --pool->num_free;
\* obj = pool->free_list;
Take(t) ==
  /\ Goto(t, "take", "unlink")
  /\ num_free > 0
  /\ num_free' = num_free - 1
  /\ obj' = [obj EXCEPT ![t] = free_list]
  /\ UNCHANGED <<lock, free_list, next, stack, mapped, phase, held>>

\* mempool_alloc: pool->free_list = obj->next;
Unlink(t) ==
  /\ Goto(t, "unlink", "alloc_unlock")
  /\ free_list' = next[obj[t]]
  /\ stack' = Tail(stack)
  /\ UNCHANGED <<lock, num_free, next, mapped, phase, obj, held>>

AllocUnlock(t) ==
  /\ Goto(t, "alloc_unlock", "idle")
  /\ lock' = NoThread
  /\ held' = [held EXCEPT ![t] = @ \cup {obj[t]}]
  /\ UNCHANGED <<poolVars, mapped, phase, obj>>

\* A caller stores its own data into an object it has, over the link (the
\* reg_state and cie_info structures begin at the object's first byte).
Store(t) ==
  /\ pc[t] = "idle"
  /\ \E o \in held[t], v \in Data : next' = [next EXCEPT ![o] = v]
  /\ UNCHANGED <<lock, free_list, num_free, stack, mapped, phase, pc, obj, held>>

\* Some caller in thread t calls mempool_free on an object it has.
CallFree(t) ==
  /\ Goto(t, "idle", "free_lock")
  /\ \E o \in held[t] :
       /\ obj' = [obj EXCEPT ![t] = o]
       /\ held' = [held EXCEPT ![t] = @ \ {o}]
  /\ UNCHANGED <<lock, poolVars, mapped, phase>>

FreeLock(t) ==
  /\ Goto(t, "free_lock", "free_link")
  /\ lock = NoThread
  /\ lock' = t
  /\ UNCHANGED <<poolVars, mapped, phase, obj, held>>

FreeLink(t) ==
  /\ Goto(t, "free_link", "free_push")
  /\ LinkObject(t)
  /\ UNCHANGED <<lock, free_list, num_free, stack, mapped, phase, obj, held>>

FreePush(t) ==
  /\ Goto(t, "free_push", "free_unlock")
  /\ PushObject(t)
  /\ UNCHANGED <<lock, next, mapped, phase, obj, held>>

\* Mutant: mempool_free returns with the lock held.
FreeUnlockForgotten(t) ==
  /\ Goto(t, "free_unlock", "idle")
  /\ UNCHANGED <<lock, poolVars, mapped, phase, obj, held>>

FreeUnlock(t) ==
  /\ Goto(t, "free_unlock", "idle")
  /\ lock' = NoThread
  /\ UNCHANGED <<poolVars, mapped, phase, obj, held>>

mempool_alloc(t) ==
  CallAlloc(t) \/ AllocLock(t) \/ AllocCheck(t) \/ Take(t) \/ Unlink(t)
    \/ AllocUnlock(t)

expand(t) == GetMemory(t) \/ AddLink(t) \/ AddPush(t)

mempool_free(t) ==
  CallFree(t) \/ FreeLock(t) \/ FreeLink(t) \/ FreePush(t) \/ FreeUnlock(t)

Next ==
  \E t \in Threads :
    mempool_init(t) \/ mempool_alloc(t) \/ expand(t) \/ mempool_free(t) \/ Store(t)

Spec == Init /\ [][Next]_vars

\* A thread that is inside an operation is scheduled again; whether a caller
\* starts an operation is its own business.
Inside(t) == pc[t] # "idle" /\ (mempool_alloc(t) \/ expand(t) \/ mempool_free(t))
FairSpec == Spec /\ \A t \in Threads : WF_vars(Inside(t))
-----------------------------------------------------------------------------
Locked == {"check", "take", "unlink", "alloc_unlock",
           "free_link", "free_push", "free_unlock"}
Expanding == {"expand", "add_link", "add_push"}

TypeOK ==
  /\ lock \in Threads \cup {NoThread}
  /\ free_list \in Addr \cup {NULL}
  /\ num_free \in Nat
  /\ next \in [Addr -> Addr \cup {NULL} \cup Data]
  /\ mapped \in 0..Brk
  /\ phase \in {"uninitialized", "initialized"}
  /\ pc \in [Threads -> {"idle", "alloc_lock", "free_lock"} \cup Locked \cup Expanding]
  /\ obj \in [Threads -> Addr \cup {NULL}]
  /\ held \in [Threads -> SUBSET Addr]
  /\ stack \in Seq(Addr)

\* The object thread t has between the caller's hands and the free list.
InFlight(t) ==
  IF pc[t] \in {"alloc_unlock", "free_lock", "free_link", "free_push"}
    THEN {obj[t]} ELSE {}

Own(t) == held[t] \cup InFlight(t)

OnStack == {stack[i] : i \in 1..Len(stack)}

\* The objects of the current chunk that add_memory has still to free.
ToAdd(t) == IF pc[t] \in {"add_link", "add_push"} THEN obj[t]..mapped ELSE {}

\* The free list the pool's pointers spell is the stack of the objects freed and
\* not yet handed out again: following next from free_list (mempool.c:88-89,
\* 164-165) meets exactly those objects, in order, and ends in NULL, whatever the
\* callers stored into the objects they have.
FreeListIsStack ==
  /\ free_list = IF stack = <<>> THEN NULL ELSE stack[1]
  /\ \A i \in 1..Len(stack) :
       next[stack[i]] = IF i = Len(stack) THEN NULL ELSE stack[i + 1]

\* num_free counts the objects on the free list, except between the two
\* statements of mempool_alloc that take one off (mempool.c:163-165).
NumFreeCounts ==
  num_free = IF \E t \in Threads : pc[t] = "unlink" THEN Len(stack) - 1
             ELSE Len(stack)

\* No object is handed to two callers, or handed out while it is on the free list,
\* or on the free list twice.
ExclusiveOwnership ==
  /\ \A i, j \in 1..Len(stack) : stack[i] = stack[j] => i = j
  /\ \A t \in Threads, i \in 1..Len(stack) : stack[i] \notin Own(t)
  /\ \A t \in Threads : held[t] \cap InFlight(t) = {}
  /\ \A t, u \in Threads : t # u => Own(t) \cap Own(u) = {}

\* Every object malloc provided is free, with a caller, on its way between the two
\* or still to be added: the pool loses none.
NoObjectLost ==
  1..mapped = OnStack \cup UNION {Own(t) \cup ToAdd(t) : t \in Threads}

\* Whenever the lock is free the list holds at least `reserve' objects
\* (include/mempool.h:66, "minimum (desired) size of the free-list").
ReserveKept == phase = "initialized" /\ lock = NoThread => num_free >= reserve

\* The assertion of mempool_alloc (mempool.c:161) never fails.
NumFreePositive == \A t \in Threads : pc[t] = "take" => num_free > 0

\* A thread that takes the pool's lock gives it back, as long as malloc does not
\* run out of memory: no operation keeps the others waiting for ever.
LockIsReleased == (lock # NoThread) ~> (lock = NoThread)
-----------------------------------------------------------------------------
\* The pool implements the abstract object pool.
Pool == INSTANCE ObjectPool WITH
          free <- OnStack,
          own  <- [t \in Threads |-> Own(t)]

\* Every behaviour of the pool's lists, counters and locks is one of the abstract
\* pool: an object is taken at the statement that unlinks it and given back at the
\* statement that links it in.
ImplementsPool == Pool!Spec
=============================================================================
