----------------------------- MODULE ObjectPool -----------------------------
(***************************************************************************)
(* What a memory pool promises its callers (include/mempool.h): every      *)
(* object the pool ever obtained is free or belongs to exactly one thread, *)
(* an allocation hands out an object that was free, and a freed object     *)
(* can be handed out again.  Mempool.tla implements this specification.    *)
(***************************************************************************)
CONSTANTS Threads,  \* the kernel threads that use the pool
          Addr      \* the addresses of objects

VARIABLES free,     \* the set of free objects
          own       \* own[t]: the objects thread t has in its hands

vars == <<free, own>>

Owned == UNION {own[t] : t \in Threads}

Init == free = {} /\ own = [t \in Threads |-> {}]

\* The pool obtains an object that nobody knows of yet.
Grow(o) ==
  /\ o \notin free /\ o \notin Owned
  /\ free' = free \cup {o}
  /\ UNCHANGED own

Alloc(t, o) ==
  /\ o \in free
  /\ free' = free \ {o}
  /\ own' = [own EXCEPT ![t] = @ \cup {o}]

Free(t, o) ==
  /\ o \in own[t]
  /\ own' = [own EXCEPT ![t] = @ \ {o}]
  /\ free' = free \cup {o}

Next ==
  \/ \E o \in Addr : Grow(o)
  \/ \E t \in Threads, o \in Addr : Alloc(t, o) \/ Free(t, o)

Spec == Init /\ [][Next]_vars
=============================================================================
