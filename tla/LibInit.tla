------------------------------ MODULE LibInit ------------------------------
(***************************************************************************)
(* The lazy initialisation of the library (Gglobal.c, Ginit_local.c,       *)
(* Ginit.c, global.c): the first call of unw_init_local or of              *)
(* unw_get_accessors runs tdep_init, a double-checked lock around the      *)
(* initialisation of the memory pools and of the local address space.      *)
(* Every access to tdep_init_done, the lock, the pools and the address     *)
(* space is a step, so that several threads may make the first call.       *)
(***************************************************************************)
EXTENDS Integers, FiniteSets

CONSTANTS Threads, NoThread,
          MaxInits  \* bound on how often the pools are initialised

ASSUME InitAssumption == NoThread \notin Threads /\ MaxInits \in Nat \ {0}

VARIABLES
  tdep_init_done,
  lock,       \* x86_64_lock: "uninitialized", NoThread when free, or its owner
  pools,      \* dwarf_reg_state_pool and dwarf_cie_info_pool
  accessors,  \* local_addr_space.acc
  pc,         \* pc[t]: what thread t does next
  inits,      \* history: how often dwarf_init was begun
  clobbered   \* history: lock_init was applied to a lock that a thread held

vars == <<tdep_init_done, lock, pools, accessors, pc, inits, clobbered>>

Goto(t, from, to) == pc[t] = from /\ pc' = [pc EXCEPT ![t] = to]

\* Static storage: everything is zero when the module is loaded.
Init ==
  /\ tdep_init_done = FALSE
  /\ lock = "uninitialized"
  /\ pools = "zero"
  /\ accessors = "zero"
  /\ pc = [t \in Threads |-> "start"]
  /\ inits = 0
  /\ clobbered = FALSE
-----------------------------------------------------------------------------
\* unw_init_local reads tdep_init_done without the lock.
unw_init_local(t) ==
  /\ Goto(t, "start", IF tdep_init_done THEN "using" ELSE "clear")
  /\ UNCHANGED <<tdep_init_done, lock, pools, accessors, inits, clobbered>>

\* So does unw_get_accessors, which goes straight to tdep_init.
unw_get_accessors(t) ==
  /\ Goto(t, "start", IF tdep_init_done THEN "using" ELSE "lock_init")
  /\ UNCHANGED <<tdep_init_done, lock, pools, accessors, inits, clobbered>>

\* x86_64_local_addr_space_init clears the address space and fills it in again.
\* unw_init_local calls it without the lock, before tdep_init.
ClearLocalAddrSpace(t) ==
  /\ Goto(t, "clear", "fill") \/ Goto(t, "init_clear", "init_fill")
  /\ accessors' = "zero"
  /\ UNCHANGED <<tdep_init_done, lock, pools, inits, clobbered>>

FillLocalAddrSpace(t) ==
  /\ Goto(t, "fill", "lock_init") \/ Goto(t, "init_fill", "set_done")
  /\ accessors' = "ready"
  /\ UNCHANGED <<tdep_init_done, lock, pools, inits, clobbered>>

\* tdep_init: lock_init (&x86_64_lock, ...), which makes the lock a free one.
LockInit(t) ==
  /\ Goto(t, "lock_init", "acquire")
  /\ lock' = NoThread
  /\ clobbered' = (clobbered \/ lock \in Threads)
  /\ UNCHANGED <<tdep_init_done, pools, accessors, inits>>

LockAcquire(t) ==
  /\ Goto(t, "acquire", "recheck")
  /\ lock = NoThread
  /\ lock' = t
  /\ UNCHANGED <<tdep_init_done, pools, accessors, inits, clobbered>>

\* Mutants: no second test of tdep_init_done, or the test the other way round.
RecheckDropped(t) ==
  /\ Goto(t, "recheck", "pools_clear")
  /\ UNCHANGED <<tdep_init_done, lock, pools, accessors, inits, clobbered>>

RecheckInverted(t) ==
  /\ Goto(t, "recheck", IF tdep_init_done THEN "pools_clear" ELSE "release")
  /\ UNCHANGED <<tdep_init_done, lock, pools, accessors, inits, clobbered>>

\* if (tdep_init_done) goto out;
Recheck(t) ==
  /\ Goto(t, "recheck", IF tdep_init_done THEN "release" ELSE "pools_clear")
  /\ UNCHANGED <<tdep_init_done, lock, pools, accessors, inits, clobbered>>

\* dwarf_init: mempool_init clears each pool, its lock included, and expands it.
ClearPools(t) ==
  /\ Goto(t, "pools_clear", "pools_fill")
  /\ inits < MaxInits
  /\ inits' = inits + 1
  /\ pools' = "zero"
  /\ UNCHANGED <<tdep_init_done, lock, accessors, clobbered>>

\* Mutant: only the first of the two pools is initialised.
FillOnePool(t) ==
  /\ Goto(t, "pools_fill", "init_clear")
  /\ pools' = "half"
  /\ UNCHANGED <<tdep_init_done, lock, accessors, inits, clobbered>>

FillPools(t) ==
  /\ Goto(t, "pools_fill", "init_clear")
  /\ pools' = "ready"
  /\ UNCHANGED <<tdep_init_done, lock, accessors, inits, clobbered>>

SetDone(t) ==
  /\ Goto(t, "set_done", "release")
  /\ tdep_init_done' = TRUE
  /\ UNCHANGED <<lock, pools, accessors, inits, clobbered>>

\* lock_release; to release a lock that another thread's lock_init has freed, or that
\* another thread holds, is undefined in sx(9): the thread stops there.
LockRelease(t) ==
  /\ IF lock = t
       THEN Goto(t, "release", "using") /\ lock' = NoThread
       ELSE Goto(t, "release", "undefined") /\ UNCHANGED lock
  /\ UNCHANGED <<tdep_init_done, pools, accessors, inits, clobbered>>

\* The thread has unwound its stack; later it unwinds another.
Unwound(t) ==
  /\ Goto(t, "using", "start")
  /\ UNCHANGED <<tdep_init_done, lock, pools, accessors, inits, clobbered>>

tdep_init(t) ==
  \/ LockInit(t) \/ LockAcquire(t) \/ Recheck(t) \/ ClearPools(t) \/ FillPools(t)
  \/ SetDone(t) \/ LockRelease(t)

Next ==
  \E t \in Threads :
    \/ unw_init_local(t) \/ unw_get_accessors(t)
    \/ ClearLocalAddrSpace(t) \/ FillLocalAddrSpace(t)
    \/ tdep_init(t) \/ Unwound(t)

Spec == Init /\ [][Next]_vars
-----------------------------------------------------------------------------
Body == {"pools_clear", "pools_fill", "init_clear", "init_fill", "set_done"}
Holding == Body \cup {"recheck", "release"}

TypeOK ==
  /\ tdep_init_done \in BOOLEAN
  /\ lock \in Threads \cup {NoThread, "uninitialized"}
  /\ pools \in {"zero", "ready"} /\ accessors \in {"zero", "ready"}
  /\ pc \in [Threads -> Holding \cup {"start", "clear", "fill", "lock_init", "acquire",
                                      "using", "undefined"}]
  /\ inits \in 0..MaxInits
  /\ clobbered \in BOOLEAN

\* No thread gets past unw_init_local before the pools and the address space have
\* been initialised once, whichever thread did it (Ginit_local.c:39, Gglobal.c:92).
InitialisedBeforeUse ==
  (\E t \in Threads : pc[t] = "using") => tdep_init_done /\ inits > 0

\* The double-checked lock does its job as long as no thread's lock_init
\* (Gglobal.c:78) hits a lock that is held: then one thread at a time is inside
\* tdep_init's critical section, the pools are initialised once, and they stay ready
\* from the moment tdep_init_done is set.
OnceUnlessClobbered ==
  ~clobbered =>
    /\ \A t, u \in Threads : pc[t] \in Holding /\ pc[u] \in Holding => t = u
    /\ inits <= 1
    /\ tdep_init_done => pools = "ready"
=============================================================================
