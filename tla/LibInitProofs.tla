--------------------------- MODULE LibInitProofs ---------------------------
(***************************************************************************)
(* Proofs about LibInit, for any number of threads.                        *)
(***************************************************************************)
EXTENDS LibInit, TLAPS

PoolsBegun == {"pools_fill", "init_clear", "init_fill", "set_done"}
PoolsReady == {"init_clear", "init_fill", "set_done"}

\* What holds whatever lock_init does to the lock.
Progress ==
  /\ \A t \in Threads : pc[t] \in PoolsBegun => inits > 0
  /\ \A t \in Threads : pc[t] \in {"release", "using"} => tdep_init_done
  /\ tdep_init_done => inits > 0

\* What holds as long as lock_init has not hit a lock that is held.
Exclusion ==
  /\ \A t \in Threads : pc[t] \in Holding => lock = t
  /\ \A t \in Threads : pc[t] \in Body => ~tdep_init_done
  /\ ~tdep_init_done /\ inits > 0 => \E t \in Threads : pc[t] \in PoolsBegun
  /\ inits <= 1
  /\ \A t \in Threads : pc[t] \in PoolsReady => pools = "ready"
  /\ tdep_init_done => pools = "ready"

\* The inductive invariant: OnceUnlessClobbered alone does not say why a thread about
\* to clear the pools is the first one to do so.
IInv == TypeOK /\ Progress /\ (~clobbered => Exclusion)

-----------------------------------------------------------------------------
\* The initial state satisfies the inductive invariant.
LEMMA InitIInv == Init => IInv
<1> SUFFICES ASSUME Init PROVE IInv
  OBVIOUS
<1>1. TypeOK
  <2>1. inits \in 0..MaxInits
    BY InitAssumption DEF Init
  <2>2. tdep_init_done \in BOOLEAN /\ clobbered \in BOOLEAN
    BY Zenon DEF Init
  <2> QED
    BY <2>1, <2>2 DEF Init, TypeOK
<1>2. \A t \in Threads : pc[t] = "start"
  BY DEF Init
<1>3. Progress
  BY <1>2 DEF Init, Progress, PoolsBegun
<1>4. Exclusion
  BY <1>2 DEF Init, Exclusion, Holding, Body, PoolsBegun, PoolsReady
<1> QED
  BY <1>1, <1>3, <1>4 DEF IInv

\* Every step keeps the variables in their types.
LEMMA TypePreserved == TypeOK /\ [Next]_vars => TypeOK'
<1> SUFFICES ASSUME TypeOK, [Next]_vars PROVE TypeOK'
  OBVIOUS
<1>1. CASE UNCHANGED vars
  BY <1>1 DEF TypeOK, vars
<1>2. ASSUME NEW t \in Threads, unw_init_local(t) \/ unw_get_accessors(t) PROVE TypeOK'
  BY <1>2 DEF TypeOK, unw_init_local, unw_get_accessors, Goto
<1>3. ASSUME NEW t \in Threads, ClearLocalAddrSpace(t) \/ FillLocalAddrSpace(t)
      PROVE TypeOK'
  BY <1>3 DEF TypeOK, ClearLocalAddrSpace, FillLocalAddrSpace, Goto, Holding, Body
<1>4. ASSUME NEW t \in Threads, tdep_init(t) PROVE TypeOK'
  <2>1. CASE LockInit(t)
    BY <2>1 DEF TypeOK, LockInit, Goto
  <2>2. CASE LockAcquire(t) \/ Recheck(t)
    BY <2>2 DEF TypeOK, LockAcquire, Recheck, Goto, Holding, Body
  <2>3. CASE ClearPools(t) \/ FillPools(t)
    BY <2>3, InitAssumption DEF TypeOK, ClearPools, FillPools, Goto, Holding, Body
  <2>4. CASE SetDone(t) \/ LockRelease(t)
    BY <2>4 DEF TypeOK, SetDone, LockRelease, Goto, Holding, Body
  <2> QED
    BY <1>4, <2>1, <2>2, <2>3, <2>4 DEF tdep_init
<1>5. ASSUME NEW t \in Threads, Unwound(t) PROVE TypeOK'
  BY <1>5 DEF TypeOK, Unwound, Goto
<1> QED
  BY <1>1, <1>2, <1>3, <1>4, <1>5 DEF Next

\* Every step keeps the order in which a thread initialises and uses the library.
LEMMA ProgressPreserved == TypeOK /\ Progress /\ [Next]_vars => Progress'
<1> SUFFICES ASSUME TypeOK, Progress, [Next]_vars PROVE Progress'
  OBVIOUS
<1> USE DEF TypeOK, Progress, PoolsBegun
<1>1. CASE UNCHANGED vars
  BY <1>1 DEF vars
<1>2. ASSUME NEW t \in Threads, unw_init_local(t) \/ unw_get_accessors(t) PROVE Progress'
  BY <1>2 DEF unw_init_local, unw_get_accessors, Goto
<1>3. ASSUME NEW t \in Threads, ClearLocalAddrSpace(t) \/ FillLocalAddrSpace(t)
      PROVE Progress'
  BY <1>3 DEF ClearLocalAddrSpace, FillLocalAddrSpace, Goto
<1>4. ASSUME NEW t \in Threads, tdep_init(t) PROVE Progress'
  <2>1. CASE LockInit(t) \/ LockAcquire(t) \/ Recheck(t)
    BY <2>1 DEF LockInit, LockAcquire, Recheck, Goto
  <2>2. CASE ClearPools(t) \/ FillPools(t)
    BY <2>2 DEF ClearPools, FillPools, Goto
  <2>3. CASE SetDone(t) \/ LockRelease(t)
    BY <2>3 DEF SetDone, LockRelease, Goto
  <2> QED
    BY <1>4, <2>1, <2>2, <2>3 DEF tdep_init
<1>5. ASSUME NEW t \in Threads, Unwound(t) PROVE Progress'
  BY <1>5 DEF Unwound, Goto
<1> QED
  BY <1>1, <1>2, <1>3, <1>4, <1>5 DEF Next

\* Every step that leaves the lock unclobbered keeps the exclusion: the thread that
\* passes the second test of tdep_init_done is the first to do so.
LEMMA ExclusionPreserved ==
  TypeOK /\ Progress /\ Exclusion /\ [Next]_vars /\ ~clobbered' => Exclusion'
<1> SUFFICES ASSUME TypeOK, Progress, Exclusion, [Next]_vars, ~clobbered' PROVE Exclusion'
  OBVIOUS
<1> USE InitAssumption DEF TypeOK, Exclusion, PoolsBegun, PoolsReady, Holding, Body
<1>1. CASE UNCHANGED vars
  BY <1>1 DEF vars
<1>2. ASSUME NEW t \in Threads, unw_init_local(t) \/ unw_get_accessors(t)
      PROVE Exclusion'
  BY <1>2 DEF unw_init_local, unw_get_accessors, Goto
<1>3. ASSUME NEW t \in Threads, ClearLocalAddrSpace(t) \/ FillLocalAddrSpace(t)
      PROVE Exclusion'
  BY <1>3 DEF ClearLocalAddrSpace, FillLocalAddrSpace, Goto
<1>4. ASSUME NEW t \in Threads, LockInit(t) PROVE Exclusion'
  BY <1>4 DEF LockInit, Goto
<1>5. ASSUME NEW t \in Threads, LockAcquire(t) PROVE Exclusion'
  BY <1>5 DEF LockAcquire, Goto
<1>6. ASSUME NEW t \in Threads, Recheck(t) PROVE Exclusion'
  BY <1>6 DEF Recheck, Goto
<1>7. ASSUME NEW t \in Threads, ClearPools(t) PROVE Exclusion'
  <2>1. lock = t /\ ~tdep_init_done /\ inits = 0
    BY <1>7 DEF ClearPools, Goto
  <2> QED
    BY <1>7, <2>1 DEF ClearPools, Goto
<1>8. ASSUME NEW t \in Threads, FillPools(t) PROVE Exclusion'
  BY <1>8 DEF FillPools, Goto
<1>9. ASSUME NEW t \in Threads, SetDone(t) PROVE Exclusion'
  BY <1>9 DEF SetDone, Goto
<1>10. ASSUME NEW t \in Threads, LockRelease(t) PROVE Exclusion'
  BY <1>10 DEF LockRelease, Goto, Progress
<1>11. ASSUME NEW t \in Threads, Unwound(t) PROVE Exclusion'
  BY <1>11 DEF Unwound, Goto
<1> QED
  BY <1>1, <1>2, <1>3, <1>4, <1>5, <1>6, <1>7, <1>8, <1>9, <1>10, <1>11
     DEF Next, tdep_init

\* A lock that has been clobbered stays so.
LEMMA ClobberedStays == TypeOK /\ [Next]_vars /\ clobbered => clobbered'
  BY DEF TypeOK, Next, vars, tdep_init, unw_init_local, unw_get_accessors,
     ClearLocalAddrSpace, FillLocalAddrSpace, LockInit, LockAcquire, Recheck, ClearPools,
     FillPools, SetDone, LockRelease, Unwound

\* The inductive invariant holds of every reachable state.
THEOREM Invariance == Spec => []IInv
<1>1. IInv /\ [Next]_vars => IInv'
  BY TypePreserved, ProgressPreserved, ExclusionPreserved, ClobberedStays DEF IInv
<1> QED
  BY InitIInv, <1>1, PTL DEF Spec

\* LibInit's variables keep their types.
THEOREM InitTypeCorrect == Spec => []TypeOK
  BY Invariance, PTL DEF IInv

\* With any number of threads, none uses the library before it was initialised
\* (unw_init_local and tdep_init).
THEOREM InitialisationCorrect == Spec => []InitialisedBeforeUse
<1>1. IInv => InitialisedBeforeUse
  BY DEF IInv, Progress, InitialisedBeforeUse
<1> QED
  BY Invariance, <1>1, PTL

\* With any number of threads, tdep_init's double-checked lock initialises the pools
\* once, and for good, unless its lock_init hits a lock that is held.
THEOREM DoubleCheckCorrect == Spec => []OnceUnlessClobbered
<1>1. IInv => OnceUnlessClobbered
  BY DEF IInv, Exclusion, OnceUnlessClobbered
<1> QED
  BY Invariance, <1>1, PTL
=============================================================================
