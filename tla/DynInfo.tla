------------------------------ MODULE DynInfo ------------------------------
(***************************************************************************)
(* The list of dynamically registered regions: _U_dyn_register and         *)
(* _U_dyn_cancel change it under a lock, local_find_proc_info reads it     *)
(* without, and unwi_extract_dynamic_proc_info describes the region found. *)
(*                                                                         *)
(* Stores are seen in program order.  Only next and first are read outside *)
(* of the lock, so the stores between two of those are one step.  The      *)
(* list's generation is counted and never read: it is left out.            *)
(***************************************************************************)
EXTENDS Integers, Sequences

CONSTANTS
  Threads,  \* the threads that register and cancel regions
  Regions,  \* the unw_dyn_info_t structures
  Format,   \* a region's format
  Ips,      \* instruction pointers
  Start, End, \* the regions' code
  TableResult, \* what the search of a region's table returns
  MaxCalls, \* bound on the calls to _U_dyn_register and _U_dyn_cancel
  MaxFinds, \* bound on the searches
  Null

Formats == {"dynamic", "table", "remote_table", "arm_exidx"}

ASSUME RegionAssumption ==
  /\ Null \notin Regions /\ {Null, "stuck"} \cap Threads = {}
  /\ Format \in [Regions -> Formats] /\ TableResult \in [Regions -> {"ok", "ENOINFO"}]
  /\ Ips \subseteq Nat /\ Start \in [Regions -> Nat] /\ End \in [Regions -> Nat]
  /\ MaxCalls \in Nat /\ MaxFinds \in Nat

VARIABLES
  next, prev, \* the links of a region
  first,      \* _U_dyn_info_list.first
  lock,       \* _U_dyn_info_list_lock: Null when free, its holder, or "stuck"
  pc, arg,    \* of a thread: what it does next, and with which region
  owned,      \* a region is "cancelled", and may be registered, "registered", and may be
              \* cancelled, or "busy" while a call for it runs
  calls,      \* the calls started
  find, di,   \* the search: what it does next, and its cursor
  ip, need, pi, ret, \* its ip, need_unwind_info, *pi and result
  finds,      \* the searches started
  steady,     \* history: the regions registered all through the search
  cut,        \* history: the cursor's region was cancelled
  order       \* history: the regions in the list, the last registered first

list == <<next, prev, first, lock>>
callers == <<pc, arg, owned, calls>>
search == <<find, di, ip, need, pi, ret, finds>>
vars == <<next, prev, first, lock, pc, arg, owned, calls, find, di, ip, need, pi, ret, finds,
          steady, cut, order>>

Pi(of, format, info) == [of |-> of, format |-> format, unwind_info |-> info]
NoPi == Pi(Null, "none", Null)

\* Nothing initialises the lock: to sx_xlock, a lock of zeroes is free or it is not.
Init ==
  /\ next = [d \in Regions |-> Null] /\ prev = [d \in Regions |-> Null] /\ first = Null
  /\ lock \in {Null, "stuck"}
  /\ pc = [t \in Threads |-> "out"] /\ arg = [t \in Threads |-> Null]
  /\ owned = [d \in Regions |-> "cancelled"] /\ calls = 0
  /\ find = "out" /\ di = Null /\ ip \in Ips /\ need = FALSE /\ pi = NoPi /\ ret = "none" /\ finds = 0
  /\ steady = {} /\ cut = FALSE /\ order = <<>>
-----------------------------------------------------------------------------
\* A caller starts to register a region, or to cancel it: never both at once.
Call(t, d, op) ==
  /\ pc[t] = "out" /\ calls < MaxCalls
  /\ owned[d] = IF op = "register" THEN "cancelled" ELSE "registered"
  /\ owned' = [owned EXCEPT ![d] = "busy"]
  /\ arg' = [arg EXCEPT ![t] = d]
  /\ pc' = [pc EXCEPT ![t] = op]
  /\ calls' = calls + 1
  /\ steady' = steady \ {d}
  /\ UNCHANGED <<list, search, cut, order>>

Goes(t, where) == pc' = [pc EXCEPT ![t] = where]

mutex_lock(t) ==
  /\ pc[t] \in {"register", "cancel"} /\ lock = Null
  /\ lock' = t
  /\ Goes(t, IF pc[t] = "register" THEN "link" ELSE "unlink")
  /\ UNCHANGED <<next, prev, first, arg, owned, calls, search, steady, cut, order>>

\* Mutant: the region keeps the link it had.
LinkBackOnly(t) ==
  /\ pc[t] = "link"
  /\ prev' = [d \in Regions |-> IF d = arg[t] THEN Null ELSE IF d = first THEN arg[t] ELSE prev[d]]
  /\ Goes(t, "head")
  /\ UNCHANGED <<next, first, lock, arg, owned, calls, search, steady, cut, order>>

\* di->next, di->prev and the prev of the region that was first
Link(t) ==
  /\ pc[t] = "link"
  /\ next' = [next EXCEPT ![arg[t]] = first]
  /\ prev' = [d \in Regions |-> IF d = arg[t] THEN Null ELSE IF d = first THEN arg[t] ELSE prev[d]]
  /\ Goes(t, "head")
  /\ UNCHANGED <<first, lock, arg, owned, calls, search, steady, cut, order>>

\* _U_dyn_info_list.first = di, and the lock is released: _U_dyn_register returns.
_U_dyn_register(t) ==
  /\ pc[t] = "head"
  /\ first' = arg[t]
  /\ lock' = Null
  /\ owned' = [owned EXCEPT ![arg[t]] = "registered"]
  /\ order' = <<arg[t]>> \o order
  /\ Goes(t, "out")
  /\ UNCHANGED <<next, prev, arg, calls, search, steady, cut>>

\* Mutant: the first region stays the first one.
FirstAfterCancelKept(d) == first

FirstAfterCancel(d) == IF prev[d] = Null THEN next[d] ELSE first

\* Mutant: the region behind keeps its link to the cancelled one.
PrevAfterCancelKept(d) == prev

PrevAfterCancel(d) == IF next[d] = Null THEN prev ELSE [prev EXCEPT ![next[d]] = prev[d]]

\* The sequence without one of its elements.
Without(s, d) ==
  LET p == CHOOSE n \in 1..Len(s) : s[n] = d
  IN [n \in 1..(Len(s) - 1) |-> IF n < p THEN s[n] ELSE s[n + 1]]

\* The region is taken out, and the lock is released.
Unlink(t) ==
  /\ pc[t] = "unlink"
  /\ LET d == arg[t]
     IN /\ next' = IF prev[d] = Null THEN next ELSE [next EXCEPT ![prev[d]] = next[d]]
        /\ first' = FirstAfterCancel(d)
        /\ prev' = PrevAfterCancel(d)
        /\ order' = Without(order, d)
        /\ cut' = (cut \/ (find = "walk" /\ di = d))
  /\ lock' = Null
  /\ Goes(t, "clear")
  /\ UNCHANGED <<arg, owned, calls, search, steady>>

\* di->next = di->prev = NULL, behind the lock: _U_dyn_cancel returns.
_U_dyn_cancel(t) ==
  /\ pc[t] = "clear"
  /\ next' = [next EXCEPT ![arg[t]] = Null]
  /\ prev' = [prev EXCEPT ![arg[t]] = Null]
  /\ owned' = [owned EXCEPT ![arg[t]] = "cancelled"]
  /\ cut' = (cut \/ (find = "walk" /\ di = arg[t]))
  /\ Goes(t, "out")
  /\ UNCHANGED <<first, lock, arg, calls, search, steady, order>>
-----------------------------------------------------------------------------
Registered == {d \in Regions : owned[d] = "registered"}
Covers(d) == ip >= Start[d] /\ ip < End[d]

\* A region is being taken out whose links are not cleared yet.
Dangling(d) == \E t \in Threads : pc[t] = "clear" /\ arg[t] = d

\* local_find_proc_info reads the head of the list.
Find ==
  /\ find = "out" /\ finds < MaxFinds
  /\ ip' \in Ips /\ need' \in BOOLEAN
  /\ di' = first
  /\ pi' = NoPi /\ ret' = "none"
  /\ finds' = finds + 1
  /\ find' = "walk"
  /\ steady' = Registered /\ cut' = FALSE
  /\ UNCHANGED <<list, callers, order>>

Returns(r, p) ==
  /\ ret' = r /\ pi' = p
  /\ find' = "out"

ExtractResult(d) ==
  IF Format[d] = "dynamic" THEN "ok"
  ELSE IF Format[d] \in {"table", "remote_table"} THEN TableResult[d] ELSE "EINVAL"

unwi_extract_dynamic_proc_info(d) ==
  Returns(ExtractResult(d),
          Pi(d, Format[d], IF Format[d] = "dynamic" /\ need THEN d ELSE Null))

\* One pass of the loop, which reads di->next at its end.
local_find_proc_info ==
  /\ find = "walk"
  /\ \/ di = Null /\ Returns("ENOINFO", pi) /\ UNCHANGED <<di, cut>>
     \/ di # Null /\ Covers(di) /\ unwi_extract_dynamic_proc_info(di) /\ UNCHANGED <<di, cut>>
     \/ /\ di # Null /\ ~Covers(di)
        /\ di' = next[di]
        /\ cut' = (cut \/ (di' # Null /\ Dangling(di')))
        /\ UNCHANGED <<find, pi, ret>>
  /\ UNCHANGED <<list, callers, ip, need, finds, steady, order>>

ThreadStep(t) ==
  \/ \E d \in Regions, op \in {"register", "cancel"} : Call(t, d, op)
  \/ mutex_lock(t) \/ Link(t) \/ _U_dyn_register(t) \/ Unlink(t) \/ _U_dyn_cancel(t)

\* All searches are done and every thread is out of the code, or waits for a lock
\* that never becomes free.
Done ==
  /\ find = "out" /\ finds = MaxFinds
  /\ \A t \in Threads : \/ pc[t] = "out" /\ calls = MaxCalls
                        \/ pc[t] \in {"register", "cancel"} /\ lock = "stuck"
  /\ UNCHANGED vars

Next == (\E t \in Threads : ThreadStep(t)) \/ Find \/ local_find_proc_info \/ Done

Spec == Init /\ [][Next]_vars

\* The thread that searches is scheduled.
FairSpec == Spec /\ WF_vars(local_find_proc_info)
-----------------------------------------------------------------------------
\* The n-th region of the list, or none.
At(n) == IF n \in 1..Len(order) THEN order[n] ELSE Null

Listed == {order[n] : n \in 1..Len(order)}

\* Whenever the lock is free, the links spell the list of exactly the regions that are
\* registered and not yet cancelled, the last registered first and in both directions
\* (dyn-register.c:33-43, dyn-cancel.c:31-45): the links that _U_dyn_cancel clears
\* after it has released the lock are those of a region no other thread can reach.
ListIsTheRegistered ==
  lock = Null =>
    /\ Listed = Registered \cup {arg[t] : t \in {u \in Threads : pc[u] = "cancel"}}
    /\ \A m, n \in 1..Len(order) : order[m] = order[n] => m = n
    /\ first = At(1)
    /\ \A n \in 1..Len(order) : next[order[n]] = At(n + 1) /\ prev[order[n]] = At(n - 1)

\* The search without the lock (Gfind_dynamic_proc_info.c:42) fails to find a region
\* that was registered all along only if it stood on a region that was cancelled: a
\* registration in the middle of it never hides one.
OverlooksOnlyBehindCancelled ==
  ret = "ENOINFO" /\ pi = NoPi /\ ~cut => \A d \in steady : ~Covers(d)

\* A search ends, however regions come and go and come back under it.
SearchEnds == find = "walk" ~> find = "out"
=============================================================================
