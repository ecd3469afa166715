--------------------------- MODULE DynInfoProofs ---------------------------
(***************************************************************************)
(* The proof that the links of the list of registered regions always spell *)
(* the regions that are registered, and that a search without the lock     *)
(* misses a region only behind a cancelled one, for any number of threads, *)
(* regions and calls.                                                      *)
(***************************************************************************)
EXTENDS DynInfo, SequenceTheorems, TLAPS

Types ==
  /\ next \in [Regions -> Regions \cup {Null}] /\ prev \in [Regions -> Regions \cup {Null}]
  /\ lock \in Threads \cup {Null, "stuck"}
  /\ pc \in [Threads -> {"out", "register", "cancel", "link", "head", "unlink", "clear"}]
  /\ arg \in [Threads -> Regions \cup {Null}]
  /\ owned \in [Regions -> {"cancelled", "registered", "busy"}]
  /\ order \in Seq(Regions)

\* The lock serialises the stores into the list.
Mutex == \A t \in Threads : pc[t] \in {"link", "head", "unlink"} <=> lock = t

\* A region is in one call at a time.
Calls ==
  /\ \A t \in Threads : pc[t] # "out" => arg[t] \in Regions /\ owned[arg[t]] = "busy"
  /\ \A t, u \in Threads : pc[t] # "out" /\ pc[u] # "out" /\ arg[t] = arg[u] => t = u

Cancelling(d) == \E t \in Threads : arg[t] = d /\ pc[t] \in {"cancel", "unlink"}

Members ==
  \A d \in Regions : d \in Listed <=> owned[d] = "registered" \/ Cancelling(d)

Distinct == \A m, n \in 1..Len(order) : order[m] = order[n] => m = n

\* The links, also while a region is being put in front of the list.
Links ==
  /\ first = At(1)
  /\ \A n \in 1..Len(order) : next[order[n]] = At(n + 1)
  /\ \A n \in 2..Len(order) : prev[order[n]] = order[n - 1]
  /\ order # <<>> /\ (\A t \in Threads : pc[t] # "head") => prev[order[1]] = Null
  /\ \A t \in Threads : pc[t] = "head" =>
       /\ next[arg[t]] = first /\ prev[arg[t]] = Null
       /\ order # <<>> => prev[order[1]] = arg[t]

ListInv == Types /\ Mutex /\ Calls /\ Members /\ Distinct /\ Links
-----------------------------------------------------------------------------
\* The list with a region put in front.
LEMMA Front ==
  ASSUME NEW s \in Seq(Regions), NEW d \in Regions
  PROVE  /\ <<d>> \o s \in Seq(Regions) /\ <<d>> \o s # <<>>
         /\ Len(<<d>> \o s) = Len(s) + 1 /\ Len(s) \in Nat
         /\ (<<d>> \o s)[1] = d
         /\ \A n \in 2..(Len(s) + 1) : (<<d>> \o s)[n] = s[n - 1]
<1>1. <<d>> \in Seq(Regions) /\ Len(<<d>>) = 1 /\ <<d>>[1] = d OBVIOUS
<1> QED BY <1>1, ConcatProperties

\* The list with a region taken out.
LEMMA TakenOut ==
  ASSUME NEW s \in Seq(Regions), NEW p \in 1..Len(s),
         \A m, n \in 1..Len(s) : s[m] = s[n] => m = n
  PROVE  /\ Without(s, s[p]) \in Seq(Regions)
         /\ Len(Without(s, s[p])) = Len(s) - 1 /\ Len(s) \in Nat
         /\ \A n \in 1..(Len(s) - 1) : Without(s, s[p])[n] = IF n < p THEN s[n] ELSE s[n + 1]
<1>1. (CHOOSE n \in 1..Len(s) : s[n] = s[p]) = p
  OBVIOUS
<1>2. Without(s, s[p]) = [n \in 1..(Len(s) - 1) |-> IF n < p THEN s[n] ELSE s[n + 1]]
  BY <1>1 DEF Without
<1>3. Len(s) \in Nat /\ Len(s) - 1 \in Nat
  OBVIOUS
<1>4. \A n \in 1..(Len(s) - 1) : (IF n < p THEN s[n] ELSE s[n + 1]) \in Regions
  BY <1>3
<1>5. [n \in 1..(Len(s) - 1) |-> IF n < p THEN s[n] ELSE s[n + 1]] \in Seq(Regions)
  BY <1>3, <1>4, IsASeq
<1> QED BY <1>2, <1>3, <1>5

\* No thread is between two stores into the list while another one is.
LEMMA Alone ==
  ASSUME Mutex, NEW t \in Threads, pc[t] \in {"link", "head", "unlink"},
         NEW u \in Threads, u # t
  PROVE  pc[u] \notin {"link", "head", "unlink"}
BY DEF Mutex

\* A step that leaves the links alone.
LEMMA LinksStable ==
  ASSUME ListInv, UNCHANGED <<next, prev, first, order>>, Types',
         \A t \in Threads : pc'[t] = "head" <=> pc[t] = "head",
         \A t \in Threads : pc[t] = "head" => arg'[t] = arg[t]
  PROVE  Distinct' /\ Links' /\ Listed' = Listed
<1>1. Distinct' /\ Listed' = Listed
  BY DEF ListInv, Distinct, Listed
<1>2. Links'
  BY DEF ListInv, Links, At
<1> QED BY <1>1, <1>2

\* A caller enters _U_dyn_register or _U_dyn_cancel.
LEMMA Call_List ==
  ASSUME ListInv, NEW t \in Threads, NEW d \in Regions, NEW op \in {"register", "cancel"},
         Call(t, d, op)
  PROVE  ListInv'
<1>1. /\ pc[t] = "out" /\ owned[d] = (IF op = "register" THEN "cancelled" ELSE "registered")
      /\ owned' = [owned EXCEPT ![d] = "busy"] /\ arg' = [arg EXCEPT ![t] = d]
      /\ pc' = [pc EXCEPT ![t] = op]
      /\ UNCHANGED <<next, prev, first, lock, order>>
  BY DEF Call, list
<1>2. Types'
  BY <1>1 DEF ListInv, Types
<1>3. Mutex'
  BY <1>1 DEF ListInv, Types, Mutex
<1>4. \A u \in Threads : u # t /\ pc[u] # "out" => arg[u] # d
  BY <1>1 DEF ListInv, Calls
<1>5. Calls'
  BY <1>1, <1>4 DEF ListInv, Types, Calls
<1>6. Distinct' /\ Links' /\ Listed' = Listed
  BY <1>1, <1>2, LinksStable DEF ListInv, Types
<1>7. Members'
  <2> SUFFICES ASSUME NEW e \in Regions
               PROVE  e \in Listed <=> owned'[e] = "registered" \/ Cancelling(e)'
    BY <1>6 DEF Members
  <2>1. CASE e = d
    <3>1. ~Cancelling(d)
      BY <1>1, <1>4 DEF Cancelling
    <3>2. Cancelling(d)' <=> op = "cancel"
      BY <1>1, <1>4 DEF ListInv, Types, Cancelling
    <3> QED BY <1>1, <2>1, <3>1, <3>2 DEF ListInv, Types, Members
  <2>2. CASE e # d
    <3>1. Cancelling(e)' <=> Cancelling(e)
      BY <1>1, <2>2 DEF ListInv, Types, Cancelling
    <3> QED BY <1>1, <2>2, <3>1 DEF ListInv, Types, Members
  <2> QED BY <2>1, <2>2
<1> QED BY <1>2, <1>3, <1>5, <1>6, <1>7 DEF ListInv

\* mutex_lock
LEMMA mutex_lock_List ==
  ASSUME ListInv, NEW t \in Threads, mutex_lock(t)
  PROVE  ListInv'
<1>1. /\ pc[t] \in {"register", "cancel"} /\ lock = Null /\ lock' = t
      /\ pc' = [pc EXCEPT ![t] = IF pc[t] = "register" THEN "link" ELSE "unlink"]
      /\ UNCHANGED <<next, prev, first, arg, owned, order>>
  BY DEF mutex_lock, Goes
<1>2. Types'
  BY <1>1 DEF ListInv, Types
<1>3. Mutex'
  BY <1>1, RegionAssumption DEF ListInv, Types, Mutex
<1>4. Calls'
  BY <1>1 DEF ListInv, Types, Calls
<1>5. Distinct' /\ Links' /\ Listed' = Listed
  BY <1>1, <1>2, LinksStable DEF ListInv, Types
<1>6. \A e \in Regions : Cancelling(e)' <=> Cancelling(e)
  BY <1>1 DEF ListInv, Types, Cancelling
<1>7. Members'
  BY <1>1, <1>5, <1>6 DEF ListInv, Members
<1> QED BY <1>2, <1>3, <1>4, <1>5, <1>7 DEF ListInv

\* A region that is in a call other than a cancellation is not in the list.
LEMMA NotListed ==
  ASSUME ListInv, NEW t \in Threads, pc[t] \in {"link", "head", "clear"}
  PROVE  /\ arg[t] \in Regions /\ arg[t] \notin Listed
         /\ \A n \in 1..Len(order) : order[n] # arg[t]
<1>1. arg[t] \in Regions /\ owned[arg[t]] = "busy"
  BY DEF ListInv, Calls
<1>2. ~Cancelling(arg[t])
  BY DEF ListInv, Calls, Cancelling
<1>3. arg[t] \notin Listed
  BY <1>1, <1>2 DEF ListInv, Members
<1> QED BY <1>1, <1>3 DEF Listed

\* The links of the region that is put in front, and the link back to it.
LEMMA Link_List ==
  ASSUME ListInv, NEW t \in Threads, Link(t)
  PROVE  ListInv'
<1>1. /\ pc[t] = "link" /\ pc' = [pc EXCEPT ![t] = "head"]
      /\ next' = [next EXCEPT ![arg[t]] = first]
      /\ prev' = [d \in Regions |-> IF d = arg[t] THEN Null
                                    ELSE IF d = first THEN arg[t] ELSE prev[d]]
      /\ UNCHANGED <<first, lock, arg, owned, order>>
  BY DEF Link, Goes
<1>2. arg[t] \in Regions /\ arg[t] \notin Listed /\ \A n \in 1..Len(order) : order[n] # arg[t]
  BY <1>1, NotListed
<1>3. /\ order \in Seq(Regions) /\ Len(order) \in Nat
      /\ \A n \in 1..Len(order) : order[n] \in Regions
  BY DEF ListInv, Types
<1>4. first \in Regions \cup {Null}
  BY <1>3 DEF ListInv, Links, At
<1>5. Types'
  BY <1>1, <1>2, <1>4 DEF ListInv, Types
<1>6. Mutex' /\ Calls'
  BY <1>1 DEF ListInv, Types, Mutex, Calls
<1>7. \A e \in Regions : Cancelling(e)' <=> Cancelling(e)
  BY <1>1 DEF ListInv, Types, Cancelling
<1>8. Members' /\ Distinct'
  BY <1>1, <1>7 DEF ListInv, Members, Distinct, Listed
<1>9. Links'
  <2>1. ASSUME NEW n \in 1..Len(order) PROVE next'[order[n]] = At(n + 1)'
    BY <1>1, <1>2, <1>3 DEF ListInv, Types, Links, At
  <2>2. ASSUME NEW n \in 2..Len(order) PROVE prev'[order[n]] = order[n - 1]
    <3>1. n \in 1..Len(order) /\ 1 \in 1..Len(order) /\ n # 1
      BY <1>3
    <3>2. order[n] # arg[t] /\ order[n] # first /\ order[n] \in Regions
      BY <1>2, <1>3, <3>1 DEF ListInv, Links, At, Distinct
    <3> QED BY <1>1, <3>2 DEF ListInv, Links
  <2>3. pc'[t] = "head"
    BY <1>1 DEF ListInv, Types
  <2>4. ASSUME NEW u \in Threads, pc'[u] = "head"
        PROVE  /\ next'[arg'[u]] = first' /\ prev'[arg'[u]] = Null
               /\ order' # <<>> => prev'[order'[1]] = arg'[u]
    <3>1. u = t
      BY <1>1, <2>4, Alone DEF ListInv, Types
    <3>2. next'[arg'[u]] = first' /\ prev'[arg'[u]] = Null
      BY <1>1, <1>2, <3>1 DEF ListInv, Types
    <3>3. ASSUME order # <<>> PROVE prev'[order[1]] = arg[t]
      <4>1. 1 \in 1..Len(order)
        BY <1>3, <3>3, EmptySeq
      <4>2. order[1] = first /\ order[1] # arg[t] /\ order[1] \in Regions
        BY <1>2, <1>3, <4>1 DEF ListInv, Links, At
      <4> QED BY <1>1, <4>2
    <3> QED BY <1>1, <3>1, <3>2, <3>3
  <2>5. first' = At(1)'
    BY <1>1 DEF ListInv, Links, At
  <2> QED BY <1>1, <2>1, <2>2, <2>3, <2>4, <2>5 DEF Links
<1> QED BY <1>5, <1>6, <1>8, <1>9 DEF ListInv

\* _U_dyn_info_list.first = di
LEMMA Register_List ==
  ASSUME ListInv, NEW t \in Threads, _U_dyn_register(t)
  PROVE  ListInv' /\ Listed' = Listed \cup {arg[t]}
<1>1. /\ pc[t] = "head" /\ pc' = [pc EXCEPT ![t] = "out"]
      /\ first' = arg[t] /\ lock' = Null /\ order' = <<arg[t]>> \o order
      /\ owned' = [owned EXCEPT ![arg[t]] = "registered"]
      /\ UNCHANGED <<next, prev, arg>>
  BY DEF _U_dyn_register, Goes
<1>2. arg[t] \in Regions /\ arg[t] \notin Listed /\ \A n \in 1..Len(order) : order[n] # arg[t]
  BY <1>1, NotListed
<1>3. /\ order' \in Seq(Regions) /\ order' # <<>> /\ Len(order) \in Nat
      /\ Len(order') = Len(order) + 1 /\ order'[1] = arg[t]
      /\ \A n \in 2..(Len(order) + 1) : order'[n] = order[n - 1]
  BY <1>1, <1>2, Front DEF ListInv, Types
<1>4. Types'
  BY <1>1, <1>2, <1>3 DEF ListInv, Types
<1>5. Mutex'
  BY <1>1, RegionAssumption, Alone DEF ListInv, Types, Mutex
<1>6. Calls'
  BY <1>1, <1>2 DEF ListInv, Types, Calls
<1>7. Listed' = Listed \cup {arg[t]}
  <2>1. ASSUME NEW n \in 1..Len(order') PROVE order'[n] \in Listed \cup {arg[t]}
    <3>1. CASE n = 1
      BY <1>3, <3>1
    <3>2. CASE n # 1
      <4>1. order'[n] = order[n - 1] /\ n - 1 \in 1..Len(order)
        BY <1>3, <3>2
      <4> QED BY <4>1 DEF Listed
    <3> QED BY <3>1, <3>2
  <2>2. ASSUME NEW n \in 1..Len(order) PROVE order[n] \in Listed'
    <3>1. n + 1 \in 1..Len(order') /\ n + 1 \in 2..(Len(order) + 1) /\ (n + 1) - 1 = n
      BY <1>3
    <3>2. order'[n + 1] = order[n]
      BY <1>3, <3>1
    <3> QED BY <3>1, <3>2 DEF Listed
  <2>3. arg[t] \in Listed'
    <3>1. 1 \in 1..Len(order')
      BY <1>3
    <3> QED BY <1>3, <3>1 DEF Listed
  <2> QED BY <2>1, <2>2, <2>3 DEF Listed
<1>8. Members'
  <2>1. \A e \in Regions : Cancelling(e)' <=> Cancelling(e)
    BY <1>1 DEF ListInv, Types, Cancelling
  <2> QED BY <1>1, <1>2, <1>7, <2>1 DEF ListInv, Types, Members
<1>9. Distinct'
  <2> SUFFICES ASSUME NEW m \in 1..Len(order'), NEW n \in 1..Len(order'), order'[m] = order'[n]
               PROVE  m = n
    BY DEF Distinct
  <2>1. \A k \in 1..Len(order') : k # 1 =>
          k - 1 \in 1..Len(order) /\ order'[k] = order[k - 1] /\ order'[k] # arg[t]
    BY <1>2, <1>3
  <2>2. CASE m = 1 \/ n = 1
    BY <1>3, <2>1, <2>2
  <2>3. CASE m # 1 /\ n # 1
    <3>1. m - 1 = n - 1
      BY <2>1, <2>3 DEF ListInv, Distinct
    <3> QED BY <3>1
  <2> QED BY <2>2, <2>3
<1>10. Links'
  <2>0. next[arg[t]] = first /\ prev[arg[t]] = Null
    BY <1>1 DEF ListInv, Links
  <2>1. ASSUME NEW n \in 1..Len(order') PROVE next'[order'[n]] = At(n + 1)'
    <3>1. CASE n = 1
      <4>1. At(2)' = At(1)
        BY <1>3 DEF At
      <4> QED BY <1>1, <1>3, <2>0, <3>1, <4>1 DEF ListInv, Links
    <3>2. CASE n # 1
      <4>1. n - 1 \in 1..Len(order) /\ order'[n] = order[n - 1]
        BY <1>3, <3>2
      <4>2. next[order[n - 1]] = At(n)
        BY <4>1 DEF ListInv, Links
      <4>3. At(n + 1)' = At(n)
        <5>1. CASE n \in 1..Len(order)
          <6>1. n + 1 \in 1..Len(order') /\ n + 1 \in 2..(Len(order) + 1) /\ (n + 1) - 1 = n
            BY <1>3, <5>1
          <6> QED BY <1>3, <5>1, <6>1 DEF At
        <5>2. CASE n \notin 1..Len(order)
          <6>1. n + 1 \notin 1..Len(order')
            BY <1>3, <5>2
          <6> QED BY <5>2, <6>1 DEF At
        <5> QED BY <5>1, <5>2
      <4> QED BY <1>1, <4>1, <4>2, <4>3
    <3> QED BY <3>1, <3>2
  <2>2. ASSUME NEW n \in 2..Len(order') PROVE prev'[order'[n]] = order'[n - 1]
    <3>0. order'[n] = order[n - 1] /\ n - 1 \in 1..Len(order)
      BY <1>3
    <3>1. CASE n = 2
      <4>1. order # <<>>
        BY <3>0, <3>1
      <4>2. prev[order[1]] = arg[t]
        BY <1>1, <4>1 DEF ListInv, Links
      <4> QED BY <1>1, <1>3, <3>0, <3>1, <4>2
    <3>2. CASE n # 2
      <4>1. n - 1 \in 2..Len(order) /\ order'[n - 1] = order[n - 1 - 1]
        BY <1>3, <3>0, <3>2
      <4> QED BY <1>1, <3>0, <4>1 DEF ListInv, Links
    <3> QED BY <3>1, <3>2
  <2>3. \A u \in Threads : pc'[u] # "head"
    BY <1>1, Alone DEF ListInv, Types
  <2>4. first' = At(1)' /\ prev'[order'[1]] = Null
    BY <1>1, <1>3, <2>0 DEF At
  <2> QED BY <2>1, <2>2, <2>3, <2>4 DEF Links
<1> QED BY <1>4, <1>5, <1>6, <1>7, <1>8, <1>9, <1>10 DEF ListInv

\* The links of a cancelled region are cleared.
LEMMA Cancel_List ==
  ASSUME ListInv, NEW t \in Threads, _U_dyn_cancel(t)
  PROVE  ListInv' /\ order' = order
<1>1. /\ pc[t] = "clear" /\ pc' = [pc EXCEPT ![t] = "out"]
      /\ next' = [next EXCEPT ![arg[t]] = Null] /\ prev' = [prev EXCEPT ![arg[t]] = Null]
      /\ owned' = [owned EXCEPT ![arg[t]] = "cancelled"]
      /\ UNCHANGED <<first, lock, arg, order>>
  BY DEF _U_dyn_cancel, Goes
<1>2. arg[t] \in Regions /\ arg[t] \notin Listed /\ \A n \in 1..Len(order) : order[n] # arg[t]
  BY <1>1, NotListed
<1>3. Types'
  BY <1>1, <1>2 DEF ListInv, Types
<1>4. Mutex'
  BY <1>1 DEF ListInv, Types, Mutex
<1>5. Calls'
  BY <1>1, <1>2 DEF ListInv, Types, Calls
<1>6. \A e \in Regions : Cancelling(e)' <=> Cancelling(e)
  BY <1>1 DEF ListInv, Types, Cancelling
<1>7. Members' /\ Distinct'
  BY <1>1, <1>2, <1>6 DEF ListInv, Types, Members, Distinct, Listed
<1>8. Links'
  <2>0. Len(order) \in Nat /\ \A n \in 1..Len(order) : order[n] \in Regions /\ order[n] # arg[t]
    BY <1>2 DEF ListInv, Types
  <2>1. \A n \in 1..Len(order) : next'[order[n]] = next[order[n]] /\ prev'[order[n]] = prev[order[n]]
    BY <1>1, <2>0 DEF ListInv, Types
  <2>2. ASSUME NEW u \in Threads, pc'[u] = "head"
        PROVE  /\ next'[arg'[u]] = first' /\ prev'[arg'[u]] = Null
               /\ order' # <<>> => prev'[order'[1]] = arg'[u]
    <3>1. pc[u] = "head" /\ arg[u] \in Regions
      BY <1>1, <2>2 DEF ListInv, Types, Calls
    <3>2. arg[u] # arg[t]
      BY <1>1, <3>1 DEF ListInv, Calls
    <3>3. order # <<>> => 1 \in 1..Len(order)
      BY <2>0, EmptySeq DEF ListInv, Types
    <3> QED BY <1>1, <2>1, <3>1, <3>2, <3>3 DEF ListInv, Types, Links
  <2>3. (\A u \in Threads : pc'[u] # "head") => (\A u \in Threads : pc[u] # "head")
    BY <1>1 DEF ListInv, Types
  <2>4. order # <<>> => 1 \in 1..Len(order)
    BY <2>0, EmptySeq DEF ListInv, Types
  <2>5. \A n \in 2..Len(order) : n \in 1..Len(order)
    BY <2>0
  <2> QED BY <1>1, <2>1, <2>2, <2>3, <2>4, <2>5 DEF ListInv, Links, At
<1> QED BY <1>1, <1>3, <1>4, <1>5, <1>7, <1>8 DEF ListInv

\* The region that is taken out is in the list.
LEMMA UnlinkOrder ==
  ASSUME ListInv, NEW t \in Threads, Unlink(t)
  PROVE  \E p \in 1..Len(order) :
           /\ order[p] = arg[t]
           /\ order' \in Seq(Regions) /\ Len(order) \in Nat /\ Len(order') = Len(order) - 1
           /\ \A n \in 1..(Len(order) - 1) : order'[n] = IF n < p THEN order[n] ELSE order[n + 1]
<1>1. pc[t] = "unlink" /\ order' = Without(order, arg[t]) /\ arg[t] \in Regions
  BY DEF Unlink, ListInv, Calls
<1>2. arg[t] \in Listed
  BY <1>1 DEF ListInv, Members, Cancelling
<1>3. PICK p \in 1..Len(order) : order[p] = arg[t]
  BY <1>2 DEF Listed
<1>4. order' = Without(order, order[p])
  BY <1>1, <1>3
<1>5. order \in Seq(Regions) /\ \A m, n \in 1..Len(order) : order[m] = order[n] => m = n
  BY DEF ListInv, Types, Distinct
<1>6. /\ order' \in Seq(Regions) /\ Len(order) \in Nat /\ Len(order') = Len(order) - 1
      /\ \A n \in 1..(Len(order) - 1) : order'[n] = IF n < p THEN order[n] ELSE order[n + 1]
  BY <1>4, <1>5, TakenOut
<1> QED BY <1>3, <1>6

\* The region is taken out of the list.
LEMMA Unlink_List ==
  ASSUME ListInv, NEW t \in Threads, Unlink(t)
  PROVE  ListInv' /\ Listed' = Listed \ {arg[t]}
<1>0. PICK p \in 1..Len(order) :
        /\ order[p] = arg[t]
        /\ order' \in Seq(Regions) /\ Len(order) \in Nat /\ Len(order') = Len(order) - 1
        /\ \A n \in 1..(Len(order) - 1) : order'[n] = IF n < p THEN order[n] ELSE order[n + 1]
  BY UnlinkOrder
<1>1. /\ pc[t] = "unlink" /\ pc' = [pc EXCEPT ![t] = "clear"] /\ lock' = Null
      /\ UNCHANGED <<arg, owned>>
  BY DEF Unlink, Goes
<1>2. \A n \in 1..Len(order) : order[n] \in Regions /\ order[n] # Null
  BY RegionAssumption DEF ListInv, Types
<1>3. \A u \in Threads : pc[u] # "head" /\ pc'[u] # "head"
  BY <1>1, Alone DEF ListInv, Types
<1>4. next[arg[t]] = At(p + 1) /\ prev[arg[t]] = At(p - 1)
  <2>1. next[arg[t]] = At(p + 1)
    BY <1>0 DEF ListInv, Links
  <2>2. CASE p = 1
    <3>1. prev[order[1]] = Null /\ At(0) = Null
      BY <1>0, <1>3, <2>2, EmptySeq DEF ListInv, Links, At
    <3> QED BY <1>0, <2>1, <2>2, <3>1
  <2>3. CASE p # 1
    <3>1. p \in 2..Len(order) /\ p - 1 \in 1..Len(order)
      BY <1>0, <2>3
    <3> QED BY <1>0, <2>1, <3>1 DEF ListInv, Links, At
  <2> QED BY <2>2, <2>3
<1>5. /\ p = 1 => At(p - 1) = Null /\ next' = next /\ first' = At(2)
      /\ p # 1 => /\ At(p - 1) = order[p - 1] /\ p - 1 \in 1..Len(order)
                  /\ next' = [next EXCEPT ![order[p - 1]] = At(p + 1)]
                  /\ first' = first
  <2>1. CASE p = 1
    <3>1. At(p - 1) = Null
      BY <2>1 DEF At
    <3> QED BY <1>4, <2>1, <3>1 DEF Unlink, FirstAfterCancel
  <2>2. CASE p # 1
    <3>1. p - 1 \in 1..Len(order) /\ At(p - 1) = order[p - 1] /\ order[p - 1] # Null
      BY <1>0, <1>2, <2>2 DEF At
    <3> QED BY <1>4, <2>2, <3>1 DEF Unlink, FirstAfterCancel
  <2> QED BY <2>1, <2>2
<1>6. /\ p = Len(order) => At(p + 1) = Null /\ prev' = prev
      /\ p # Len(order) => /\ At(p + 1) = order[p + 1] /\ p + 1 \in 1..Len(order)
                           /\ prev' = [prev EXCEPT ![order[p + 1]] = At(p - 1)]
  <2>1. CASE p = Len(order)
    <3>1. At(p + 1) = Null
      BY <1>0, <2>1 DEF At
    <3> QED BY <1>4, <2>1, <3>1 DEF Unlink, PrevAfterCancel
  <2>2. CASE p # Len(order)
    <3>1. p + 1 \in 1..Len(order) /\ At(p + 1) = order[p + 1] /\ order[p + 1] # Null
      BY <1>0, <1>2, <2>2 DEF At
    <3> QED BY <1>4, <2>2, <3>1 DEF Unlink, PrevAfterCancel
  <2> QED BY <2>1, <2>2
<1>7. At(p - 1) \in Regions \cup {Null} /\ At(p + 1) \in Regions \cup {Null}
  BY <1>2 DEF At
<1>8. Types'
  <2>1. next' \in [Regions -> Regions \cup {Null}] /\ prev' \in [Regions -> Regions \cup {Null}]
    BY <1>5, <1>6, <1>7 DEF ListInv, Types
  <2> QED BY <1>0, <1>1, <2>1 DEF ListInv, Types
<1>9. Mutex'
  BY <1>1, RegionAssumption, Alone DEF ListInv, Types, Mutex
<1>10. Calls'
  BY <1>1 DEF ListInv, Types, Calls
<1>11. Listed' = Listed \ {arg[t]}
  <2>1. ASSUME NEW n \in 1..Len(order') PROVE order'[n] \in Listed /\ order'[n] # arg[t]
    <3>1. n \in 1..Len(order) /\ n + 1 \in 1..Len(order)
      BY <1>0
    <3>2. order'[n] = IF n < p THEN order[n] ELSE order[n + 1]
      BY <1>0
    <3> QED BY <1>0, <3>1, <3>2 DEF Listed, ListInv, Distinct
  <2>2. ASSUME NEW n \in 1..Len(order), order[n] # arg[t] PROVE order[n] \in Listed'
    <3>1. CASE n < p
      <4>1. n \in 1..Len(order') /\ order'[n] = order[n]
        BY <1>0, <3>1
      <4> QED BY <4>1 DEF Listed
    <3>2. CASE n > p
      <4>1. n - 1 \in 1..Len(order') /\ ~(n - 1 < p) /\ (n - 1) + 1 = n
        BY <1>0, <3>2
      <4>2. order'[n - 1] = order[n]
        BY <1>0, <4>1
      <4> QED BY <4>1, <4>2 DEF Listed
    <3> QED BY <1>0, <2>2, <3>1, <3>2
  <2> QED BY <2>1, <2>2 DEF Listed
<1>12. Members'
  <2>1. \A e \in Regions : e # arg[t] => (Cancelling(e)' <=> Cancelling(e))
    BY <1>1 DEF ListInv, Types, Cancelling
  <2>2. ~Cancelling(arg[t])' /\ owned[arg[t]] # "registered"
    BY <1>1 DEF ListInv, Types, Calls, Cancelling
  <2> QED BY <1>1, <1>11, <2>1, <2>2 DEF ListInv, Members
<1>13. Distinct'
  <2> SUFFICES ASSUME NEW m \in 1..Len(order'), NEW n \in 1..Len(order'), order'[m] = order'[n]
               PROVE  m = n
    BY DEF Distinct
  <2>1. /\ m \in 1..Len(order) /\ m + 1 \in 1..Len(order)
        /\ n \in 1..Len(order) /\ n + 1 \in 1..Len(order)
    BY <1>0
  <2>2. (IF m < p THEN m ELSE m + 1) = (IF n < p THEN n ELSE n + 1)
    BY <1>0, <2>1 DEF ListInv, Distinct
  <2> QED BY <1>0, <2>1, <2>2
<1>14. Links'
  <2>0. \A m, n \in 1..Len(order) : m # n => order[m] # order[n]
    BY DEF ListInv, Distinct
  <2>1. ASSUME NEW n \in 1..Len(order') PROVE next'[order'[n]] = At(n + 1)'
    <3>0. n \in 1..Len(order) /\ n + 1 \in 1..Len(order) /\ n \in Nat /\ p \in Nat
      BY <1>0
    <3>1. CASE n + 1 < p
      <4>1. p # 1 /\ p - 1 \in 1..Len(order) /\ n # p - 1 /\ n + 1 \in 1..(Len(order) - 1)
        BY <1>0, <3>0, <3>1
      <4>2. order'[n] = order[n] /\ order'[n + 1] = order[n + 1]
        BY <1>0, <3>0, <3>1, <4>1
      <4>3. next'[order[n]] = next[order[n]]
        BY <1>2, <1>5, <2>0, <3>0, <4>1 DEF ListInv, Types
      <4>4. At(n + 1)' = order[n + 1] /\ At(n + 1) = order[n + 1]
        BY <1>0, <3>0, <4>1, <4>2 DEF At
      <4> QED BY <3>0, <4>2, <4>3, <4>4 DEF ListInv, Links
    <3>2. CASE n + 1 = p
      <4>1. order'[n] = order[n] /\ n = p - 1 /\ p # 1
        BY <1>0, <3>0, <3>2
      <4>2. next'[order[n]] = At(p + 1)
        BY <1>2, <1>5, <3>0, <4>1 DEF ListInv, Types
      <4>3. At(n + 1)' = At(p + 1)
        <5>1. CASE p = Len(order)
          BY <1>0, <3>2, <5>1 DEF At
        <5>2. CASE p # Len(order)
          <6>1. p \in 1..(Len(order) - 1) /\ p + 1 \in 1..Len(order) /\ ~(p < p)
            BY <1>0, <3>0, <5>2
          <6>2. order'[p] = order[p + 1]
            BY <1>0, <6>1
          <6>3. At(p)' = order[p + 1] /\ At(p + 1) = order[p + 1]
            BY <1>0, <6>1, <6>2 DEF At
          <6> QED BY <3>2, <6>3
        <5> QED BY <5>1, <5>2
      <4> QED BY <4>1, <4>2, <4>3
    <3>3. CASE n >= p
      <4>1. order'[n] = order[n + 1]
        BY <1>0, <3>0, <3>3
      <4>2. next'[order[n + 1]] = next[order[n + 1]]
        <5>1. CASE p = 1
          BY <1>5, <5>1
        <5>2. CASE p # 1
          <6>1. n + 1 # p - 1
            BY <3>0, <3>3
          <6> QED BY <1>2, <1>5, <2>0, <3>0, <5>2, <6>1 DEF ListInv, Types
        <5> QED BY <5>1, <5>2
      <4>3. next[order[n + 1]] = At(n + 1 + 1)
        BY <3>0 DEF ListInv, Links
      <4>4. At(n + 1)' = At(n + 1 + 1)
        <5>1. CASE n + 1 \in 1..(Len(order) - 1)
          <6>1. order'[n + 1] = order[n + 1 + 1] /\ n + 1 + 1 \in 1..Len(order)
            BY <1>0, <3>0, <3>3, <5>1
          <6> QED BY <1>0, <5>1, <6>1 DEF At
        <5>2. CASE n + 1 \notin 1..(Len(order) - 1)
          <6>1. n + 1 + 1 \notin 1..Len(order)
            BY <1>0, <3>0, <5>2
          <6> QED BY <1>0, <5>2, <6>1 DEF At
        <5> QED BY <5>1, <5>2
      <4> QED BY <4>1, <4>2, <4>3, <4>4
    <3> QED BY <3>0, <3>1, <3>2, <3>3
  <2>2. ASSUME NEW n \in 2..Len(order') PROVE prev'[order'[n]] = order'[n - 1]
    <3>0. /\ n \in 1..(Len(order) - 1) /\ n - 1 \in 1..(Len(order) - 1) /\ n \in 2..Len(order)
          /\ n + 1 \in 2..Len(order) /\ n \in Nat /\ p \in Nat
          /\ n \in 1..Len(order) /\ n + 1 \in 1..Len(order)
      BY <1>0
    <3>1. CASE n < p
      <4>1. order'[n] = order[n] /\ order'[n - 1] = order[n - 1]
        BY <1>0, <3>0, <3>1
      <4>2. prev'[order[n]] = prev[order[n]]
        <5>1. CASE p = Len(order)
          BY <1>6, <5>1
        <5>2. CASE p # Len(order)
          <6>1. n # p + 1
            BY <3>0, <3>1
          <6> QED BY <1>2, <1>6, <2>0, <3>0, <5>2, <6>1 DEF ListInv, Types
        <5> QED BY <5>1, <5>2
      <4> QED BY <3>0, <4>1, <4>2 DEF ListInv, Links
    <3>2. CASE n = p
      <4>1. order'[n] = order[p + 1] /\ order'[n - 1] = order[p - 1] /\ p # 1 /\ p # Len(order)
        BY <1>0, <3>0, <3>2
      <4>2. prev'[order[p + 1]] = At(p - 1) /\ At(p - 1) = order[p - 1]
        BY <1>2, <1>5, <1>6, <3>0, <3>2, <4>1 DEF ListInv, Types
      <4> QED BY <4>1, <4>2
    <3>3. CASE n > p
      <4>1. order'[n] = order[n + 1] /\ order'[n - 1] = order[n - 1 + 1] /\ n - 1 + 1 = n
        BY <1>0, <3>0, <3>3
      <4>2. prev'[order[n + 1]] = prev[order[n + 1]]
        <5>1. CASE p = Len(order)
          BY <1>6, <5>1
        <5>2. CASE p # Len(order)
          <6>1. n + 1 # p + 1
            BY <3>0, <3>3
          <6> QED BY <1>2, <1>6, <2>0, <3>0, <5>2, <6>1 DEF ListInv, Types
        <5> QED BY <5>1, <5>2
      <4>3. prev[order[n + 1]] = order[n + 1 - 1] /\ n + 1 - 1 = n
        BY <3>0 DEF ListInv, Links
      <4> QED BY <4>1, <4>2, <4>3
    <3> QED BY <3>0, <3>1, <3>2, <3>3
  <2>3. ASSUME order' # <<>> PROVE prev'[order'[1]] = Null
    <3>0. 1 \in 1..Len(order') /\ 1 \in 1..(Len(order) - 1) /\ 2 \in 1..Len(order)
      BY <1>0, <2>3, EmptySeq
    <3>1. CASE p = 1
      <4>1. order'[1] = order[2] /\ p # Len(order)
        BY <1>0, <3>0, <3>1
      <4>2. prev'[order[2]] = Null
        BY <1>2, <1>5, <1>6, <3>0, <3>1, <4>1 DEF ListInv, Types
      <4> QED BY <4>1, <4>2
    <3>2. CASE p # 1
      <4>1. order'[1] = order[1] /\ order # <<>> /\ 1 \in 1..Len(order)
        BY <1>0, <3>0, <3>2
      <4>2. prev[order[1]] = Null
        BY <1>3, <4>1 DEF ListInv, Links
      <4>3. prev'[order[1]] = prev[order[1]]
        <5>1. CASE p = Len(order)
          BY <1>6, <5>1
        <5>2. CASE p # Len(order)
          BY <1>0, <1>2, <1>6, <2>0, <4>1, <5>2 DEF ListInv, Types
        <5> QED BY <5>1, <5>2
      <4> QED BY <4>1, <4>2, <4>3
    <3> QED BY <3>1, <3>2
  <2>4. first' = At(1)'
    <3>1. CASE p = 1
      <4>1. At(1)' = At(2)
        BY <1>0, <3>1 DEF At
      <4> QED BY <1>5, <3>1, <4>1
    <3>2. CASE p # 1
      <4>1. order'[1] = order[1] /\ 1 \in 1..(Len(order) - 1) /\ 1 \in 1..Len(order)
        BY <1>0, <3>2
      <4> QED BY <1>0, <1>5, <3>2, <4>1 DEF ListInv, Links, At
    <3> QED BY <3>1, <3>2
  <2> QED BY <1>3, <2>1, <2>2, <2>3, <2>4 DEF Links
<1> QED BY <1>8, <1>9, <1>10, <1>11, <1>12, <1>13, <1>14 DEF ListInv

\* A step of the search changes nothing of the list.
LEMMA Search_List ==
  ASSUME ListInv, UNCHANGED <<next, prev, first, lock, pc, arg, owned, order>>
  PROVE  ListInv'
<1>1. Types' /\ Mutex' /\ Calls'
  BY DEF ListInv, Types, Mutex, Calls
<1>2. Distinct' /\ Links' /\ Listed' = Listed
  BY <1>1, LinksStable
<1>3. Members'
  BY <1>2 DEF ListInv, Members, Cancelling
<1> QED BY <1>1, <1>2, <1>3 DEF ListInv

\* The list is in order initially, and every step keeps it so.
LEMMA Init_List == Init => ListInv
<1> SUFFICES ASSUME Init PROVE ListInv
  OBVIOUS
<1>1. Types /\ Mutex /\ Calls
  BY RegionAssumption DEF Init, Types, Mutex, Calls
<1>2. Len(order) = 0 /\ Listed = {}
  BY DEF Init, Listed
<1>3. Members
  BY <1>2 DEF Init, Members, Cancelling
<1>4. Distinct
  BY <1>2 DEF Distinct
<1>5. Links
  BY <1>2 DEF Init, Links, At
<1> QED BY <1>1, <1>3, <1>4, <1>5 DEF ListInv

LEMMA Next_List == ListInv /\ [Next]_vars => ListInv'
<1> SUFFICES ASSUME ListInv, [Next]_vars PROVE ListInv'
  OBVIOUS
<1>1. ASSUME NEW t \in Threads, ThreadStep(t) PROVE ListInv'
  BY <1>1, Call_List, mutex_lock_List, Link_List, Register_List, Unlink_List, Cancel_List
     DEF ThreadStep
<1>2. ASSUME Find \/ local_find_proc_info \/ Done \/ UNCHANGED vars PROVE ListInv'
  BY <1>2, Search_List DEF Find, local_find_proc_info, Done, vars, list, callers
<1> QED BY <1>1, <1>2 DEF Next
-----------------------------------------------------------------------------
\* What the search has passed is not what it looks for: its cursor is on a region of
\* the list, none of the steady regions in front of it covers the address, and a
\* cursor that has run off the end leaves no steady region that does.
OnTheWay ==
  \/ di = Null /\ \A d \in steady : ~Covers(d)
  \/ \E j \in 1..Len(order) :
       order[j] = di /\ \A i \in 1..(j - 1) : order[i] \in steady => ~Covers(order[i])

SearchInv ==
  /\ steady \subseteq Registered /\ find \in {"out", "walk"}
  /\ find = "walk" => ret = "none"
  /\ find = "walk" /\ ~cut => OnTheWay
  /\ OverlooksOnlyBehindCancelled

\* A step of a caller that leaves the order of the list alone.
LEMMA SameOrder ==
  ASSUME SearchInv, UNCHANGED <<find, di, ip, pi, ret, order>>,
         steady' \subseteq steady, steady' \subseteq Registered', ~cut' => ~cut
  PROVE  SearchInv'
<1>1. \A d : Covers(d)' <=> Covers(d)
  BY DEF Covers
<1>2. OnTheWay => OnTheWay'
  BY <1>1 DEF OnTheWay
<1>3. OverlooksOnlyBehindCancelled'
  BY <1>1 DEF SearchInv, OverlooksOnlyBehindCancelled
<1> QED BY <1>2, <1>3 DEF SearchInv

\* The steady regions are in the list.
LEMMA SteadyListed ==
  ASSUME ListInv, SearchInv
  PROVE  \A d \in steady : \E i \in 1..Len(order) : order[i] = d
<1>1. \A d \in steady : d \in Regions /\ owned[d] = "registered"
  BY DEF SearchInv, Registered
<1>2. \A d \in steady : d \in Listed
  BY <1>1 DEF ListInv, Members
<1> QED BY <1>2 DEF Listed

\* A region put in front of the list is not a steady one.
LEMMA Register_Search ==
  ASSUME ListInv, SearchInv, NEW t \in Threads, _U_dyn_register(t)
  PROVE  SearchInv'
<1>1. /\ pc[t] = "head" /\ order' = <<arg[t]>> \o order
      /\ owned' = [owned EXCEPT ![arg[t]] = "registered"]
      /\ UNCHANGED <<find, di, ip, pi, ret, steady, cut>>
  BY DEF _U_dyn_register, search
<1>2. arg[t] \in Regions /\ owned[arg[t]] = "busy" /\ arg[t] \notin steady
  BY <1>1 DEF ListInv, Calls, SearchInv, Registered
<1>3. /\ Len(order) \in Nat /\ Len(order') = Len(order) + 1 /\ order'[1] = arg[t]
      /\ \A n \in 2..(Len(order) + 1) : order'[n] = order[n - 1]
  BY <1>1, <1>2, Front DEF ListInv, Types
<1>4. \A d : Covers(d)' <=> Covers(d)
  BY <1>1 DEF Covers
<1>5. ASSUME OnTheWay PROVE OnTheWay'
  <2>1. CASE di = Null /\ \A d \in steady : ~Covers(d)
    BY <1>1, <1>4, <2>1 DEF OnTheWay
  <2>2. ASSUME NEW j \in 1..Len(order), order[j] = di,
               \A i \in 1..(j - 1) : order[i] \in steady => ~Covers(order[i])
        PROVE  OnTheWay'
    <3>1. j + 1 \in 1..Len(order') /\ j + 1 \in 2..(Len(order) + 1) /\ (j + 1) - 1 = j
      BY <1>3
    <3>2. order'[j + 1] = di
      BY <1>3, <2>2, <3>1
    <3>3. ASSUME NEW i \in 1..((j + 1) - 1), order'[i] \in steady PROVE ~Covers(order'[i])
      <4>1. i # 1
        BY <1>2, <1>3, <3>3
      <4>2. i - 1 \in 1..(j - 1) /\ i \in 2..(Len(order) + 1)
        BY <1>3, <4>1
      <4>3. order'[i] = order[i - 1]
        BY <1>3, <4>2
      <4> QED BY <2>2, <3>3, <4>2, <4>3
    <3> QED BY <1>1, <1>4, <3>1, <3>2, <3>3 DEF OnTheWay
  <2> QED BY <1>5, <2>1, <2>2 DEF OnTheWay
<1>6. steady' \subseteq Registered'
  BY <1>1, <1>2 DEF ListInv, Types, SearchInv, Registered
<1>7. OverlooksOnlyBehindCancelled'
  BY <1>1, <1>4 DEF SearchInv, OverlooksOnlyBehindCancelled
<1> QED BY <1>1, <1>5, <1>6, <1>7 DEF SearchInv

\* Taking out a region other than the cursor's keeps the others in their order.
LEMMA Unlink_Search ==
  ASSUME ListInv, SearchInv, NEW t \in Threads, Unlink(t)
  PROVE  SearchInv'
<1>0. PICK p \in 1..Len(order) :
        /\ order[p] = arg[t]
        /\ order' \in Seq(Regions) /\ Len(order) \in Nat /\ Len(order') = Len(order) - 1
        /\ \A n \in 1..(Len(order) - 1) : order'[n] = IF n < p THEN order[n] ELSE order[n + 1]
  BY UnlinkOrder
<1>1. /\ UNCHANGED <<find, di, ip, pi, ret, steady, owned>>
      /\ cut' = (cut \/ (find = "walk" /\ di = arg[t]))
  BY DEF Unlink, search
<1>2. (~cut' => ~cut) /\ (~cut' /\ find = "walk" => di # arg[t])
  BY <1>1, Zenon
<1>3. \A d : Covers(d)' <=> Covers(d)
  BY <1>1 DEF Covers
<1>4. ASSUME OnTheWay, di # arg[t] PROVE OnTheWay'
  <2>1. CASE di = Null /\ \A d \in steady : ~Covers(d)
    BY <1>1, <1>3, <2>1 DEF OnTheWay
  <2>2. ASSUME NEW j \in 1..Len(order), order[j] = di,
               \A i \in 1..(j - 1) : order[i] \in steady => ~Covers(order[i])
        PROVE  OnTheWay'
    <3>0. j # p /\ j \in Nat /\ p \in Nat
      BY <1>0, <1>4, <2>2
    <3>1. CASE j < p
      <4>1. j \in 1..Len(order') /\ j \in 1..(Len(order) - 1)
        BY <1>0, <3>0, <3>1
      <4>2. order'[j] = order[j]
        BY <1>0, <3>1, <4>1
      <4>3. ASSUME NEW i \in 1..(j - 1) PROVE order'[i] = order[i]
        <5>1. i < p /\ i \in 1..(Len(order) - 1)
          BY <3>1, <4>1
        <5> QED BY <1>0, <5>1
      <4> QED BY <1>1, <1>3, <2>2, <4>1, <4>2, <4>3 DEF OnTheWay
    <3>2. CASE j > p
      <4>1. /\ j - 1 \in 1..Len(order') /\ j - 1 \in 1..(Len(order) - 1)
            /\ ~(j - 1 < p) /\ (j - 1) + 1 = j
        BY <1>0, <3>0, <3>2
      <4>2. order'[j - 1] = di
        BY <1>0, <2>2, <4>1
      <4>3. ASSUME NEW i \in 1..((j - 1) - 1), order'[i] \in steady PROVE ~Covers(order'[i])
        <5>1. i \in 1..(Len(order) - 1) /\ i \in 1..(j - 1) /\ i + 1 \in 1..(j - 1)
          BY <4>1
        <5>2. order'[i] = order[i] \/ order'[i] = order[i + 1]
          BY <1>0, <5>1
        <5> QED BY <2>2, <4>3, <5>1, <5>2
      <4> QED BY <1>1, <1>3, <4>1, <4>2, <4>3 DEF OnTheWay
    <3> QED BY <3>0, <3>1, <3>2
  <2> QED BY <1>4, <2>1, <2>2 DEF OnTheWay
<1>5. OverlooksOnlyBehindCancelled'
  BY <1>1, <1>2, <1>3 DEF SearchInv, OverlooksOnlyBehindCancelled
<1>6. steady' \subseteq Registered'
  BY <1>1 DEF SearchInv, Registered
<1> QED BY <1>1, <1>2, <1>4, <1>5, <1>6 DEF SearchInv

\* The search starts at the head of the list.
LEMMA Find_Search ==
  ASSUME ListInv, Find
  PROVE  SearchInv'
<1>1. /\ di' = first /\ ret' = "none" /\ find' = "walk" /\ steady' = Registered
      /\ UNCHANGED <<owned, order>>
  BY DEF Find, list, callers
<1>2. first = At(1) /\ Len(order) \in Nat
  BY DEF ListInv, Types, Links
<1>3. OnTheWay'
  <2>1. CASE 1 \in 1..Len(order)
    <3>1. order[1] = first /\ 1..(1 - 1) = {}
      BY <1>2, <2>1 DEF At
    <3> QED BY <1>1, <2>1, <3>1 DEF OnTheWay
  <2>2. CASE 1 \notin 1..Len(order)
    <3>1. first = Null /\ Len(order) = 0
      BY <1>2, <2>2 DEF At
    <3>2. Listed = {}
      BY <3>1 DEF Listed
    <3>3. Registered = {}
      BY <3>2 DEF ListInv, Members, Registered
    <3> QED BY <1>1, <3>1, <3>3 DEF OnTheWay
  <2> QED BY <2>1, <2>2
<1>4. steady' \subseteq Registered' /\ OverlooksOnlyBehindCancelled'
  BY <1>1 DEF Registered, OverlooksOnlyBehindCancelled
<1> QED BY <1>1, <1>3, <1>4 DEF SearchInv

\* One pass of the search's loop.
LEMMA Walk_Search ==
  ASSUME ListInv, SearchInv, local_find_proc_info
  PROVE  SearchInv'
<1>1. find = "walk" /\ ret = "none" /\ UNCHANGED <<next, owned, ip, steady, order>>
  BY DEF local_find_proc_info, list, callers, SearchInv
<1>2. \A d : Covers(d)' <=> Covers(d)
  BY <1>1 DEF Covers
<1>3. steady' \subseteq Registered'
  BY <1>1 DEF SearchInv, Registered
<1>4. Len(order) \in Nat /\ \A i \in 1..Len(order) : order[i] \in Regions /\ order[i] # Null
  BY RegionAssumption DEF ListInv, Types
<1>5. ASSUME di = Null, Returns("ENOINFO", pi), UNCHANGED <<di, cut>> PROVE SearchInv'
  <2>1. find' = "out" /\ (~cut => OnTheWay)
    BY <1>1, <1>5 DEF Returns, SearchInv
  <2>2. ~cut => \A d \in steady : ~Covers(d)
    BY <1>4, <1>5, <2>1 DEF OnTheWay
  <2>3. OverlooksOnlyBehindCancelled'
    BY <1>1, <1>2, <1>5, <2>2 DEF OverlooksOnlyBehindCancelled
  <2> QED BY <1>3, <2>1, <2>3 DEF SearchInv
<1>6. ASSUME di # Null, unwi_extract_dynamic_proc_info(di), UNCHANGED <<di, cut>>
      PROVE  SearchInv'
  <2>1. find' = "out" /\ pi'.of = di
    BY <1>6 DEF unwi_extract_dynamic_proc_info, Returns, Pi
  <2>2. pi' # NoPi
    BY <1>6, <2>1 DEF NoPi, Pi
  <2> QED BY <1>3, <2>1, <2>2 DEF SearchInv, OverlooksOnlyBehindCancelled, NoPi, Pi
<1>7. ASSUME di # Null, ~Covers(di), di' = next[di],
             cut' = (cut \/ (di' # Null /\ Dangling(di'))), UNCHANGED <<find, pi, ret>>
      PROVE  SearchInv'
  <2>1. ~cut' => ~cut
    BY <1>7, Zenon
  <2>2. ASSUME ~cut' PROVE OnTheWay'
    <3>1. PICK j \in 1..Len(order) :
            order[j] = di /\ \A i \in 1..(j - 1) : order[i] \in steady => ~Covers(order[i])
      BY <1>1, <1>7, <2>1, <2>2 DEF SearchInv, OnTheWay
    <3>2. di' = At(j + 1)
      BY <1>7, <3>1 DEF ListInv, Links
    <3>3. \A i \in 1..j : order[i] \in steady => ~Covers(order[i])
      <4>1. \A i \in 1..j : i = j \/ i \in 1..(j - 1)
        OBVIOUS
      <4> QED BY <1>7, <3>1, <4>1
    <3>4. CASE j + 1 \in 1..Len(order)
      <4>1. order[j + 1] = di' /\ (j + 1) - 1 = j
        BY <3>2, <3>4 DEF At
      <4> QED BY <1>1, <1>2, <3>3, <3>4, <4>1 DEF OnTheWay
    <3>5. CASE j + 1 \notin 1..Len(order)
      <4>1. di' = Null /\ j = Len(order)
        BY <1>4, <3>2, <3>5 DEF At
      <4>2. \A d \in steady : ~Covers(d)
        BY <3>3, <4>1, SteadyListed
      <4> QED BY <1>1, <1>2, <4>1, <4>2 DEF OnTheWay
    <3> QED BY <3>4, <3>5
  <2>3. OverlooksOnlyBehindCancelled'
    BY <1>1, <1>7 DEF OverlooksOnlyBehindCancelled
  <2> QED BY <1>1, <1>3, <1>7, <2>2, <2>3 DEF SearchInv
<1> QED BY <1>5, <1>6, <1>7 DEF local_find_proc_info

\* The other steps of a caller leave the order alone, or forget about a region that is
\* no longer steady.
LEMMA Others_Search ==
  ASSUME ListInv, SearchInv, NEW t \in Threads,
         \/ \E d \in Regions, op \in {"register", "cancel"} : Call(t, d, op)
         \/ mutex_lock(t) \/ Link(t) \/ _U_dyn_cancel(t)
  PROVE  SearchInv'
<1>1. ASSUME NEW d \in Regions, NEW op \in {"register", "cancel"}, Call(t, d, op)
      PROVE  SearchInv'
  <2>1. /\ UNCHANGED <<find, di, ip, pi, ret, order, cut>> /\ steady' = steady \ {d}
        /\ owned' = [owned EXCEPT ![d] = "busy"]
    BY <1>1 DEF Call, search
  <2>2. steady' \subseteq Registered'
    BY <2>1 DEF SearchInv, Registered, ListInv, Types
  <2> QED BY <2>1, <2>2, SameOrder
<1>2. ASSUME mutex_lock(t) \/ Link(t) PROVE SearchInv'
  <2>1. UNCHANGED <<find, di, ip, pi, ret, order, cut, steady, owned>>
    BY <1>2 DEF mutex_lock, Link, search
  <2>2. steady' \subseteq Registered'
    BY <2>1 DEF SearchInv, Registered
  <2> QED BY <2>1, <2>2, SameOrder
<1>3. ASSUME _U_dyn_cancel(t) PROVE SearchInv'
  <2>1. /\ UNCHANGED <<find, di, ip, pi, ret, order, steady>>
        /\ cut' = (cut \/ (find = "walk" /\ di = arg[t]))
        /\ owned' = [owned EXCEPT ![arg[t]] = "cancelled"]
        /\ pc[t] = "clear"
    BY <1>3 DEF _U_dyn_cancel, search
  <2>2. ~cut' => ~cut
    BY <2>1, Zenon
  <2>3. arg[t] \in Regions /\ arg[t] \notin steady
    BY <2>1 DEF ListInv, Calls, SearchInv, Registered
  <2>4. steady' \subseteq Registered'
    BY <2>1, <2>3 DEF SearchInv, Registered, ListInv, Types
  <2> QED BY <2>1, <2>2, <2>4, SameOrder
<1> QED BY <1>1, <1>2, <1>3

LEMMA Init_Search == Init => SearchInv
BY DEF Init, SearchInv, OverlooksOnlyBehindCancelled

LEMMA Next_Search == ListInv /\ SearchInv /\ [Next]_vars => SearchInv'
<1> SUFFICES ASSUME ListInv, SearchInv, [Next]_vars PROVE SearchInv'
  OBVIOUS
<1>1. ASSUME NEW t \in Threads, ThreadStep(t) PROVE SearchInv'
  BY <1>1, Others_Search, Register_Search, Unlink_Search DEF ThreadStep
<1>2. ASSUME UNCHANGED vars PROVE SearchInv'
  <2>1. UNCHANGED <<find, di, ip, pi, ret, order, cut, steady, owned>>
    BY <1>2 DEF vars
  <2>2. steady' \subseteq Registered'
    BY <2>1 DEF SearchInv, Registered
  <2> QED BY <2>1, <2>2, SameOrder
<1> QED BY <1>1, <1>2, Find_Search, Walk_Search DEF Next, Done
-----------------------------------------------------------------------------
\* The strengthening of both properties holds in every reachable state.
THEOREM Invariance == Spec => [](ListInv /\ SearchInv)
<1>1. Init => ListInv /\ SearchInv
  BY Init_List, Init_Search
<1>2. (ListInv /\ SearchInv) /\ [Next]_vars => (ListInv /\ SearchInv)'
  BY Next_List, Next_Search
<1> QED BY <1>1, <1>2, PTL DEF Spec

\* Whenever the lock is free, the links spell exactly the regions that are registered
\* and not yet cancelled, in both directions: registrations and cancellations of any
\* number of threads keep the list whole (dyn-register.c:33-43, dyn-cancel.c:31-45).
THEOREM ListCorrect == Spec => []ListIsTheRegistered
<1>1. ListInv => ListIsTheRegistered
  <2> SUFFICES ASSUME ListInv, lock = Null PROVE ListIsTheRegistered
    BY DEF ListIsTheRegistered
  <2>1. \A u \in Threads : pc[u] \notin {"link", "head", "unlink"}
    BY RegionAssumption DEF ListInv, Mutex
  <2>2. Listed = Registered \cup {arg[t] : t \in {u \in Threads : pc[u] = "cancel"}}
    <3>1. \A d \in Listed : d \in Regions
      BY DEF ListInv, Types, Listed
    <3>2. \A t \in Threads : pc[t] = "cancel" => arg[t] \in Regions
      BY DEF ListInv, Calls
    <3>3. \A d \in Regions : Cancelling(d) <=> \E t \in Threads : pc[t] = "cancel" /\ arg[t] = d
      BY <2>1 DEF Cancelling
    <3> QED BY <3>1, <3>2, <3>3 DEF ListInv, Members, Registered
  <2>3. ASSUME NEW n \in 1..Len(order) PROVE prev[order[n]] = At(n - 1)
    <3>0. Len(order) \in Nat
      BY DEF ListInv, Types
    <3>1. CASE n = 1
      <4>1. order # <<>> /\ At(0) = Null
        BY <2>3, <3>1 DEF At
      <4> QED BY <2>1, <3>1, <4>1 DEF ListInv, Links
    <3>2. CASE n # 1
      <4>1. n \in 2..Len(order) /\ n - 1 \in 1..Len(order)
        BY <3>0, <3>2
      <4> QED BY <4>1 DEF ListInv, Links, At
    <3> QED BY <3>1, <3>2
  <2> QED BY <2>2, <2>3 DEF ListInv, Distinct, Links, ListIsTheRegistered
<1> QED BY <1>1, Invariance, PTL

\* The search without the lock (Gfind_dynamic_proc_info.c:42) misses a region that was
\* registered all along only behind a region that was cancelled under it, wherever the
\* registrations and cancellations of the other threads fall.
THEOREM SearchCorrect == Spec => []OverlooksOnlyBehindCancelled
<1>1. SearchInv => OverlooksOnlyBehindCancelled
  BY DEF SearchInv
<1> QED BY <1>1, Invariance, PTL
=============================================================================
