------------------------- MODULE TraceCacheProofs -------------------------
(***************************************************************************)
(* The table of a cache that one thread has to itself, proved for every    *)
(* set of threads and addresses, every hash function, and every number of  *)
(* probes, lookups, caches and bits.                                       *)
(*                                                                         *)
(* The invariant says of a thread t that is the only user of a cache c     *)
(* what the table holds (Ok), how much of it is counted, and, by the point *)
(* t has reached in trace_lookup, what t has learnt of the slots it has    *)
(* passed.  It says of all threads, with the history variables users and   *)
(* owner, that no thread reaches a cache it was not given, or an array of  *)
(* a cache it does not use: this is why the steps of the other threads,    *)
(* whatever they do to a cache they share, leave the table as it is.       *)
(***************************************************************************)
EXTENDS TraceCache, FiniteSetTheorems, TLAPS

-----------------------------------------------------------------------------
(* Tables: functions from the slots that are filled to what they hold.     *)

SlotValue == [virtual_address : Nat, properties : Nat]

Tables == UNION {[S -> SlotValue] : S \in {T \in SUBSET Nat : IsFiniteSet(T)}}

\* The k-th slot that trace_lookup probes for r in a table of n slots.
Probed(r, k, n) == (Hash[r] + k) % n

\* The frame of slot s is reached after k others, past no empty slot.
ReachedAt(h, n, s, k) ==
  /\ s = Probed(h[s].virtual_address, k, n)
  /\ \A j \in 0..k : Probed(h[s].virtual_address, j, n) \in DOMAIN h

Reached(h, n) ==
  \A s \in DOMAIN h : \E k \in 0..(MaxProbes - 1) : ReachedAt(h, n, s, k)

Unique(h) ==
  \A s, u \in DOMAIN h : h[u].virtual_address = h[s].virtual_address => u = s

Honest(h) ==
  \A s \in DOMAIN h : /\ h[s].virtual_address \in Rips
                      /\ h[s].properties \in {0, h[s].virtual_address}

Ok(h, n) == Reached(h, n) /\ Unique(h) /\ Honest(h)

\* The first k slots probed for r are filled, by other addresses.
Passed(h, n, r, k) ==
  \A j \in 0..(k - 1) : /\ Probed(r, j, n) \in DOMAIN h
                        /\ h[Probed(r, j, n)].virtual_address # r

\* s is the empty slot to which probing for r leads.
Free(h, n, r, s) ==
  /\ s \notin DOMAIN h
  /\ \E k \in 0..(MaxProbes - 1) : s = Probed(r, k, n) /\ Passed(h, n, r, k)

Holds(h, s, r) == s \in DOMAIN h /\ h[s].virtual_address = r
-----------------------------------------------------------------------------
(* The invariant.                                                          *)

Expanding == {"set_frames", "set_log"}
Looking == {"probe", "decide", "expand", "set_frames", "set_log", "set_used", "rehash",
            "insert", "fill", "copy", "step", "use"}
Tracing == Looking \cup {"trace", "panic"}
Pointing == {"decide", "insert", "fill", "copy", "step", "use"}
PCs == Tracing \cup {"idle", "get", "init_once", "tls", "unthreaded"}

Caches == [frames : Nat, log_size : MinBits..MaxBits, used : Nat]

GlobalTypes ==
  /\ trace_cache_once_happen \in {0, 1}
  /\ global_cache \in Nat
  /\ tls_cache \in [Threads -> Nat]
  /\ caches \in Seq(Caches)
  /\ arrays \in Seq(Tables)
  /\ users \in Seq(SUBSET Threads)
  /\ owner \in Seq(Nat)

LocalTypes ==
  /\ pc \in [Threads -> PCs]
  /\ cache \in [Threads -> Nat]
  /\ rip \in [Threads -> Nat]
  /\ i \in [Threads -> Nat]
  /\ cache_size \in [Threads -> Nat]
  /\ slot \in [Threads -> Nat]
  /\ frame \in [Threads -> Nat \X Nat]
  /\ addr \in [Threads -> Nat]
  /\ new_log_size \in [Threads -> Nat]
  /\ new_frames \in [Threads -> Nat]
  /\ frame_info \in [Threads -> Nat]
  /\ lookups \in [Threads -> Nat]
  /\ \A t \in Threads : pc[t] \in Looking => rip[t] \in Rips
  /\ \A t \in Threads : pc[t] \in Expanding => new_log_size[t] \in MinBits..MaxBits

Types == GlobalTypes /\ LocalTypes

\* A thread has only caches that it was given.
Given(us, t, c) == c \in 1..Len(us) /\ t \in us[c]

Users ==
  /\ Len(users) = Len(caches)
  /\ \A c \in 1..Len(users) : users[c] # {} /\ IsFiniteSet(users[c])
  /\ \A t \in Threads : tls_cache[t] # 0 => Given(users, t, tls_cache[t])
  /\ global_cache # 0 => global_cache \in 1..Len(caches)
  /\ \A t \in Threads : cache[t] # 0 => Given(users, t, cache[t])
  /\ \A t \in Threads : pc[t] \in Tracing => cache[t] # 0

\* A thread has only pointers to arrays of its cache.
ArrayOf(own, a, c) == a \in 1..Len(own) /\ own[a] = c

Owners ==
  /\ Len(owner) = Len(arrays)
  /\ \A c \in 1..Len(caches) : ArrayOf(owner, caches[c].frames, c)
  /\ \A t \in Threads : pc[t] \in Pointing => ArrayOf(owner, frame[t][1], cache[t])
  /\ \A t \in Threads : pc[t] \in Expanding => ArrayOf(owner, new_frames[t], cache[t])

\* What the only user t of a cache, with the table h of n slots, knows of it.
Knows(t, h, n) ==
  /\ pc[t] = "probe" =>
       /\ i[t] < MaxProbes
       /\ slot[t] = Probed(rip[t], i[t], n)
       /\ Passed(h, n, rip[t], i[t])
  /\ pc[t] \in {"probe", "decide"} => cache_size[t] = n
  /\ pc[t] = "decide" /\ addr[t] = 0 => Free(h, n, rip[t], frame[t][2])
  /\ pc[t] \in {"insert", "fill"} => addr[t] = 0 /\ Free(h, n, rip[t], frame[t][2])
  /\ pc[t] \in {"copy", "step", "use"} => Holds(h, frame[t][2], rip[t])
  /\ pc[t] = "step" => frame_info[t] = rip[t]

\* The tables that an expansion leaves empty, and the pointers into the table.
Expands(t, c) ==
  /\ pc[t] \in Pointing => frame[t][1] = caches[c].frames
  /\ pc[t] = "set_frames" => arrays[new_frames[t]] = NoSlots
  /\ pc[t] \in {"set_log", "set_used", "rehash"} => arrays[caches[c].frames] = NoSlots

\* How many slots are filled: card of n, with used of them counted.
Counts(p, card, n, used) ==
  /\ p = "fill" => used = card + 1
  /\ p \notin {"set_log", "set_used", "fill"} => used = card
  /\ p \notin {"set_log", "set_used"} => 2 * used <= n
  /\ p = "insert" => 2 * (used + 1) <= n
  /\ p = "rehash" => used = 0

\* t is the only user of c.
Alone(t, c) ==
  LET h == arrays[caches[c].frames]
      n == Size(caches[c].log_size)
  IN /\ Ok(h, n)
     /\ cache[t] = c => Knows(t, h, n) /\ Expands(t, c)
     /\ Counts(IF cache[t] = c THEN pc[t] ELSE "idle", Cardinality(DOMAIN h), n,
               caches[c].used)

Private == \A t \in Threads, c \in 1..Len(caches) : users[c] = {t} => Alone(t, c)

IInv == Types /\ Users /\ Owners /\ Private
-----------------------------------------------------------------------------
(* Remainders: the code's probing is that of Probed.                       *)

\* A remainder is in range.
LEMMA ModRange == ASSUME NEW a \in Nat, NEW n \in Nat \ {0}
                  PROVE  a % n \in Nat /\ 0 <= a % n /\ a % n < n
  BY SMT

\* Division with remainder.
LEMMA DivMod == ASSUME NEW a \in Nat, NEW n \in Nat \ {0}
                PROVE  a \div n \in Int /\ a = n * (a \div n) + (a % n)
  BY SMT

\* The remainder is determined.
LEMMA ModUnique ==
  ASSUME NEW n \in Nat \ {0}, NEW q \in Int, NEW r \in Int, NEW p \in Int, NEW s \in Int,
         n * q + r = n * p + s, 0 <= r, r < n, 0 <= s, s < n
  PROVE  r = s
  <1>1. n * (q - p) = s - r
    BY SMT
  <1>2. CASE q - p >= 1
    <2>1. n * (q - p) >= n
      BY <1>2, SMT
    <2> QED BY <2>1, <1>1, SMT
  <1>3. CASE q - p <= -1
    <2>1. n * (q - p) <= -n
      BY <1>3, SMT
    <2> QED BY <2>1, <1>1, SMT
  <1>4. CASE q = p
    BY <1>4, <1>1, SMT
  <1> QED BY <1>2, <1>3, <1>4, SMT

\* One more than a number has the remainder that NextSlot computes, as in
\* "if (++slot >= cache_size) slot -= cache_size" (Gtrace.c:296-297).
LEMMA NextSlotMod == ASSUME NEW a \in Nat, NEW n \in Nat \ {0}
                     PROVE  (a + 1) % n = NextSlot(a % n, n)
  <1> DEFINE r == a % n
  <1> DEFINE q == a \div n
  <1> DEFINE s == (a + 1) % n
  <1> DEFINE p == (a + 1) \div n
  <1>1. r \in Nat /\ 0 <= r /\ r < n
    BY ModRange
  <1>2. q \in Int /\ a = n * q + r
    BY DivMod
  <1>3. a + 1 \in Nat
    OBVIOUS
  <1>4. s \in Nat /\ 0 <= s /\ s < n
    BY <1>3, ModRange
  <1>5. p \in Int /\ a + 1 = n * p + s
    BY <1>3, DivMod
  <1> HIDE DEF r, q, s, p
  <1>6. CASE r + 1 >= n
    <2> DEFINE x == r + 1 - n
    <2>1. x \in Int /\ 0 <= x /\ x < n /\ s \in Int
      BY <1>1, <1>4, <1>6
    <2>2. q + 1 \in Int /\ n * (q + 1) = n * q + n
      BY <1>2
    <2>3. n * (q + 1) + x = n * p + s
      BY <2>2, <1>1, <1>2, <1>4, <1>5
    <2> HIDE DEF x
    <2>4. x = s
      BY <2>1, <2>3, <2>2, <1>4, <1>5, ModUnique
    <2> QED BY <2>4, <1>6 DEF NextSlot, r, s, x
  <1>7. CASE r + 1 < n
    <2>1. n * q + (r + 1) = n * p + s
      BY <1>1, <1>2, <1>4, <1>5
    <2>2. r + 1 \in Int /\ 0 <= r + 1 /\ s \in Int
      BY <1>1, <1>4
    <2>3. r + 1 = s
      BY <2>1, <2>2, <1>2, <1>4, <1>5, <1>7, ModUnique
    <2> QED BY <2>3, <1>1, <1>7 DEF NextSlot, r, s
  <1> QED BY <1>1, <1>6, <1>7

\* The slot of the first probe.
LEMMA FirstProbe == ASSUME NEW r \in Rips, NEW n \in Nat \ {0}
                    PROVE  Slot(r, n) = Probed(r, 0, n) /\ Slot(r, n) \in Nat
  <1>1. Hash[r] \in Nat /\ Hash[r] + 0 = Hash[r]
    BY TraceAssumption
  <1> QED BY <1>1, ModRange DEF Slot, Probed

\* The slot of the next one.
LEMMA NextProbe == ASSUME NEW r \in Rips, NEW k \in Nat, NEW n \in Nat \ {0}
                   PROVE  NextSlot(Probed(r, k, n), n) = Probed(r, k + 1, n)
  <1>1. Hash[r] + k \in Nat /\ (Hash[r] + k) + 1 = Hash[r] + (k + 1)
    BY TraceAssumption
  <1> QED BY <1>1, NextSlotMod DEF Probed
-----------------------------------------------------------------------------
(* Tables.                                                                 *)

\* A table is a function of finite domain.
LEMMA TableType == ASSUME NEW h \in Tables
                   PROVE  /\ h \in [DOMAIN h -> SlotValue]
                          /\ DOMAIN h \subseteq Nat
                          /\ IsFiniteSet(DOMAIN h)
  <1>1. PICK S \in {T \in SUBSET Nat : IsFiniteSet(T)} : h \in [S -> SlotValue]
    BY DEF Tables
  <1> QED BY <1>1

\* The other way round.
LEMMA IsTable == ASSUME NEW S \in SUBSET Nat, IsFiniteSet(S), NEW h \in [S -> SlotValue]
                 PROVE  h \in Tables
  BY DEF Tables

\* The new array is a table.
LEMMA NoSlotsTable == NoSlots \in Tables /\ DOMAIN NoSlots = {} /\ Cardinality(DOMAIN NoSlots) = 0
  <1>1. IsFiniteSet({}) /\ {} \in SUBSET Nat /\ Cardinality({}) = 0
    BY FS_EmptySet
  <1>2. NoSlots \in [{} -> SlotValue] /\ DOMAIN NoSlots = {}
    BY DEF NoSlots
  <1> QED BY <1>1, <1>2, IsTable

\* What Put makes of a table.
LEMMA PutTable == ASSUME NEW h \in Tables, NEW s \in Nat, NEW v \in SlotValue
                  PROVE  /\ Put(h, s, v) \in Tables
                         /\ DOMAIN Put(h, s, v) = DOMAIN h \cup {s}
                         /\ Put(h, s, v)[s] = v
                         /\ \A x \in DOMAIN h : x # s => Put(h, s, v)[x] = h[x]
  <1>1. /\ h \in [DOMAIN h -> SlotValue]
        /\ DOMAIN h \subseteq Nat
        /\ IsFiniteSet(DOMAIN h)
    BY TableType
  <1>2. IsFiniteSet(DOMAIN h \cup {s}) /\ DOMAIN h \cup {s} \in SUBSET Nat
    BY <1>1, FS_AddElement
  <1>3. Put(h, s, v) \in [DOMAIN h \cup {s} -> SlotValue]
    BY <1>1 DEF Put
  <1>4. Put(h, s, v) \in Tables
    BY <1>2, <1>3, IsTable
  <1> QED BY <1>3, <1>4 DEF Put

\* An empty table is in order.
LEMMA EmptyOk == ASSUME NEW n PROVE Ok(NoSlots, n)
  BY NoSlotsTable DEF Ok, Reached, Unique, Honest

\* Nothing is passed before the first probe.
LEMMA PassedZero == ASSUME NEW h, NEW n, NEW r PROVE Passed(h, n, r, 0)
  BY DEF Passed

\* A slot filled by another address is passed.
LEMMA PassedNext ==
  ASSUME NEW h, NEW n, NEW r, NEW k \in Nat, Passed(h, n, r, k),
         Probed(r, k, n) \in DOMAIN h, h[Probed(r, k, n)].virtual_address # r
  PROVE  Passed(h, n, r, k + 1)
  <1>1. SUFFICES ASSUME NEW j \in 0..((k + 1) - 1)
                 PROVE  /\ Probed(r, j, n) \in DOMAIN h
                        /\ h[Probed(r, j, n)].virtual_address # r
    BY DEF Passed
  <1>2. CASE j = k
    BY <1>2
  <1>3. CASE j # k
    <2>1. j \in 0..(k - 1)
      BY <1>3
    <2> QED BY <2>1 DEF Passed
  <1> QED BY <1>2, <1>3

\* An address with an empty slot before it is in no slot: past this slot no probe
\* for it goes, and the slots before it hold others.
LEMMA FreeIsNew ==
  ASSUME NEW h \in Tables, NEW n \in Nat \ {0}, Ok(h, n), NEW r \in Rips, NEW s,
         Free(h, n, r, s), NEW u \in DOMAIN h
  PROVE  h[u].virtual_address # r
  <1>1. SUFFICES ASSUME h[u].virtual_address = r PROVE FALSE
    OBVIOUS
  <1>2. PICK k \in 0..(MaxProbes - 1) : s = Probed(r, k, n) /\ Passed(h, n, r, k)
    BY DEF Free
  <1>3. PICK m \in 0..(MaxProbes - 1) : ReachedAt(h, n, u, m)
    BY DEF Ok, Reached
  <1>4. u = Probed(r, m, n) /\ \A j \in 0..m : Probed(r, j, n) \in DOMAIN h
    BY <1>1, <1>3 DEF ReachedAt
  <1>5. k \in Int /\ m \in Int /\ 0 <= k /\ 0 <= m
    BY TraceAssumption
  <1>6. CASE k <= m
    <2>1. k \in 0..m
      BY <1>5, <1>6
    <2> QED BY <2>1, <1>2, <1>4 DEF Free
  <1>7. CASE m < k
    <2>1. m \in 0..(k - 1)
      BY <1>5, <1>7
    <2> QED BY <2>1, <1>1, <1>2, <1>4 DEF Passed
  <1> QED BY <1>5, <1>6, <1>7

\* The slot at the end of the probing is filled with the address: the table stays in
\* order, and the address is found there.
LEMMA FillOk ==
  ASSUME NEW h \in Tables, NEW n \in Nat \ {0}, Ok(h, n), NEW r \in Rips, NEW s \in Nat,
         Free(h, n, r, s), NEW v \in SlotValue, v.virtual_address = r, v.properties = 0
  PROVE  Ok(Put(h, s, v), n) /\ Holds(Put(h, s, v), s, r)
  <1> DEFINE g == Put(h, s, v)
  <1>1. /\ DOMAIN g = DOMAIN h \cup {s}
        /\ g[s] = v
        /\ \A x \in DOMAIN h : x # s => g[x] = h[x]
    BY PutTable
  <1>2. s \notin DOMAIN h
    BY DEF Free
  <1>3. \A x \in DOMAIN h : g[x] = h[x]
    BY <1>1, <1>2
  <1> HIDE DEF g
  <1>4. ASSUME NEW u \in DOMAIN g PROVE \E k \in 0..(MaxProbes - 1) : ReachedAt(g, n, u, k)
    <2>1. CASE u = s
      <3>1. PICK k \in 0..(MaxProbes - 1) : s = Probed(r, k, n) /\ Passed(h, n, r, k)
        BY DEF Free
      <3>2. k \in Int /\ 0 <= k
        BY TraceAssumption
      <3>3. ASSUME NEW j \in 0..k PROVE Probed(r, j, n) \in DOMAIN g
        <4>1. CASE j = k
          BY <4>1, <3>1, <1>1
        <4>2. CASE j # k
          <5>1. j \in 0..(k - 1)
            BY <4>2, <3>2
          <5> QED BY <5>1, <3>1, <1>1 DEF Passed
        <4> QED BY <4>1, <4>2
      <3>4. ReachedAt(g, n, u, k)
        BY <2>1, <3>1, <3>3, <1>1 DEF ReachedAt
      <3> QED BY <3>4
    <2>2. CASE u # s
      <3>1. u \in DOMAIN h /\ g[u] = h[u]
        BY <2>2, <1>1, <1>3
      <3>2. PICK k \in 0..(MaxProbes - 1) : ReachedAt(h, n, u, k)
        BY <3>1 DEF Ok, Reached
      <3>3. ReachedAt(g, n, u, k)
        BY <3>1, <3>2, <1>1 DEF ReachedAt
      <3> QED BY <3>3
    <2> QED BY <2>1, <2>2
  <1>5. Reached(g, n)
    BY <1>4 DEF Reached
  <1>6. \A x \in DOMAIN h : h[x].virtual_address # r
    BY FreeIsNew
  <1>7. Unique(g)
    BY <1>1, <1>3, <1>6 DEF Unique, Ok
  <1>8. Honest(g)
    BY <1>1, <1>3 DEF Honest, Ok
  <1>9. Holds(g, s, r)
    BY <1>1 DEF Holds
  <1> QED BY <1>5, <1>7, <1>8, <1>9 DEF Ok, g

\* What was found out about the address is stored in its own slot.
LEMMA StoreOk ==
  ASSUME NEW h \in Tables, NEW n \in Nat \ {0}, Ok(h, n), NEW r \in Rips, NEW s \in Nat,
         Holds(h, s, r), NEW v \in SlotValue, v.virtual_address = r, v.properties = r
  PROVE  /\ Ok(Put(h, s, v), n)
         /\ Holds(Put(h, s, v), s, r)
         /\ DOMAIN Put(h, s, v) = DOMAIN h
  <1> DEFINE g == Put(h, s, v)
  <1>1. /\ DOMAIN g = DOMAIN h
        /\ g[s] = v
        /\ \A x \in DOMAIN h : x # s => g[x] = h[x]
    BY PutTable DEF Holds
  <1>2. \A x \in DOMAIN h : g[x].virtual_address = h[x].virtual_address
    BY <1>1 DEF Holds
  <1> HIDE DEF g
  <1>3. Reached(g, n)
    BY <1>1, <1>2 DEF Reached, ReachedAt, Ok
  <1>4. Unique(g)
    BY <1>1, <1>2 DEF Unique, Ok
  <1>5. Honest(g)
    BY <1>1, <1>2 DEF Honest, Ok
  <1>6. Holds(g, s, r)
    BY <1>1 DEF Holds
  <1> QED BY <1>1, <1>3, <1>4, <1>5, <1>6 DEF Ok, g
-----------------------------------------------------------------------------
(* Types.                                                                  *)

\* Every size is at least two.
LEMMA SizeType == ASSUME Types, NEW c \in 1..Len(caches)
                  PROVE  /\ caches[c] \in Caches
                         /\ Size(caches[c].log_size) \in Nat \ {0}
                         /\ Size(caches[c].log_size) >= 2
  <1>1. caches[c] \in Caches
    BY DEF Types, GlobalTypes, LocalTypes
  <1>2. caches[c].log_size \in MinBits..MaxBits
    BY <1>1 DEF Caches
  <1>3. Size(caches[c].log_size) \in Nat \ {0, 1}
    BY <1>2, SizeAssumption
  <1> QED BY <1>1, <1>3

\* A thread that traces uses a cache it was given.
LEMMA CacheType == ASSUME Types, Users, NEW t \in Threads, pc[t] \in Tracing
                   PROVE  cache[t] \in 1..Len(caches) /\ t \in users[cache[t]]
  BY DEF Types, GlobalTypes, LocalTypes, Users, Given

\* What a pointer points to has numbers in it.
LEMMA AtType == ASSUME Types, NEW f \in Nat \X Nat, f[1] \in 1..Len(arrays)
                PROVE  At(f).virtual_address \in Nat
  <1>1. arrays[f[1]] \in Tables
    BY DEF Types, GlobalTypes, LocalTypes
  <1>2. arrays[f[1]] \in [DOMAIN arrays[f[1]] -> SlotValue]
    BY <1>1, TableType
  <1> QED BY <1>2 DEF At, EmptyFrame, SlotValue

\* A new cache is a cache of the right type, with an array of its own.
LEMMA CreateType ==
  ASSUME Types, NEW t \in Threads, trace_cache_create(t)
  PROVE  /\ caches' \in Seq(Caches)
         /\ arrays' \in Seq(Tables)
         /\ users' \in Seq(SUBSET Threads)
         /\ owner' \in Seq(Nat)
  <1>1. caches \in Seq(Caches) /\ arrays \in Seq(Tables)
        /\ users \in Seq(SUBSET Threads) /\ owner \in Seq(Nat)
    BY DEF Types, GlobalTypes, LocalTypes
  <1>2. Len(arrays) + 1 \in Nat /\ Len(caches) + 1 \in Nat
    BY <1>1
  <1>3. MinBits \in MinBits..MaxBits
    BY TraceAssumption
  <1>4. [frames |-> Len(arrays) + 1, log_size |-> MinBits, used |-> 0] \in Caches
    BY <1>2, <1>3 DEF Caches
  <1>5. caches' \in Seq(Caches)
    BY <1>1, <1>4 DEF trace_cache_create
  <1>6. arrays' \in Seq(Tables) /\ owner' \in Seq(Nat)
    BY <1>1, <1>2, NoSlotsTable DEF trace_cache_create, trace_cache_buckets
  <1>7. users' \in Seq(SUBSET Threads)
    BY <1>1 DEF trace_cache_create
  <1> QED BY <1>5, <1>6, <1>7

\* The steps of trace_cache_get and its callees keep the types.
LEMMA GetTypes ==
  ASSUME Types, Users, NEW t \in Threads,
         Call(t) \/ trace_cache_get(t) \/ trace_cache_init_once(t) \/ GetTls(t)
           \/ trace_cache_get_unthreaded(t)
  PROVE  Types'
  <1> USE DEF Types, Goto, UseCache, PCs, Tracing, Looking, Expanding
  <1>1. ASSUME Call(t) PROVE Types'
    BY <1>1 DEF GlobalTypes, LocalTypes, Call, shared, table, looking, expanding
  <1>2. ASSUME trace_cache_get(t) PROVE Types'
    BY <1>2 DEF GlobalTypes, LocalTypes, trace_cache_get, shared, table, looking, expanding
  <1>3. ASSUME trace_cache_init_once(t) PROVE Types'
    BY <1>3 DEF GlobalTypes, LocalTypes, trace_cache_init_once, shared, table, looking, expanding
  <1>0. Len(caches) + 1 \in Nat
    BY DEF GlobalTypes
  <1>4. ASSUME GetTls(t) PROVE Types'
    <2>0. tls_cache[t] \in Nat /\ cache \in [Threads -> Nat]
      BY DEF GlobalTypes, LocalTypes
    <2>1. LocalTypes'
      <3>1. cache' \in [Threads -> Nat]
        BY <1>4, <1>0, <2>0 DEF GetTls
      <3>2. Goto(t, "tls", "trace") /\ UNCHANGED <<looking, expanding, frame_info, lookups>>
        BY <1>4 DEF GetTls
      <3> QED BY <3>1, <3>2 DEF LocalTypes, looking, expanding
    <2>2. CASE tls_cache[t] # 0
      <3>1. GlobalTypes'
        BY <1>4, <2>2 DEF GlobalTypes, GetTls, table
      <3> QED BY <2>1, <3>1
    <2>3. CASE tls_cache[t] = 0
      <3>1. /\ trace_cache_create(t)
            /\ tls_cache' = [tls_cache EXCEPT ![t] = Len(caches) + 1]
            /\ UNCHANGED <<trace_cache_once_happen, global_cache>>
        BY <1>4, <2>3 DEF GetTls
      <3>2. tls_cache' \in [Threads -> Nat]
        BY <3>1, <1>0 DEF GlobalTypes
      <3>3. GlobalTypes'
        BY <3>1, <3>2, CreateType DEF GlobalTypes
      <3> QED BY <2>1, <3>3
    <2> QED BY <2>2, <2>3
  <1>5. ASSUME trace_cache_get_unthreaded(t) PROVE Types'
    <2>0. global_cache \in Nat /\ cache \in [Threads -> Nat]
      BY DEF GlobalTypes, LocalTypes
    <2>1. LocalTypes'
      <3>1. cache' \in [Threads -> Nat]
        BY <1>5, <1>0, <2>0 DEF trace_cache_get_unthreaded
      <3>2. Goto(t, "unthreaded", "trace") /\ UNCHANGED <<looking, expanding, frame_info, lookups>>
        BY <1>5 DEF trace_cache_get_unthreaded
      <3> QED BY <3>1, <3>2 DEF LocalTypes, looking, expanding
    <2>2. CASE global_cache # 0
      <3>1. global_cache \in 1..Len(users) /\ users[global_cache] \cup {t} \in SUBSET Threads
        BY <2>2 DEF Users, GlobalTypes
      <3>2. /\ users' = [users EXCEPT ![global_cache] = users[global_cache] \cup {t}]
            /\ UNCHANGED <<trace_cache_once_happen, tls_cache, global_cache, table>>
        BY <1>5, <2>2 DEF trace_cache_get_unthreaded
      <3>3. users' \in Seq(SUBSET Threads)
        BY <3>1, <3>2 DEF GlobalTypes
      <3>4. GlobalTypes'
        BY <3>2, <3>3 DEF GlobalTypes, table
      <3> QED BY <2>1, <3>4
    <2>3. CASE global_cache = 0
      <3>1. /\ trace_cache_create(t)
            /\ global_cache' = Len(caches) + 1
            /\ UNCHANGED <<trace_cache_once_happen, tls_cache>>
        BY <1>5, <2>3 DEF trace_cache_get_unthreaded
      <3>2. GlobalTypes'
        BY <3>1, <1>0, CreateType DEF GlobalTypes
      <3> QED BY <2>1, <3>2
    <2> QED BY <2>2, <2>3
  <1> QED BY <1>1, <1>2, <1>3, <1>4, <1>5

\* The steps of trace_lookup and its callees keep the types.
LEMMA LookupTypes ==
  ASSUME Types, Users, Owners, NEW t \in Threads, Lookup(t)
  PROVE  Types'
  <1> USE DEF Types, Goto, PCs, Tracing, Looking, Expanding
  <1>0. ASSUME pc[t] \in Tracing
        PROVE  /\ cache[t] \in 1..Len(caches)
               /\ caches[cache[t]] \in Caches
               /\ caches[cache[t]].log_size \in MinBits..MaxBits
               /\ caches[cache[t]].frames \in 1..Len(arrays)
               /\ Size(caches[cache[t]].log_size) \in Nat \ {0}
    <2>1. cache[t] \in 1..Len(caches)
      BY <1>0, CacheType
    <2> QED BY <2>1, SizeType DEF Caches, Owners, ArrayOf
  <1>1. ASSUME trace_lookup(t) PROVE Types'
    <2>1. PICK r \in Rips :
            LET size == Size(caches[cache[t]].log_size)
            IN /\ rip' = [rip EXCEPT ![t] = r]
               /\ i' = [i EXCEPT ![t] = 0]
               /\ cache_size' = [cache_size EXCEPT ![t] = size]
               /\ slot' = [slot EXCEPT ![t] = Slot(r, size)]
      BY <1>1 DEF trace_lookup
    <2>2. Size(caches[cache[t]].log_size) \in Nat \ {0}
      BY <1>0, <1>1 DEF trace_lookup
    <2>3. Slot(r, Size(caches[cache[t]].log_size)) \in Nat
      BY <2>2, FirstProbe
    <2>4. r \in Nat
      BY TraceAssumption
    <2>5. /\ Goto(t, "trace", "probe")
          /\ lookups' = [lookups EXCEPT ![t] = lookups[t] + 1]
          /\ UNCHANGED <<shared, table, cache, frame, addr, expanding, frame_info>>
      BY <1>1 DEF trace_lookup
    <2>6. LocalTypes'
      BY <2>1, <2>2, <2>3, <2>4, <2>5 DEF LocalTypes, expanding
    <2>7. GlobalTypes'
      BY <2>5 DEF GlobalTypes, shared, table
    <2> QED BY <2>6, <2>7
  <1>2. ASSUME Probe(t) PROVE Types'
    <2> DEFINE f == <<caches[cache[t]].frames, slot[t]>>
    <2> DEFINE va == At(f).virtual_address
    <2>1. f \in Nat \X Nat /\ f[1] \in 1..Len(arrays)
      BY <1>0, <1>2 DEF Probe, LocalTypes
    <2>2. va \in Nat
      BY <2>1, AtType
    <2> HIDE DEF f, va
    <2>3. /\ pc[t] = "probe"
          /\ frame' = [frame EXCEPT ![t] = f]
          /\ addr' = [addr EXCEPT ![t] = va]
          /\ UNCHANGED <<shared, table, cache, rip, cache_size, expanding, frame_info, lookups>>
      BY <1>2 DEF Probe, f, va
    <2>4. /\ \/ Goto(t, "probe", "use") \/ Goto(t, "probe", "decide")
             \/ Goto(t, "probe", "probe")
          /\ \/ UNCHANGED <<i, slot>>
             \/ /\ i' = [i EXCEPT ![t] = i[t] + 1]
                /\ slot' = [slot EXCEPT ![t] = NextSlot(slot[t], cache_size[t])]
      BY <1>2 DEF Probe
    <2>5. NextSlot(slot[t], cache_size[t]) \in Nat
      <3>1. slot[t] \in Nat /\ cache_size[t] \in Nat
        BY DEF LocalTypes
      <3> QED BY <3>1 DEF NextSlot
    <2>6. i' \in [Threads -> Nat] /\ slot' \in [Threads -> Nat]
      <3>1. i \in [Threads -> Nat] /\ slot \in [Threads -> Nat] /\ i[t] + 1 \in Nat
        BY DEF LocalTypes
      <3> QED BY <2>4, <2>5, <3>1
    <2>7. LocalTypes'
      BY <2>1, <2>2, <2>3, <2>4, <2>6 DEF LocalTypes, expanding
    <2>8. GlobalTypes'
      BY <2>3 DEF GlobalTypes, shared, table
    <2> QED BY <2>7, <2>8
  <1>3. ASSUME Decide(t) PROVE Types'
    BY <1>3 DEF GlobalTypes, LocalTypes, Decide, shared, table, looking, expanding
  <1>4. ASSUME trace_cache_expand(t) PROVE Types'
    <2>0. caches[cache[t]].log_size \in Int /\ caches[cache[t]].log_size >= MinBits
      BY <1>0, <1>4, TraceAssumption DEF trace_cache_expand
    <2>1. cache[t] \in Nat /\ Len(arrays) + 1 \in Nat
          /\ arrays \in Seq(Tables) /\ owner \in Seq(Nat)
      BY DEF LocalTypes, GlobalTypes
    <2>2. arrays' \in Seq(Tables) /\ owner' \in Seq(Nat)
      BY <1>4, <2>1, NoSlotsTable DEF trace_cache_expand, trace_cache_buckets
    <2>3. caches[cache[t]].log_size + 2 \in MinBits..MaxBits
      BY <2>0, <1>4, TraceAssumption DEF trace_cache_expand
    <2>4. caches[cache[t]].log_size + 2 \in Nat
      BY <2>3, TraceAssumption
    <2>5. GlobalTypes'
      BY <1>4, <2>2 DEF GlobalTypes, trace_cache_expand, shared
    <2>6. LocalTypes'
      BY <1>4, <2>1, <2>3, <2>4 DEF LocalTypes, trace_cache_expand, looking
    <2> QED BY <2>5, <2>6
  <1>5. ASSUME NEW v, v \in Caches, cache[t] \in 1..Len(caches),
               caches' = [caches EXCEPT ![cache[t]] = v],
               NEW from, NEW to \in {"set_log", "set_used", "rehash", "fill"},
               from \in Looking,
               to = "set_log" => from = "set_frames",
               Goto(t, from, to),
               UNCHANGED <<shared, arrays, owner, cache, looking, expanding, frame_info, lookups>>
        PROVE  Types'
    <2>1. caches' \in Seq(Caches)
      BY <1>5 DEF GlobalTypes
    <2>2. GlobalTypes'
      BY <1>5, <2>1 DEF GlobalTypes, shared
    <2>3. LocalTypes'
      BY <1>5 DEF LocalTypes, looking, expanding
    <2> QED BY <2>2, <2>3
  <1>6. ASSUME SetFrames(t) PROVE Types'
    <2>1. [frames |-> new_frames[t], log_size |-> caches[cache[t]].log_size,
           used |-> caches[cache[t]].used] \in Caches
      BY <1>0, <1>6 DEF SetFrames, Caches, LocalTypes
    <2> QED BY <1>0, <1>5, <1>6, <2>1 DEF SetFrames
  <1>7. ASSUME SetLogSize(t) PROVE Types'
    <2>1. [frames |-> caches[cache[t]].frames, log_size |-> new_log_size[t],
           used |-> caches[cache[t]].used] \in Caches
      BY <1>0, <1>7 DEF SetLogSize, Caches, LocalTypes
    <2> QED BY <1>0, <1>5, <1>7, <2>1 DEF SetLogSize
  <1>8. ASSUME SetUsed(t) PROVE Types'
    <2>1. [frames |-> caches[cache[t]].frames, log_size |-> caches[cache[t]].log_size,
           used |-> UsedAfterExpand(t)] \in Caches
      BY <1>0, <1>8 DEF SetUsed, Caches, UsedAfterExpand
    <2> QED BY <1>0, <1>5, <1>8, <2>1 DEF SetUsed
  <1>9. ASSUME Rehash(t) PROVE Types'
    <2> DEFINE size == Size(caches[cache[t]].log_size)
    <2> DEFINE f == <<caches[cache[t]].frames, Rehashed(t, size)>>
    <2>1. size \in Nat \ {0} /\ rip[t] \in Rips
      BY <1>0, <1>9 DEF Rehash, LocalTypes
    <2>2. Rehashed(t, size) \in Nat
      BY <2>1, FirstProbe DEF Rehashed
    <2>3. f \in Nat \X Nat /\ f[1] \in 1..Len(arrays) /\ f[2] \in Nat
      BY <1>0, <1>9, <2>2 DEF Rehash
    <2>4. At(f).virtual_address \in Nat
      BY <2>3, AtType
    <2>5. /\ Goto(t, "rehash", "insert")
          /\ cache_size' = [cache_size EXCEPT ![t] = size]
          /\ slot' = [slot EXCEPT ![t] = f[2]]
          /\ frame' = [frame EXCEPT ![t] = f]
          /\ addr' = [addr EXCEPT ![t] = At(f).virtual_address]
          /\ UNCHANGED <<shared, table, cache, rip, i, expanding, frame_info, lookups>>
      BY <1>9 DEF Rehash
    <2> HIDE DEF f, size
    <2>6. LocalTypes'
      BY <2>1, <2>3, <2>4, <2>5 DEF LocalTypes, expanding
    <2>7. GlobalTypes'
      BY <2>5 DEF GlobalTypes, shared, table
    <2> QED BY <2>6, <2>7
  <1>10. ASSUME Insert(t) PROVE Types'
    <2>1. CASE addr[t] # 0
      BY <1>10, <2>1 DEF GlobalTypes, LocalTypes, Insert, shared, looking, expanding
    <2>2. CASE addr[t] = 0
      <3>1. [frames |-> caches[cache[t]].frames, log_size |-> caches[cache[t]].log_size,
             used |-> caches[cache[t]].used + 1] \in Caches
        BY <1>0, <1>10 DEF Insert, Caches
      <3> QED BY <1>0, <1>5, <1>10, <2>2, <3>1 DEF Insert
    <2> QED BY <2>1, <2>2
  <1>11. ASSUME NEW v \in SlotValue, Write(frame[t], v), pc[t] \in Pointing
         PROVE  arrays' \in Seq(Tables)
    <2>1. frame[t] \in Nat \X Nat /\ frame[t][1] \in 1..Len(arrays) /\ frame[t][2] \in Nat
      BY <1>11 DEF Owners, ArrayOf, LocalTypes
    <2>2. arrays \in Seq(Tables) /\ arrays[frame[t][1]] \in Tables
      BY <2>1 DEF GlobalTypes
    <2>3. Put(arrays[frame[t][1]], frame[t][2], v) \in Tables
      BY <2>1, <2>2, PutTable
    <2> QED BY <1>11, <2>1, <2>2, <2>3 DEF Write
  <1>12. ASSUME Fill(t) PROVE Types'
    <2>1. [virtual_address |-> rip[t], properties |-> 0] \in SlotValue
      BY DEF LocalTypes, SlotValue
    <2>2. arrays' \in Seq(Tables)
      BY <1>11, <1>12, <2>1 DEF Fill, Pointing
    <2>3. LocalTypes'
      BY <1>12 DEF LocalTypes, Fill, looking, expanding
    <2>4. GlobalTypes'
      BY <1>12, <2>2 DEF GlobalTypes, Fill, shared
    <2> QED BY <2>3, <2>4
  <1>13. ASSUME Copy(t) PROVE Types'
    <2>1. frame[t] \in Nat \X Nat /\ frame[t][1] \in 1..Len(arrays)
      BY <1>13 DEF Copy, Owners, ArrayOf, LocalTypes, Pointing
    <2>2. At(frame[t]).virtual_address \in Nat
      BY <2>1, AtType
    <2>3. LocalTypes'
      BY <1>13, <2>2 DEF LocalTypes, Copy, looking, expanding
    <2>4. GlobalTypes'
      BY <1>13 DEF GlobalTypes, Copy, shared, table
    <2> QED BY <2>3, <2>4
  <1>14. ASSUME StepAndStore(t) PROVE Types'
    <2>1. [virtual_address |-> frame_info[t], properties |-> rip[t]] \in SlotValue
      BY DEF LocalTypes, SlotValue
    <2>2. arrays' \in Seq(Tables)
      BY <1>11, <1>14, <2>1 DEF StepAndStore, Pointing, GlobalTypes
    <2>3. LocalTypes'
      BY <1>14 DEF LocalTypes, StepAndStore, looking, expanding
    <2>4. GlobalTypes'
      BY <1>14, <2>2 DEF GlobalTypes, StepAndStore, shared
    <2> QED BY <2>3, <2>4
  <1>15. ASSUME Use(t) PROVE Types'
    <2>1. /\ \/ Goto(t, "use", "panic") \/ Goto(t, "use", "idle") \/ Goto(t, "use", "trace")
          /\ UNCHANGED <<shared, table, cache, looking, expanding, frame_info, lookups>>
      BY <1>15 DEF Use
    <2>2. LocalTypes'
      BY <2>1 DEF LocalTypes, looking, expanding
    <2>3. GlobalTypes'
      BY <2>1 DEF GlobalTypes, shared, table
    <2> QED BY <2>2, <2>3
  <1> QED BY <1>1, <1>2, <1>3, <1>4, <1>6, <1>7, <1>8, <1>9, <1>10, <1>12, <1>13, <1>14, <1>15
         DEF Lookup
-----------------------------------------------------------------------------
(* What a step of thread u leaves alone.                                   *)

Same(t) ==
  /\ pc'[t] = pc[t] /\ cache'[t] = cache[t] /\ rip'[t] = rip[t] /\ i'[t] = i[t]
  /\ cache_size'[t] = cache_size[t] /\ slot'[t] = slot[t] /\ frame'[t] = frame[t]
  /\ addr'[t] = addr[t] /\ new_log_size'[t] = new_log_size[t]
  /\ new_frames'[t] = new_frames[t] /\ frame_info'[t] = frame_info[t]
  /\ tls_cache'[t] = tls_cache[t]

KeepsCaches(u) ==
  /\ Len(caches) <= Len(caches')
  /\ \A c \in 1..Len(caches) : c # cache[u] => caches'[c] = caches[c]

KeepsArrays(u) ==
  /\ Len(arrays) <= Len(arrays') /\ Len(owner') = Len(arrays')
  /\ \A a \in 1..Len(arrays) : owner[a] # cache[u] => arrays'[a] = arrays[a]
  /\ \A a \in 1..Len(arrays) : owner'[a] = owner[a]

KeepsUsers ==
  /\ Len(users') = Len(caches')
  /\ \A c \in 1..Len(caches) : users[c] \subseteq users'[c]

KeepsThreads(u) == \A t \in Threads \ {u} : Same(t)

Keeps(u) == KeepsCaches(u) /\ KeepsArrays(u) /\ KeepsUsers /\ KeepsThreads(u)

\* A new array, and nothing else.
LEMMA BucketsKeep ==
  ASSUME Types, Owners, NEW u \in Threads, NEW c \in Nat, trace_cache_buckets(c)
  PROVE  /\ KeepsArrays(u)
         /\ \A a \in 1..Len(arrays) : arrays'[a] = arrays[a]
         /\ Len(arrays') = Len(arrays) + 1
         /\ arrays'[Len(arrays) + 1] = NoSlots
         /\ owner'[Len(arrays) + 1] = c
  <1>1. arrays \in Seq(Tables) /\ owner \in Seq(Nat) /\ Len(owner) = Len(arrays)
    BY DEF Types, GlobalTypes, Owners
  <1>2. arrays' = Append(arrays, NoSlots) /\ owner' = Append(owner, c)
    BY DEF trace_cache_buckets
  <1>3. PICK n \in Nat : n = Len(arrays)
    BY <1>1
  <1> QED BY <1>1, <1>2, <1>3, NoSlotsTable DEF KeepsArrays

\* A new cache with a new array, and nothing else.
LEMMA CreateKeeps ==
  ASSUME Types, Users, Owners, NEW u \in Threads, NEW t \in Threads, trace_cache_create(t)
  PROVE  /\ KeepsCaches(u) /\ KeepsArrays(u) /\ KeepsUsers
         /\ \A c \in 1..Len(caches) : caches'[c] = caches[c] /\ users'[c] = users[c]
         /\ \A a \in 1..Len(arrays) : arrays'[a] = arrays[a]
         /\ Len(caches') = Len(caches) + 1
         /\ users'[Len(caches) + 1] = {t}
         /\ caches'[Len(caches) + 1].frames = Len(arrays) + 1
         /\ caches'[Len(caches) + 1].log_size = MinBits
         /\ caches'[Len(caches) + 1].used = 0
         /\ Len(arrays') = Len(arrays) + 1
         /\ arrays'[Len(arrays) + 1] = NoSlots
         /\ owner'[Len(arrays) + 1] = Len(caches) + 1
  <1>1. caches \in Seq(Caches) /\ users \in Seq(SUBSET Threads) /\ Len(users) = Len(caches)
    BY DEF Types, GlobalTypes, Users
  <1>2. Len(caches) + 1 \in Nat
    BY <1>1
  <1>3. /\ KeepsArrays(u)
        /\ \A a \in 1..Len(arrays) : arrays'[a] = arrays[a]
        /\ Len(arrays') = Len(arrays) + 1
        /\ arrays'[Len(arrays) + 1] = NoSlots
        /\ owner'[Len(arrays) + 1] = Len(caches) + 1
    BY <1>2, BucketsKeep DEF trace_cache_create
  <1>4. PICK v : /\ v = [frames |-> Len(arrays) + 1, log_size |-> MinBits, used |-> 0]
                 /\ caches' = Append(caches, v)
    BY DEF trace_cache_create
  <1>5. PICK n \in Nat : n = Len(caches)
    BY <1>1
  <1>6. caches' \in Seq(Caches) /\ users' \in Seq(SUBSET Threads)
    BY CreateType
  <1>7. /\ Len(caches') = Len(caches) + 1
        /\ caches'[Len(caches) + 1] = v
        /\ \A c \in 1..Len(caches) : caches'[c] = caches[c]
    BY <1>1, <1>4, <1>5, <1>6
  <1>8. users' = Append(users, {t}) /\ {t} \in SUBSET Threads
    BY DEF trace_cache_create
  <1>9. /\ Len(users') = Len(caches) + 1
        /\ users'[Len(caches) + 1] = {t}
        /\ \A c \in 1..Len(caches) : users'[c] = users[c]
    BY <1>1, <1>5, <1>8
  <1>10. KeepsCaches(u)
    BY <1>5, <1>7 DEF KeepsCaches
  <1>11. KeepsUsers
    BY <1>7, <1>9 DEF KeepsUsers
  <1> QED BY <1>3, <1>4, <1>7, <1>9, <1>10, <1>11

\* Nothing but a field of the thread's own cache.
LEMMA UpdateKeeps ==
  ASSUME Types, NEW u \in Threads, NEW v,
         cache[u] \in 1..Len(caches), caches' = [caches EXCEPT ![cache[u]] = v]
  PROVE  /\ KeepsCaches(u)
         /\ Len(caches') = Len(caches)
         /\ caches'[cache[u]] = v
  <1>1. caches \in Seq(Caches)
    BY DEF Types, GlobalTypes
  <1>2. PICK n \in Nat : n = Len(caches)
    BY <1>1
  <1> QED BY <1>1, <1>2 DEF KeepsCaches

\* Nothing but a slot of an array of the thread's own cache.
LEMMA WriteKeeps ==
  ASSUME Types, Owners, NEW u \in Threads, NEW v, pc[u] \in Pointing, Write(frame[u], v),
         UNCHANGED owner
  PROVE  /\ KeepsArrays(u)
         /\ Len(arrays') = Len(arrays)
         /\ arrays'[frame[u][1]] = Put(arrays[frame[u][1]], frame[u][2], v)
  <1>1. arrays \in Seq(Tables)
    BY DEF Types, GlobalTypes
  <1>2. frame[u][1] \in 1..Len(arrays) /\ owner[frame[u][1]] = cache[u]
        /\ Len(owner) = Len(arrays)
    BY DEF Owners, ArrayOf
  <1>3. PICK n \in Nat : n = Len(arrays)
    BY <1>1
  <1> QED BY <1>1, <1>2, <1>3 DEF KeepsArrays, Write

\* A step that changes no cache keeps them all.
LEMMA SameCaches == ASSUME Types, NEW u \in Threads, UNCHANGED caches PROVE KeepsCaches(u)
  <1>1. caches \in Seq(Caches)
    BY DEF Types, GlobalTypes
  <1>2. Len(caches) \in Nat
    BY <1>1
  <1> QED BY <1>2 DEF KeepsCaches

\* A step that changes no array keeps them all.
LEMMA SameArrays == ASSUME Types, Owners, NEW u \in Threads, UNCHANGED <<arrays, owner>>
                    PROVE  KeepsArrays(u)
  <1>1. arrays \in Seq(Tables) /\ Len(owner) = Len(arrays)
    BY DEF Types, GlobalTypes, Owners
  <1>2. Len(arrays) \in Nat
    BY <1>1
  <1> QED BY <1>1, <1>2 DEF KeepsArrays

\* A step that gives no cache to a thread.
LEMMA SameUsers == ASSUME Users, UNCHANGED users, Len(caches') = Len(caches)
                   PROVE  KeepsUsers
  BY DEF KeepsUsers, Users

\* The steps of trace_cache_get.
LEMMA GetKeeps ==
  ASSUME Types, Users, Owners, NEW u \in Threads,
         Call(u) \/ trace_cache_get(u) \/ trace_cache_init_once(u) \/ GetTls(u)
           \/ trace_cache_get_unthreaded(u)
  PROVE  Keeps(u)
  <1> USE DEF Goto, UseCache, Keeps
  <1>1. KeepsThreads(u)
    <2>0. /\ pc \in [Threads -> PCs] /\ cache \in [Threads -> Nat]
          /\ tls_cache \in [Threads -> Nat]
      BY DEF Types, LocalTypes, GlobalTypes
    <2>1. /\ UNCHANGED <<looking, expanding, frame_info, lookups>>
          /\ \E to : pc' = [pc EXCEPT ![u] = to]
          /\ \/ UNCHANGED cache
             \/ \E c : cache' = [cache EXCEPT ![u] = c]
          /\ \/ UNCHANGED tls_cache
             \/ \E c : tls_cache' = [tls_cache EXCEPT ![u] = c]
      <3>1. CASE Call(u)
        BY <3>1 DEF Call, shared
      <3>2. CASE trace_cache_get(u)
        BY <3>2 DEF trace_cache_get, shared
      <3>3. CASE trace_cache_init_once(u)
        BY <3>3 DEF trace_cache_init_once
      <3>4. CASE GetTls(u)
        BY <3>4 DEF GetTls
      <3>5. CASE trace_cache_get_unthreaded(u)
        BY <3>5 DEF trace_cache_get_unthreaded
      <3> QED BY <3>1, <3>2, <3>3, <3>4, <3>5
    <2>2. ASSUME NEW t \in Threads \ {u}
          PROVE  pc'[t] = pc[t] /\ cache'[t] = cache[t] /\ tls_cache'[t] = tls_cache[t]
      BY <2>0, <2>1
    <2> QED BY <2>1, <2>2 DEF KeepsThreads, Same, looking, expanding
  <1>2. ASSUME UNCHANGED <<users, table>> PROVE Keeps(u)
    <2>1. KeepsCaches(u) /\ KeepsArrays(u)
      BY <1>2, SameCaches, SameArrays DEF table
    <2>2. KeepsUsers
      BY <1>2, SameUsers DEF table
    <2> QED BY <1>1, <2>1, <2>2
  <1>3. ASSUME trace_cache_create(u) PROVE Keeps(u)
    BY <1>1, <1>3, CreateKeeps
  <1>4. ASSUME global_cache # 0, UNCHANGED table,
               users' = [users EXCEPT ![global_cache] = users[global_cache] \cup {u}]
        PROVE  Keeps(u)
    <2>1. KeepsCaches(u) /\ KeepsArrays(u) /\ Len(caches') = Len(caches)
      BY <1>4, SameCaches, SameArrays DEF table
    <2>2. users \in Seq(SUBSET Threads) /\ Len(users) = Len(caches)
      BY DEF Types, GlobalTypes, Users
    <2>3. KeepsUsers
      BY <1>4, <2>1, <2>2 DEF KeepsUsers
    <2> QED BY <1>1, <2>1, <2>3
  <1>5. CASE Call(u)
    BY <1>2, <1>5 DEF Call, shared
  <1>6. CASE trace_cache_get(u)
    BY <1>2, <1>6 DEF trace_cache_get, shared
  <1>7. CASE trace_cache_init_once(u)
    BY <1>2, <1>7 DEF trace_cache_init_once
  <1>8. CASE GetTls(u)
    BY <1>2, <1>3, <1>8 DEF GetTls
  <1>9. CASE trace_cache_get_unthreaded(u)
    BY <1>3, <1>4, <1>9 DEF trace_cache_get_unthreaded
  <1> QED BY <1>5, <1>6, <1>7, <1>8, <1>9

\* The steps of trace_lookup and its callees: no cache is given to a thread.
LEMMA LookupKeeps ==
  ASSUME Types, Users, Owners, NEW u \in Threads, Lookup(u)
  PROVE  /\ Keeps(u)
         /\ UNCHANGED <<shared, cache>>
         /\ Len(caches') = Len(caches)
         /\ pc[u] \in Tracing
  <1> USE DEF Goto
  <1>1. /\ UNCHANGED <<shared, cache>>
        /\ pc[u] \in Tracing
        /\ \E to : pc' = [pc EXCEPT ![u] = to]
    BY DEF Lookup, trace_lookup, Probe, Decide, trace_cache_expand, SetFrames, SetLogSize,
           SetUsed, Rehash, Insert, Fill, Copy, StepAndStore, Use, Tracing, Looking
  <1>2. cache[u] \in 1..Len(caches)
    BY <1>1, CacheType
  <1>3. /\ UNCHANGED rip \/ \E x : rip' = [rip EXCEPT ![u] = x]
        /\ UNCHANGED i \/ \E x : i' = [i EXCEPT ![u] = x]
        /\ UNCHANGED cache_size \/ \E x : cache_size' = [cache_size EXCEPT ![u] = x]
        /\ UNCHANGED slot \/ \E x : slot' = [slot EXCEPT ![u] = x]
        /\ UNCHANGED frame \/ \E x : frame' = [frame EXCEPT ![u] = x]
        /\ UNCHANGED addr \/ \E x : addr' = [addr EXCEPT ![u] = x]
        /\ UNCHANGED new_log_size \/ \E x : new_log_size' = [new_log_size EXCEPT ![u] = x]
        /\ UNCHANGED new_frames \/ \E x : new_frames' = [new_frames EXCEPT ![u] = x]
        /\ UNCHANGED frame_info \/ \E x : frame_info' = [frame_info EXCEPT ![u] = x]
    <2>1. CASE trace_lookup(u)
      BY <2>1 DEF trace_lookup, expanding
    <2>2. CASE Probe(u)
      BY <2>2 DEF Probe, expanding
    <2>3. CASE trace_cache_expand(u)
      BY <2>3 DEF trace_cache_expand, looking
    <2>4. CASE Rehash(u)
      BY <2>4 DEF Rehash, expanding
    <2>5. CASE Copy(u)
      BY <2>5 DEF Copy, looking, expanding
    <2>6. CASE UNCHANGED <<looking, expanding, frame_info>>
      BY <2>6 DEF looking, expanding
    <2> QED BY <2>1, <2>2, <2>3, <2>4, <2>5, <2>6
           DEF Lookup, Decide, SetFrames, SetLogSize, SetUsed, Insert, Fill, StepAndStore, Use
  <1>4. KeepsThreads(u)
    <2>1. /\ pc \in [Threads -> PCs] /\ rip \in [Threads -> Nat] /\ i \in [Threads -> Nat]
          /\ cache_size \in [Threads -> Nat] /\ slot \in [Threads -> Nat]
          /\ frame \in [Threads -> Nat \X Nat] /\ addr \in [Threads -> Nat]
          /\ new_log_size \in [Threads -> Nat] /\ new_frames \in [Threads -> Nat]
          /\ frame_info \in [Threads -> Nat]
      BY DEF Types, LocalTypes
    <2>2. ASSUME NEW t \in Threads \ {u} PROVE Same(t)
      BY <1>1, <1>3, <2>1 DEF Same, shared
    <2> QED BY <2>2 DEF KeepsThreads
  <1>5. KeepsCaches(u) /\ Len(caches') = Len(caches)
    <2>1. CASE UNCHANGED caches
      BY <2>1, SameCaches
    <2>2. CASE \E v : caches' = [caches EXCEPT ![cache[u]] = v]
      BY <1>2, <2>2, UpdateKeeps
    <2> QED BY <2>1, <2>2 DEF Lookup, trace_lookup, Probe, Decide, trace_cache_expand,
             SetFrames, SetLogSize, SetUsed, Rehash, Insert, Fill, Copy, StepAndStore, Use, table
  <1>6. KeepsUsers
    BY <1>1, <1>5, SameUsers DEF shared
  <1>7. KeepsArrays(u)
    <2>1. CASE UNCHANGED <<arrays, owner>>
      BY <2>1, SameArrays
    <2>2. CASE trace_cache_expand(u)
      <3>1. cache[u] \in Nat
        BY DEF Types, LocalTypes
      <3> QED BY <2>2, <3>1, BucketsKeep DEF trace_cache_expand
    <2>3. CASE Fill(u)
      BY <2>3, WriteKeeps DEF Fill, Pointing
    <2>4. CASE StepAndStore(u)
      BY <2>1, <2>4, WriteKeeps DEF StepAndStore, Pointing
    <2> QED BY <2>1, <2>2, <2>3, <2>4 DEF Lookup, trace_lookup, Probe, Decide,
             SetFrames, SetLogSize, SetUsed, Rehash, Insert, Copy, Use, table
  <1> QED BY <1>1, <1>4, <1>5, <1>6, <1>7 DEF Keeps
-----------------------------------------------------------------------------
(* Threads have only caches they were given.                               *)

\* trace_lookup gives no cache to a thread.
LEMMA LookupUsers ==
  ASSUME Types, Users, Owners, NEW u \in Threads, Lookup(u)
  PROVE  Users'
  <1>1. /\ UNCHANGED <<shared, cache>> /\ Len(caches') = Len(caches)
        /\ pc[u] \in Tracing /\ KeepsThreads(u)
    BY LookupKeeps DEF Keeps
  <1>2. ASSUME NEW t \in Threads, pc'[t] \in Tracing PROVE cache'[t] # 0
    <2>1. pc[t] \in Tracing
      BY <1>1, <1>2 DEF KeepsThreads, Same
    <2> QED BY <1>1, <2>1 DEF Users
  <1> QED BY <1>1, <1>2 DEF Users, Given, shared

\* A cache that a thread has remains one that it was given.
LEMMA GivenKept ==
  ASSUME Types, Types', Users, KeepsUsers, NEW u \in Threads, KeepsCaches(u), NEW t, NEW c, Given(users, t, c)
  PROVE  Given(users', t, c)
  <1>1. Len(caches) \in Nat /\ Len(caches') \in Nat
    BY DEF Types, GlobalTypes
  <1>2. Len(caches) <= Len(caches') /\ Len(users) = Len(caches) /\ Len(users') = Len(caches')
    BY DEF KeepsCaches, KeepsUsers, Users
  <1>3. c \in 1..Len(users) /\ t \in users'[c]
    BY <1>2 DEF Given, KeepsUsers
  <1> QED BY <1>1, <1>2, <1>3 DEF Given

\* trace_cache_get gives one cache to the thread that calls it, and no other.
LEMMA GetUsers ==
  ASSUME Types, Users, Owners, Types', NEW u \in Threads,
         Call(u) \/ trace_cache_get(u) \/ trace_cache_init_once(u) \/ GetTls(u)
           \/ trace_cache_get_unthreaded(u)
  PROVE  Users'
  <1> USE DEF Goto, UseCache
  <1>1. KeepsCaches(u) /\ KeepsUsers /\ KeepsThreads(u)
    BY GetKeeps DEF Keeps
  <1>2. PICK n \in Nat : n = Len(caches)
    BY DEF Types, GlobalTypes
  <1>3. PICK m \in Nat : m = Len(caches')
    BY DEF Types, GlobalTypes
  <1>4. n <= m /\ Len(users') = m /\ Len(users) = n
    BY <1>1, <1>2, <1>3 DEF KeepsCaches, KeepsUsers, Users
  <1>5. ASSUME NEW t, NEW c, Given(users, t, c) PROVE Given(users', t, c)
    BY <1>1, <1>5, GivenKept
  <1>6. ASSUME /\ \A c \in 1..Len(users') : users'[c] # {} /\ IsFiniteSet(users'[c])
               /\ tls_cache'[u] # 0 => Given(users', u, tls_cache'[u])
               /\ global_cache' # 0 => global_cache' \in 1..Len(caches')
               /\ cache'[u] # 0 => Given(users', u, cache'[u])
               /\ pc'[u] \in Tracing => cache'[u] # 0
        PROVE  Users'
    <2>1. ASSUME NEW t \in Threads
          PROVE  /\ tls_cache'[t] # 0 => Given(users', t, tls_cache'[t])
                 /\ cache'[t] # 0 => Given(users', t, cache'[t])
                 /\ pc'[t] \in Tracing => cache'[t] # 0
      <3>1. CASE t = u
        BY <1>6, <3>1
      <3>2. CASE t # u
        <4>1. Same(t)
          BY <1>1, <3>2 DEF KeepsThreads
        <4>2. /\ tls_cache[t] # 0 => Given(users, t, tls_cache[t])
              /\ cache[t] # 0 => Given(users, t, cache[t])
              /\ pc[t] \in Tracing => cache[t] # 0
          BY DEF Users
        <4>3. /\ tls_cache[t] # 0 => Given(users', t, tls_cache[t])
              /\ cache[t] # 0 => Given(users', t, cache[t])
          BY <4>2, <1>5
        <4>4. tls_cache'[t] = tls_cache[t] /\ cache'[t] = cache[t] /\ pc'[t] = pc[t]
          BY <4>1 DEF Same
        <4>5. /\ tls_cache'[t] # 0 => Given(users', t, tls_cache'[t])
              /\ cache'[t] # 0 => Given(users', t, cache'[t])
          BY <4>3, <4>4 DEF Given
        <4> QED BY <4>2, <4>4, <4>5
      <3> QED BY <3>1, <3>2
    <2> QED BY <1>3, <1>4, <1>6, <2>1 DEF Users
  <1>7. /\ \A c \in 1..Len(users) : users[c] # {} /\ IsFiniteSet(users[c])
        /\ tls_cache[u] # 0 => Given(users, u, tls_cache[u])
        /\ global_cache # 0 => global_cache \in 1..Len(caches)
        /\ cache[u] # 0 => Given(users, u, cache[u])
        /\ pc[u] \in Tracing => cache[u] # 0
    BY DEF Users
  <1>8. /\ pc \in [Threads -> PCs] /\ cache \in [Threads -> Nat]
        /\ tls_cache \in [Threads -> Nat]
    BY DEF Types, LocalTypes, GlobalTypes
  <1>9. CASE Call(u) \/ trace_cache_get(u) \/ trace_cache_init_once(u)
    <2>1. /\ UNCHANGED <<users, tls_cache, global_cache, cache, caches>>
          /\ pc'[u] \notin Tracing
      BY <1>8, <1>9 DEF Call, trace_cache_get, trace_cache_init_once, shared, table, Tracing, Looking
    <2> QED BY <1>6, <1>7, <2>1 DEF Given
  <1>10. ASSUME trace_cache_create(u)
         PROVE  /\ Len(caches') = n + 1 /\ Given(users', u, n + 1)
                /\ \A c \in 1..Len(users') : users'[c] # {} /\ IsFiniteSet(users'[c])
    <2>1. /\ \A c \in 1..Len(caches) : users'[c] = users[c]
          /\ Len(caches') = Len(caches) + 1
          /\ users'[Len(caches) + 1] = {u}
      BY <1>10, CreateKeeps
    <2>2. IsFiniteSet({u})
      BY FS_Singleton
    <2>3. Len(caches') = n + 1 /\ Given(users', u, n + 1)
      BY <1>2, <1>3, <1>4, <2>1 DEF Given
    <2>4. ASSUME NEW c \in 1..Len(users') PROVE users'[c] # {} /\ IsFiniteSet(users'[c])
      <3>1. CASE c = n + 1
        BY <1>2, <2>1, <2>2, <3>1
      <3>2. CASE c # n + 1
        <4>1. c \in 1..Len(caches) /\ c \in 1..Len(users)
          BY <1>2, <1>3, <1>4, <2>1, <3>2
        <4> QED BY <1>7, <2>1, <4>1
      <3> QED BY <3>1, <3>2
    <2> QED BY <2>3, <2>4
  <1>11. CASE GetTls(u)
    <2>0. pc'[u] = "trace" /\ UNCHANGED global_cache
      BY <1>8, <1>11 DEF GetTls
    <2>1. CASE tls_cache[u] # 0
      <3>1. /\ UNCHANGED <<users, tls_cache, global_cache, caches>>
            /\ cache'[u] = tls_cache[u]
        BY <1>8, <1>11, <2>1 DEF GetTls, table
      <3> QED BY <1>6, <1>7, <2>1, <3>1 DEF Given
    <2>2. CASE tls_cache[u] = 0
      <3>1. /\ trace_cache_create(u)
            /\ cache'[u] = n + 1 /\ tls_cache'[u] = n + 1
        BY <1>2, <1>8, <1>11, <2>2 DEF GetTls
      <3>2. Given(users', u, cache'[u]) /\ Given(users', u, tls_cache'[u])
        BY <1>10, <3>1 DEF Given
      <3>3. global_cache' # 0 => global_cache' \in 1..Len(caches')
        BY <1>2, <1>7, <1>10, <2>0, <3>1
      <3>4. cache'[u] # 0
        BY <1>2, <3>1
      <3> QED BY <1>6, <1>10, <3>1, <3>2, <3>3, <3>4
    <2> QED BY <2>1, <2>2
  <1>12. CASE trace_cache_get_unthreaded(u)
    <2>0. pc'[u] = "trace" /\ UNCHANGED tls_cache
      BY <1>8, <1>12 DEF trace_cache_get_unthreaded
    <2>t. tls_cache'[u] # 0 => Given(users', u, tls_cache'[u])
      <3>1. tls_cache[u] # 0 => Given(users', u, tls_cache[u])
        BY <1>5, <1>7
      <3> QED BY <3>1, <2>0 DEF Given
    <2>1. CASE global_cache # 0
      <3>1. /\ users' = [users EXCEPT ![global_cache] = users[global_cache] \cup {u}]
            /\ UNCHANGED <<global_cache, caches>>
            /\ cache'[u] = global_cache
        BY <1>8, <1>12, <2>1 DEF trace_cache_get_unthreaded, table
      <3>2. users \in Seq(SUBSET Threads) /\ global_cache \in 1..Len(users)
        BY <1>2, <1>4, <1>7, <2>1 DEF Types, GlobalTypes
      <3>3. IsFiniteSet(users[global_cache] \cup {u})
        BY <1>7, <3>2, FS_AddElement
      <3>4. Given(users', u, cache'[u])
        BY <3>1, <3>2, <1>2, <1>4 DEF Given
      <3>5. \A c \in 1..Len(users') : users'[c] # {} /\ IsFiniteSet(users'[c])
        BY <1>7, <3>1, <3>2, <3>3
      <3>6. global_cache' # 0 => global_cache' \in 1..Len(caches')
        BY <1>7, <3>1
      <3> QED BY <1>6, <2>1, <2>t, <3>1, <3>4, <3>5, <3>6
    <2>2. CASE global_cache = 0
      <3>1. /\ trace_cache_create(u)
            /\ cache'[u] = n + 1 /\ global_cache' = n + 1
        BY <1>2, <1>8, <1>12, <2>2 DEF trace_cache_get_unthreaded
      <3>2. Given(users', u, cache'[u])
        BY <1>10, <3>1 DEF Given
      <3>3. global_cache' \in 1..Len(caches')
        BY <1>2, <1>10, <3>1
      <3>4. cache'[u] # 0
        BY <1>2, <3>1
      <3> QED BY <1>6, <1>10, <2>t, <3>1, <3>2, <3>3, <3>4
    <2> QED BY <2>1, <2>2
  <1> QED BY <1>9, <1>11, <1>12
-----------------------------------------------------------------------------
(* Threads have only pointers to arrays of their caches.                   *)

\* An array remains one of its cache.
LEMMA ArrayKept ==
  ASSUME Types, Types', Owners, NEW u \in Threads, KeepsArrays(u),
         NEW a, NEW c, ArrayOf(owner, a, c)
  PROVE  ArrayOf(owner', a, c)
  <1>1. Len(arrays) \in Nat /\ Len(arrays') \in Nat
    BY DEF Types, GlobalTypes
  <1>2. Len(arrays) <= Len(arrays') /\ Len(owner) = Len(arrays) /\ Len(owner') = Len(arrays')
    BY DEF KeepsArrays, Owners
  <1>3. a \in 1..Len(arrays) /\ owner'[a] = c
    BY <1>2 DEF ArrayOf, KeepsArrays
  <1> QED BY <1>1, <1>2, <1>3 DEF ArrayOf

\* What is left to show of a step that keeps what is not the thread's own.
LEMMA OwnersKept ==
  ASSUME Types, Types', Users, Owners, NEW u \in Threads, Keeps(u),
         \A c \in 1..Len(caches') :
           c \notin 1..Len(caches) \/ c = cache[u] => ArrayOf(owner', caches'[c].frames, c),
         pc'[u] \in Pointing => ArrayOf(owner', frame'[u][1], cache'[u]),
         pc'[u] \in Expanding => ArrayOf(owner', new_frames'[u], cache'[u])
  PROVE  Owners'
  <1>1. KeepsCaches(u) /\ KeepsArrays(u) /\ KeepsThreads(u)
    BY DEF Keeps
  <1>2. ASSUME NEW c \in 1..Len(caches') PROVE ArrayOf(owner', caches'[c].frames, c)
    <2>1. CASE c \in 1..Len(caches) /\ c # cache[u]
      <3>1. caches'[c] = caches[c]
        BY <1>1, <2>1 DEF KeepsCaches
      <3>2. ArrayOf(owner, caches[c].frames, c)
        BY <2>1 DEF Owners
      <3>3. ArrayOf(owner', caches[c].frames, c)
        BY <1>1, <3>2, ArrayKept
      <3> QED BY <3>1, <3>3
    <2> QED BY <2>1
  <1>3. ASSUME NEW t \in Threads, t # u
        PROVE  /\ pc'[t] \in Pointing => ArrayOf(owner', frame'[t][1], cache'[t])
               /\ pc'[t] \in Expanding => ArrayOf(owner', new_frames'[t], cache'[t])
    <2>1. /\ pc'[t] = pc[t] /\ frame'[t] = frame[t] /\ cache'[t] = cache[t]
          /\ new_frames'[t] = new_frames[t]
      BY <1>1, <1>3 DEF KeepsThreads, Same
    <2>2. /\ pc[t] \in Pointing => ArrayOf(owner, frame[t][1], cache[t])
          /\ pc[t] \in Expanding => ArrayOf(owner, new_frames[t], cache[t])
      BY DEF Owners
    <2>3. /\ pc[t] \in Pointing => ArrayOf(owner', frame[t][1], cache[t])
          /\ pc[t] \in Expanding => ArrayOf(owner', new_frames[t], cache[t])
      BY <1>1, <2>2, ArrayKept
    <2> QED BY <2>1, <2>3
  <1>4. Len(owner') = Len(arrays')
    BY <1>1 DEF KeepsArrays
  <1>5. \A t \in Threads : pc'[t] \in Pointing => ArrayOf(owner', frame'[t][1], cache'[t])
    BY <1>3
  <1>6. \A t \in Threads : pc'[t] \in Expanding => ArrayOf(owner', new_frames'[t], cache'[t])
    BY <1>3
  <1> QED BY <1>2, <1>4, <1>5, <1>6 DEF Owners

\* trace_cache_get: a new cache owns its array.
LEMMA GetOwners ==
  ASSUME Types, Types', Users, Owners, NEW u \in Threads,
         Call(u) \/ trace_cache_get(u) \/ trace_cache_init_once(u) \/ GetTls(u)
           \/ trace_cache_get_unthreaded(u)
  PROVE  Owners'
  <1>1. Keeps(u)
    BY GetKeeps
  <1>2. pc'[u] \notin Pointing /\ pc'[u] \notin Expanding
    <2>1. pc \in [Threads -> PCs]
      BY DEF Types, LocalTypes
    <2> QED BY <2>1 DEF Call, trace_cache_get, trace_cache_init_once, GetTls,
             trace_cache_get_unthreaded, Goto, Pointing, Expanding
  <1>3. ASSUME NEW c \in 1..Len(caches'), c \notin 1..Len(caches) \/ c = cache[u]
        PROVE  ArrayOf(owner', caches'[c].frames, c)
    <2>1. CASE UNCHANGED caches
      <3>1. c \in 1..Len(caches) /\ ArrayOf(owner, caches[c].frames, c)
        BY <1>3, <2>1 DEF Owners
      <3>2. ArrayOf(owner', caches[c].frames, c)
        BY <1>1, <3>1, ArrayKept DEF Keeps
      <3> QED BY <2>1, <3>2
    <2>2. CASE trace_cache_create(u)
      <3>1. /\ \A d \in 1..Len(caches) : caches'[d] = caches[d]
            /\ Len(caches') = Len(caches) + 1
            /\ caches'[Len(caches) + 1].frames = Len(arrays) + 1
            /\ Len(arrays') = Len(arrays) + 1
            /\ owner'[Len(arrays) + 1] = Len(caches) + 1
            /\ KeepsArrays(u)
        BY <2>2, CreateKeeps
      <3>2. Len(caches) \in Nat /\ Len(arrays) \in Nat
        BY DEF Types, GlobalTypes
      <3>3. CASE c \in 1..Len(caches)
        <4>1. ArrayOf(owner, caches[c].frames, c)
          BY <3>3 DEF Owners
        <4>2. ArrayOf(owner', caches[c].frames, c)
          BY <3>1, <4>1, ArrayKept
        <4> QED BY <3>1, <3>3, <4>2
      <3>4. CASE c \notin 1..Len(caches)
        <4>1. c = Len(caches) + 1
          BY <3>1, <3>2, <3>4
        <4>2. Len(owner') = Len(arrays) + 1
          BY <3>1 DEF KeepsArrays
        <4> QED BY <3>1, <3>2, <4>1, <4>2 DEF ArrayOf
      <3> QED BY <3>3, <3>4
    <2> QED BY <2>1, <2>2 DEF Call, trace_cache_get, trace_cache_init_once, GetTls,
             trace_cache_get_unthreaded, table
  <1> QED BY <1>1, <1>2, <1>3, OwnersKept

\* trace_lookup: the pointers a thread makes are into arrays of its cache.
LEMMA LookupOwners ==
  ASSUME Types, Types', Users, Owners, NEW u \in Threads, Lookup(u)
  PROVE  Owners'
  <1> DEFINE c == cache[u]
  <1>1. /\ Keeps(u) /\ UNCHANGED cache
        /\ Len(caches') = Len(caches) /\ c \in 1..Len(caches)
        /\ caches \in Seq(Caches)
    BY LookupKeeps, CacheType DEF Types, GlobalTypes
  <1>2. ASSUME NEW a, ArrayOf(owner, a, c) PROVE ArrayOf(owner', a, c)
    BY <1>1, <1>2, ArrayKept DEF Keeps
  <1>3. ArrayOf(owner, caches[c].frames, c)
    BY <1>1 DEF Owners
  <1>4. /\ pc[u] \in Pointing => ArrayOf(owner, frame[u][1], c)
        /\ pc[u] \in Expanding => ArrayOf(owner, new_frames[u], c)
    BY DEF Owners
  <1>5. /\ pc \in [Threads -> PCs] /\ frame \in [Threads -> Nat \X Nat]
        /\ new_frames \in [Threads -> Nat]
    BY DEF Types, LocalTypes
  <1>6. ArrayOf(owner', caches'[c].frames, c)
    <2>1. CASE caches'[c].frames = caches[c].frames
      BY <1>2, <1>3, <2>1
    <2>2. CASE SetFrames(u)
      <3>1. caches'[c].frames = new_frames[u] /\ pc[u] = "set_frames"
        BY <1>1, <2>2 DEF SetFrames, Goto
      <3>2. ArrayOf(owner, new_frames[u], c)
        BY <1>4, <3>1 DEF Expanding
      <3> QED BY <1>2, <3>1, <3>2
    <2> QED BY <1>1, <2>1, <2>2 DEF Lookup, trace_lookup, Probe, Decide, trace_cache_expand,
             SetLogSize, SetUsed, Rehash, Insert, Fill, Copy, StepAndStore, Use, table
  <1>7. ASSUME pc'[u] \in Pointing PROVE ArrayOf(owner', frame'[u][1], c)
    <2>1. CASE frame'[u] = frame[u] /\ pc[u] \in Pointing
      BY <1>2, <1>4, <2>1
    <2>2. CASE frame'[u][1] = caches[c].frames
      BY <1>2, <1>3, <2>2
    <2>3. CASE Probe(u) \/ Rehash(u)
      <3>1. frame'[u][1] = caches[c].frames
        BY <1>5, <2>3 DEF Probe, Rehash
      <3> QED BY <2>2, <3>1
    <2> QED BY <1>5, <1>7, <2>1, <2>3 DEF Lookup, trace_lookup, Decide, trace_cache_expand,
             SetFrames, SetLogSize, SetUsed, Insert, Fill, Copy, StepAndStore, Use, Goto,
             Pointing, looking
  <1>8. ASSUME pc'[u] \in Expanding PROVE ArrayOf(owner', new_frames'[u], c)
    <2>1. CASE trace_cache_expand(u)
      <3>1. c \in Nat
        BY DEF Types, LocalTypes
      <3>2. /\ Len(arrays') = Len(arrays) + 1 /\ Len(owner') = Len(arrays')
            /\ owner'[Len(arrays) + 1] = c
        BY <2>1, <3>1, BucketsKeep DEF trace_cache_expand, KeepsArrays
      <3>3. new_frames'[u] = Len(arrays) + 1 /\ Len(arrays) \in Nat
        BY <1>5, <2>1 DEF trace_cache_expand, Types, GlobalTypes
      <3> QED BY <3>2, <3>3 DEF ArrayOf
    <2>2. CASE SetFrames(u)
      <3>1. pc[u] = "set_frames" /\ new_frames'[u] = new_frames[u]
        BY <2>2 DEF SetFrames, Goto, expanding
      <3> QED BY <1>2, <1>4, <3>1 DEF Expanding
    <2> QED BY <1>5, <1>8, <2>1, <2>2 DEF Lookup, trace_lookup, Probe, Decide,
             SetLogSize, SetUsed, Rehash, Insert, Fill, Copy, StepAndStore, Use, Goto, Expanding
  <1>9. \A d \in 1..Len(caches') :
          d \notin 1..Len(caches) \/ d = cache[u] => ArrayOf(owner', caches'[d].frames, d)
    BY <1>1, <1>6
  <1> QED BY <1>1, <1>7, <1>8, <1>9, OwnersKept
-----------------------------------------------------------------------------
(* The table of a cache with one user.                                     *)

\* Nothing changes of a table, and of what its user knows of it.
LEMMA Unaffected ==
  ASSUME NEW t \in Threads, NEW c, Alone(t, c),
         caches'[c] = caches[c],
         arrays'[caches[c].frames] = arrays[caches[c].frames],
         \/ /\ Same(t)
            /\ cache[t] = c /\ pc[t] = "set_frames" =>
                 arrays'[new_frames[t]] = arrays[new_frames[t]]
         \/ cache[t] # c /\ (cache'[t] # c \/ pc'[t] = "trace")
  PROVE  Alone(t, c)'
  <1>1. PICK h : h = arrays[caches[c].frames]
    OBVIOUS
  <1>2. PICK n : n = Size(caches[c].log_size)
    OBVIOUS
  <1>3. /\ Ok(h, n)
        /\ cache[t] = c => Knows(t, h, n) /\ Expands(t, c)
        /\ Counts(IF cache[t] = c THEN pc[t] ELSE "idle", Cardinality(DOMAIN h), n,
                  caches[c].used)
    BY <1>1, <1>2 DEF Alone
  <1>4. h = arrays'[caches'[c].frames] /\ n = Size(caches'[c].log_size)
    BY <1>1, <1>2
  <1>5. CASE Same(t) /\ (cache[t] = c /\ pc[t] = "set_frames" =>
                           arrays'[new_frames[t]] = arrays[new_frames[t]])
    <2>1. cache[t] = c => Knows(t, h, n)'
      BY <1>3, <1>5 DEF Knows, Same
    <2>2. cache[t] = c => Expands(t, c)'
      BY <1>3, <1>5 DEF Expands, Same
    <2>3. cache'[t] = cache[t] /\ pc'[t] = pc[t]
      BY <1>5 DEF Same
    <2> QED BY <1>3, <1>4, <2>1, <2>2, <2>3 DEF Alone
  <1>6. CASE cache[t] # c /\ (cache'[t] # c \/ pc'[t] = "trace")
    <2>1. Counts("idle", Cardinality(DOMAIN h), n, caches[c].used)
      BY <1>3, <1>6
    <2>2. Counts(IF cache'[t] = c THEN pc'[t] ELSE "idle", Cardinality(DOMAIN h), n,
                 caches[c].used)
      BY <1>6, <2>1 DEF Counts
    <2>3. pc'[t] = "trace" => Knows(t, h, n)' /\ Expands(t, c)'
      BY DEF Knows, Expands, Pointing
    <2> QED BY <1>3, <1>4, <1>6, <2>2, <2>3 DEF Alone
  <1> QED BY <1>5, <1>6

\* A cache with one user had it before, or is new.
LEMMA OneUser ==
  ASSUME Users, KeepsUsers, NEW t \in Threads, NEW c \in 1..Len(caches), users'[c] = {t}
  PROVE  users[c] = {t}
  <1>1. users[c] # {} /\ users[c] \subseteq users'[c]
    BY DEF Users, KeepsUsers
  <1> QED BY <1>1

\* A step of u does nothing to the tables of the caches that u does not use.
LEMMA OthersAlone ==
  ASSUME Types, Users, Owners, Private, NEW u \in Threads, Keeps(u),
         NEW t \in Threads, NEW c \in 1..Len(caches), users'[c] = {t},
         t = u => cache[u] # c /\ (cache'[u] # c \/ pc'[u] = "trace")
  PROVE  Alone(t, c)'
  <1>1. KeepsCaches(u) /\ KeepsArrays(u) /\ KeepsUsers /\ KeepsThreads(u)
    BY DEF Keeps
  <1>2. users[c] = {t}
    BY <1>1, OneUser
  <1>3. Alone(t, c)
    BY <1>2 DEF Private
  <1>4. cache[u] # c
    <2>1. CASE t = u
      BY <2>1
    <2>2. CASE t # u
      <3>1. cache[u] = 0 \/ u \in users[cache[u]]
        BY DEF Users, Given
      <3>2. c # 0
        OBVIOUS
      <3> QED BY <1>2, <2>2, <3>1, <3>2
    <2> QED BY <2>1, <2>2
  <1>5. caches'[c] = caches[c]
    BY <1>1, <1>4 DEF KeepsCaches
  <1>6. ASSUME NEW a, ArrayOf(owner, a, c) PROVE arrays'[a] = arrays[a]
    <2>1. a \in 1..Len(arrays) /\ owner[a] = c
      BY <1>6 DEF ArrayOf, Owners
    <2> QED BY <1>1, <1>4, <2>1 DEF KeepsArrays
  <1>7. ArrayOf(owner, caches[c].frames, c)
    BY DEF Owners
  <1>8. arrays'[caches[c].frames] = arrays[caches[c].frames]
    BY <1>6, <1>7
  <1>9. CASE t = u
    BY <1>3, <1>4, <1>5, <1>8, <1>9, Unaffected
  <1>10. CASE t # u
    <2>1. Same(t)
      BY <1>1, <1>10 DEF KeepsThreads
    <2>2. cache[t] = c /\ pc[t] = "set_frames" => ArrayOf(owner, new_frames[t], c)
      BY DEF Owners, Expanding
    <2>3. cache[t] = c /\ pc[t] = "set_frames" => arrays'[new_frames[t]] = arrays[new_frames[t]]
      BY <1>6, <2>2
    <2> QED BY <1>3, <1>5, <1>8, <2>1, <2>3, Unaffected
  <1> QED BY <1>9, <1>10

\* The steps of trace_cache_get do nothing to a table, and make empty ones.
LEMMA GetPrivate ==
  ASSUME IInv, Types', NEW u \in Threads,
         Call(u) \/ trace_cache_get(u) \/ trace_cache_init_once(u) \/ GetTls(u)
           \/ trace_cache_get_unthreaded(u)
  PROVE  Private'
  <1>1. Types /\ Users /\ Owners /\ Private
    BY DEF IInv
  <1>2. Keeps(u)
    BY <1>1, GetKeeps
  <1>3. SUFFICES ASSUME NEW t \in Threads, NEW c \in 1..Len(caches'), users'[c] = {t}
                 PROVE  Alone(t, c)'
    BY DEF Private
  <1>4. /\ pc \in [Threads -> PCs] /\ cache \in [Threads -> Nat]
    BY <1>1 DEF Types, LocalTypes
  <1>5. /\ pc[u] \in {"idle", "get", "init_once", "tls", "unthreaded"}
        /\ pc'[u] \in {"get", "init_once", "tls", "unthreaded", "trace"}
        /\ cache'[u] = cache[u] \/ pc'[u] = "trace"
    BY <1>4 DEF Call, trace_cache_get, trace_cache_init_once, GetTls,
                trace_cache_get_unthreaded, Goto
  <1>6. CASE c \in 1..Len(caches)
    <2>1. CASE t = u => cache[u] # c
      <3>1. t = u => cache[u] # c /\ (cache'[u] # c \/ pc'[u] = "trace")
        BY <1>5, <2>1
      <3> QED BY <1>1, <1>2, <1>3, <1>6, <3>1, OthersAlone
    <2>2. CASE t = u /\ cache[u] = c
      <3>1. users[c] = {u}
        BY <1>1, <1>2, <1>3, <1>6, <2>2, OneUser DEF Keeps
      <3>2. PICK h : h = arrays[caches[c].frames]
        OBVIOUS
      <3>3. PICK n : n = Size(caches[c].log_size)
        OBVIOUS
      <3>4. Ok(h, n) /\ Counts(pc[u], Cardinality(DOMAIN h), n, caches[c].used)
        BY <1>1, <1>6, <2>2, <3>1, <3>2, <3>3 DEF Private, Alone
      <3>5. /\ caches'[c] = caches[c]
            /\ \A a \in 1..Len(arrays) : arrays'[a] = arrays[a]
        <4>1. CASE UNCHANGED table
          BY <4>1 DEF table
        <4>2. CASE trace_cache_create(u)
          BY <1>1, <1>6, <4>2, CreateKeeps
        <4> QED BY <4>1, <4>2 DEF Call, trace_cache_get, trace_cache_init_once, GetTls,
                 trace_cache_get_unthreaded
      <3>6. caches[c].frames \in 1..Len(arrays)
        BY <1>1, <1>6 DEF Owners, ArrayOf
      <3>7. arrays'[caches'[c].frames] = h /\ Size(caches'[c].log_size) = n
            /\ caches'[c].used = caches[c].used
        BY <3>2, <3>3, <3>5, <3>6
      <3>8. Knows(u, h, n)' /\ Expands(u, c)'
        BY <1>5 DEF Knows, Expands, Pointing
      <3>9. Counts(IF cache'[u] = c THEN pc'[u] ELSE "idle", Cardinality(DOMAIN h), n,
                   caches[c].used)
        BY <1>5, <3>4 DEF Counts
      <3> QED BY <2>2, <3>4, <3>7, <3>8, <3>9 DEF Alone
    <2> QED BY <2>1, <2>2
  <1>7. CASE c \notin 1..Len(caches)
    <2>1. trace_cache_create(u) /\ pc'[u] = "trace" /\ cache'[u] = Len(caches) + 1
      <3>1. caches' # caches
        BY <1>7
      <3> QED BY <1>4, <3>1 DEF Call, trace_cache_get, trace_cache_init_once, GetTls,
               trace_cache_get_unthreaded, table, Goto, UseCache
    <2>2. /\ Len(caches') = Len(caches) + 1
          /\ users'[Len(caches) + 1] = {u}
          /\ caches'[Len(caches) + 1].frames = Len(arrays) + 1
          /\ caches'[Len(caches) + 1].log_size = MinBits
          /\ caches'[Len(caches) + 1].used = 0
          /\ arrays'[Len(arrays) + 1] = NoSlots
      BY <1>1, <2>1, CreateKeeps
    <2>3. Len(caches) \in Nat
      BY <1>1 DEF Types, GlobalTypes
    <2>4. c = Len(caches) + 1
      BY <1>3, <1>7, <2>2, <2>3
    <2>5. t = u
      BY <1>3, <2>2, <2>4
    <2>6. PICK n \in Nat \ {0, 1} : n = Size(MinBits)
      <3>1. MinBits \in MinBits..MaxBits
        BY TraceAssumption
      <3> QED BY <3>1, SizeAssumption
    <2>7. arrays'[caches'[c].frames] = NoSlots /\ Size(caches'[c].log_size) = n
          /\ caches'[c].used = 0 /\ cache'[u] = c
      BY <2>1, <2>2, <2>4, <2>6
    <2>8. Counts("trace", Cardinality(DOMAIN NoSlots), n, 0)
      BY <2>6, NoSlotsTable DEF Counts
    <2>9. Knows(u, NoSlots, n)' /\ Expands(u, c)'
      BY <2>1 DEF Knows, Expands, Pointing
    <2>10. Ok(NoSlots, n)
      BY EmptyOk
    <2> QED BY <2>1, <2>5, <2>7, <2>8, <2>9, <2>10 DEF Alone
  <1> QED BY <1>6, <1>7

\* What is to show of a step of the only user of a cache, for the table g of m slots
\* that it leaves.
LEMMA AloneAfter ==
  ASSUME NEW u \in Threads, NEW c, NEW g, NEW m, cache'[u] = c,
         g = arrays'[caches'[c].frames], m = Size(caches'[c].log_size),
         Ok(g, m), Knows(u, g, m)', Expands(u, c)',
         Counts(pc'[u], Cardinality(DOMAIN g), m, caches'[c].used)
  PROVE  Alone(u, c)'
  BY DEF Alone

\* The steps of trace_lookup and its callees, by the only user of the cache.
LEMMA LookupAlone ==
  ASSUME IInv, Types', NEW u \in Threads, NEW c \in 1..Len(caches), c = cache[u],
         users[c] = {u}, Lookup(u)
  PROVE  Alone(u, c)'
  <1>1. Types /\ Users /\ Owners /\ Alone(u, c)
    BY DEF IInv, Private
  <1>2. PICK h \in Tables : h = arrays[caches[c].frames]
    BY <1>1 DEF Types, GlobalTypes, Owners, ArrayOf
  <1>3. PICK n \in Nat \ {0} : n = Size(caches[c].log_size) /\ n >= 2
    BY <1>1, SizeType
  <1>4. PICK k \in Nat : k = Cardinality(DOMAIN h)
    BY TableType, FS_CardinalityType
  <1>5. PICK used \in Nat : used = caches[c].used
    BY <1>1, SizeType DEF Caches
  <1>6. /\ Ok(h, n)
        /\ Knows(u, h, n)
        /\ Expands(u, c)
        /\ Counts(pc[u], k, n, used)
    BY <1>1, <1>2, <1>3, <1>4, <1>5 DEF Alone
  <1>7. /\ pc \in [Threads -> PCs] /\ cache \in [Threads -> Nat]
        /\ rip \in [Threads -> Nat] /\ i \in [Threads -> Nat]
        /\ cache_size \in [Threads -> Nat] /\ slot \in [Threads -> Nat]
        /\ frame \in [Threads -> Nat \X Nat] /\ addr \in [Threads -> Nat]
        /\ new_log_size \in [Threads -> Nat] /\ new_frames \in [Threads -> Nat]
        /\ frame_info \in [Threads -> Nat]
        /\ pc[u] \in Looking => rip[u] \in Rips
    BY <1>1 DEF Types, LocalTypes
  <1>8. cache'[u] = c
    BY <1>1, LookupKeeps
  <1>9. 0 \notin Rips
    BY TraceAssumption
  <1>10. h \in [DOMAIN h -> SlotValue]
    BY TableType
  \* A slot of the table as At reads it.
  <1>11. ASSUME NEW s PROVE /\ s \in DOMAIN h => At(<<caches[c].frames, s>>) = h[s]
                            /\ s \notin DOMAIN h => At(<<caches[c].frames, s>>).virtual_address = 0
    BY <1>2 DEF At, EmptyFrame
  <1>12. \A s \in DOMAIN h : h[s].virtual_address \in Rips /\ h[s].virtual_address # 0
    BY <1>6, <1>9 DEF Ok, Honest
  <1>13. ASSUME UNCHANGED <<caches, arrays>>, Knows(u, h, n)', Expands(u, c)',
                Counts(pc'[u], k, n, used)
         PROVE  Alone(u, c)'
    BY <1>2, <1>3, <1>4, <1>5, <1>6, <1>8, <1>13, AloneAfter
  <1>14. CASE trace_lookup(u)
    <2>1. PICK r \in Rips : /\ rip'[u] = r /\ i'[u] = 0 /\ cache_size'[u] = n
                            /\ slot'[u] = Slot(r, n)
      BY <1>3, <1>7, <1>14 DEF trace_lookup
    <2>2. pc[u] = "trace" /\ pc'[u] = "probe" /\ UNCHANGED <<caches, arrays>>
      BY <1>7, <1>14 DEF trace_lookup, Goto, table
    <2>3. Slot(r, n) = Probed(r, 0, n) /\ Passed(h, n, r, 0) /\ 0 < MaxProbes
      BY FirstProbe, PassedZero, TraceAssumption
    <2>4. Knows(u, h, n)'
      BY <2>1, <2>2, <2>3 DEF Knows
    <2>5. Expands(u, c)' /\ Counts(pc'[u], k, n, used)
      BY <1>6, <2>2 DEF Expands, Counts, Pointing
    <2> QED BY <1>13, <2>2, <2>4, <2>5
  <1>15. CASE Probe(u)
    <2>1. pc[u] = "probe" /\ UNCHANGED <<caches, arrays, rip, cache_size>>
      BY <1>15 DEF Probe, table
    <2>2. /\ i[u] < MaxProbes /\ slot[u] = Probed(rip[u], i[u], n)
          /\ Passed(h, n, rip[u], i[u]) /\ cache_size[u] = n
          /\ rip[u] \in Rips /\ i[u] \in Nat
      BY <1>6, <1>7, <2>1 DEF Knows, Looking
    <2>3. PICK va : va = At(<<caches[c].frames, slot[u]>>).virtual_address
      OBVIOUS
    <2>4. /\ frame'[u] = <<caches[c].frames, slot[u]>> /\ addr'[u] = va
          /\ \/ va = rip[u] /\ pc'[u] = "use"
             \/ va # rip[u] /\ va = 0 /\ pc'[u] = "decide" /\ i'[u] = i[u]
             \/ /\ va # rip[u] /\ va # 0
                /\ pc'[u] = IF i[u] + 1 < MaxProbes THEN "probe" ELSE "decide"
                /\ i'[u] = i[u] + 1 /\ slot'[u] = NextSlot(slot[u], n)
      BY <1>7, <1>15, <2>2, <2>3 DEF Probe, Found, Goto
    <2>5. va # 0 => slot[u] \in DOMAIN h /\ h[slot[u]].virtual_address = va
      BY <1>11, <2>3
    <2>6. va = 0 => slot[u] \notin DOMAIN h
      BY <1>11, <1>12, <2>3
    <2>7. Expands(u, c)'
      BY <2>1, <2>4 DEF Expands, Expanding
    <2>8. Counts(pc'[u], k, n, used)
      BY <1>6, <2>1, <2>4 DEF Counts
    <2>9. Knows(u, h, n)'
      <3>1. CASE va = rip[u]
        <4>1. pc'[u] = "use" /\ frame'[u][2] = slot[u] /\ rip'[u] = rip[u]
          BY <2>1, <2>2, <2>4, <3>1, <1>9
        <4>2. Holds(h, slot[u], rip[u])
          BY <1>9, <2>2, <2>5, <3>1 DEF Holds
        <4> QED BY <4>1, <4>2 DEF Knows
      <3>2. CASE va = 0
        <4>1. pc'[u] = "decide" /\ frame'[u][2] = slot[u] /\ cache_size'[u] = n
              /\ rip'[u] = rip[u]
          BY <1>9, <2>1, <2>2, <2>4, <3>2
        <4>2. i[u] \in 0..(MaxProbes - 1)
          BY <2>2, TraceAssumption
        <4>3. Free(h, n, rip[u], slot[u])
          BY <2>2, <2>6, <3>2, <4>2 DEF Free
        <4> QED BY <4>1, <4>3 DEF Knows
      <3>3. CASE va # rip[u] /\ va # 0
        <4>1. /\ pc'[u] = IF i[u] + 1 < MaxProbes THEN "probe" ELSE "decide"
              /\ i'[u] = i[u] + 1 /\ slot'[u] = NextSlot(slot[u], n)
              /\ rip'[u] = rip[u] /\ cache_size'[u] = n /\ addr'[u] # 0
          BY <2>1, <2>2, <2>4, <3>3
        <4>2. slot'[u] = Probed(rip[u], i[u] + 1, n)
          BY <2>2, <4>1, NextProbe
        <4>3. Passed(h, n, rip[u], i[u] + 1)
          BY <2>2, <2>5, <3>3, PassedNext
        <4>4. CASE i[u] + 1 < MaxProbes
          BY <4>1, <4>2, <4>3, <4>4 DEF Knows
        <4>5. CASE ~(i[u] + 1 < MaxProbes)
          BY <4>1, <4>5 DEF Knows
        <4> QED BY <4>4, <4>5
      <3> QED BY <3>1, <3>2, <3>3
    <2> QED BY <1>13, <2>1, <2>7, <2>8, <2>9
  <1>16. CASE Decide(u)
    <2>1. /\ pc[u] = "decide" /\ UNCHANGED <<caches, arrays, rip, frame, addr>>
          /\ pc'[u] = IF MustExpand(u) THEN "expand" ELSE "insert"
      BY <1>7, <1>16 DEF Decide, Goto, table, looking
    <2>2. cache_size[u] = n /\ (addr[u] = 0 => Free(h, n, rip[u], frame[u][2]))
      BY <1>6, <2>1 DEF Knows
    <2>3. CASE MustExpand(u)
      <3>1. pc'[u] = "expand"
        BY <2>1, <2>3
      <3>2. Knows(u, h, n)' /\ Expands(u, c)' /\ Counts(pc'[u], k, n, used)
        BY <1>6, <2>1, <3>1 DEF Knows, Expands, Counts, Pointing, Expanding
      <3> QED BY <1>13, <2>1, <3>2
    <2>4. CASE ~MustExpand(u)
      <3>1. pc'[u] = "insert" /\ addr[u] = 0 /\ ~(used >= n \div 2)
        BY <1>5, <2>1, <2>2, <2>4 DEF MustExpand
      <3>2. 2 * (used + 1) <= n
        BY <3>1
      <3>3. Knows(u, h, n)'
        BY <2>1, <2>2, <3>1 DEF Knows
      <3>4. Expands(u, c)'
        BY <1>6, <2>1, <3>1 DEF Expands, Pointing, Expanding
      <3>5. Counts(pc'[u], k, n, used)
        BY <1>6, <2>1, <3>1, <3>2 DEF Counts
      <3> QED BY <1>13, <2>1, <3>3, <3>4, <3>5
    <2> QED BY <2>3, <2>4
  <1>17. CASE trace_cache_expand(u)
    <2>1. /\ pc[u] = "expand" /\ pc'[u] = "set_frames" /\ UNCHANGED caches
          /\ new_frames'[u] = Len(arrays) + 1
      BY <1>7, <1>17 DEF trace_cache_expand, Goto
    <2>2. /\ \A a \in 1..Len(arrays) : arrays'[a] = arrays[a]
          /\ arrays'[Len(arrays) + 1] = NoSlots
      BY <1>1, <1>7, <1>17, BucketsKeep DEF trace_cache_expand
    <2>3. caches[c].frames \in 1..Len(arrays)
      BY <1>1 DEF Owners, ArrayOf
    <2>4. h = arrays'[caches'[c].frames] /\ n = Size(caches'[c].log_size)
          /\ caches'[c].used = used
      BY <1>2, <1>3, <1>5, <2>1, <2>2, <2>3
    <2>5. Knows(u, h, n)' /\ Expands(u, c)' /\ Counts(pc'[u], k, n, used)
      BY <1>6, <2>1, <2>2 DEF Knows, Expands, Counts, Pointing
    <2> QED BY <1>4, <1>6, <1>8, <2>4, <2>5, AloneAfter
  <1>18. CASE SetFrames(u)
    <2>1. /\ pc[u] = "set_frames" /\ pc'[u] = "set_log" /\ UNCHANGED <<arrays, new_frames>>
          /\ caches'[c].frames = new_frames[u] /\ caches'[c].log_size = caches[c].log_size
      BY <1>1, <1>7, <1>18, UpdateKeeps DEF SetFrames, Goto, expanding
    <2>2. arrays[new_frames[u]] = NoSlots
      BY <1>6, <2>1 DEF Expands
    <2>3. NoSlots = arrays'[caches'[c].frames] /\ n = Size(caches'[c].log_size)
      BY <1>3, <2>1, <2>2
    <2>4. Knows(u, NoSlots, n)' /\ Expands(u, c)'
          /\ Counts(pc'[u], Cardinality(DOMAIN NoSlots), n, caches'[c].used)
      BY <2>1, <2>3 DEF Knows, Expands, Counts, Pointing
    <2> QED BY <1>8, <2>3, <2>4, EmptyOk, AloneAfter
  <1>19. CASE SetLogSize(u)
    <2>1. /\ pc[u] = "set_log" /\ pc'[u] = "set_used" /\ UNCHANGED arrays
          /\ caches'[c].frames = caches[c].frames
      BY <1>1, <1>7, <1>19, UpdateKeeps DEF SetLogSize, Goto
    <2>2. PICK m : m = Size(caches'[c].log_size)
      OBVIOUS
    <2>3. NoSlots = arrays'[caches'[c].frames]
      BY <1>6, <2>1 DEF Expands
    <2>4. Knows(u, NoSlots, m)' /\ Expands(u, c)'
          /\ Counts(pc'[u], Cardinality(DOMAIN NoSlots), m, caches'[c].used)
      BY <2>1, <2>3 DEF Knows, Expands, Counts, Pointing
    <2> QED BY <1>8, <2>2, <2>3, <2>4, EmptyOk, AloneAfter
  <1>20. CASE SetUsed(u)
    <2>1. /\ pc[u] = "set_used" /\ pc'[u] = "rehash" /\ UNCHANGED arrays
          /\ caches'[c].frames = caches[c].frames /\ caches'[c].log_size = caches[c].log_size
          /\ caches'[c].used = 0
      BY <1>1, <1>7, <1>20, UpdateKeeps DEF SetUsed, UsedAfterExpand, Goto
    <2>2. NoSlots = arrays'[caches'[c].frames] /\ n = Size(caches'[c].log_size)
      BY <1>3, <1>6, <2>1 DEF Expands
    <2>3. Knows(u, NoSlots, n)' /\ Expands(u, c)'
      BY <2>1, <2>2 DEF Knows, Expands, Pointing
    <2>4. Counts(pc'[u], Cardinality(DOMAIN NoSlots), n, caches'[c].used)
      BY <2>1, NoSlotsTable DEF Counts
    <2> QED BY <1>8, <2>2, <2>3, <2>4, EmptyOk, AloneAfter
  <1>21. CASE Rehash(u)
    <2>1. /\ pc[u] = "rehash" /\ pc'[u] = "insert" /\ UNCHANGED <<caches, arrays, rip>>
          /\ frame'[u] = <<caches[c].frames, Slot(rip[u], n)>>
          /\ addr'[u] = At(<<caches[c].frames, Slot(rip[u], n)>>).virtual_address
      BY <1>3, <1>7, <1>21 DEF Rehash, Rehashed, Goto, table
    <2>2. h = NoSlots /\ used = 0 /\ rip[u] \in Rips
      BY <1>2, <1>6, <1>7, <2>1 DEF Expands, Counts, Looking
    <2>3. DOMAIN h = {} /\ k = 0
      BY <1>4, <2>2, NoSlotsTable
    <2>4. addr'[u] = 0
      BY <1>11, <2>1, <2>3
    <2>5. 0 \in 0..(MaxProbes - 1)
      BY TraceAssumption
    <2>6. Free(h, n, rip[u], Slot(rip[u], n))
      BY <2>2, <2>3, <2>5, FirstProbe, PassedZero DEF Free
    <2>7. Knows(u, h, n)' /\ Expands(u, c)'
      BY <2>1, <2>4, <2>6 DEF Knows, Expands, Expanding
    <2>8. Counts(pc'[u], k, n, used)
      BY <1>3, <2>1, <2>2, <2>3 DEF Counts
    <2> QED BY <1>13, <2>1, <2>7, <2>8
  <1>22. CASE Insert(u)
    <2>1. pc[u] = "insert" /\ pc'[u] = "fill" /\ UNCHANGED <<arrays, rip, frame, addr>>
      BY <1>7, <1>22 DEF Insert, Goto, looking
    <2>2. addr[u] = 0 /\ Free(h, n, rip[u], frame[u][2])
      BY <1>6, <2>1 DEF Knows
    <2>3. /\ caches'[c].frames = caches[c].frames /\ caches'[c].log_size = caches[c].log_size
          /\ caches'[c].used = used + 1
      BY <1>1, <1>5, <1>22, <2>2, UpdateKeeps DEF Insert
    <2>4. h = arrays'[caches'[c].frames] /\ n = Size(caches'[c].log_size)
      BY <1>2, <1>3, <2>1, <2>3
    <2>5. Knows(u, h, n)' /\ Expands(u, c)'
      BY <1>6, <2>1, <2>2, <2>3 DEF Knows, Expands, Pointing, Expanding
    <2>6. Counts(pc'[u], k, n, caches'[c].used)
      BY <1>6, <2>1, <2>3 DEF Counts
    <2> QED BY <1>4, <1>6, <1>8, <2>4, <2>5, <2>6, AloneAfter
  <1>23. CASE Fill(u)
    <2>1. pc[u] = "fill" /\ pc'[u] = "copy" /\ UNCHANGED <<caches, owner, rip, frame>>
      BY <1>7, <1>23 DEF Fill, Goto, looking
    <2>2. /\ Free(h, n, rip[u], frame[u][2]) /\ frame[u][1] = caches[c].frames
          /\ rip[u] \in Rips /\ rip[u] \in Nat /\ frame[u][2] \in Nat
      BY <1>6, <1>7, <2>1 DEF Knows, Expands, Pointing, Looking
    <2>3. PICK v \in SlotValue : v = [virtual_address |-> rip[u], properties |-> 0]
      BY <2>2 DEF SlotValue
    <2>4. PICK g : g = Put(h, frame[u][2], v)
      OBVIOUS
    <2>5. arrays'[frame[u][1]] = g
      <3>1. Write(frame[u], v)
        BY <1>23, <2>3 DEF Fill
      <3>2. arrays'[frame[u][1]] = Put(arrays[frame[u][1]], frame[u][2], v)
        BY <1>1, <2>1, <3>1, WriteKeeps DEF Pointing
      <3> QED BY <1>2, <2>2, <2>4, <3>2
    <2>6. g = arrays'[caches'[c].frames] /\ n = Size(caches'[c].log_size)
          /\ caches'[c].used = used
      BY <1>3, <1>5, <2>1, <2>2, <2>5
    <2>7. v.virtual_address = rip[u] /\ v.properties = 0
      BY <2>3
    <2>8. Ok(g, n) /\ Holds(g, frame[u][2], rip[u])
      BY <1>6, <2>2, <2>4, <2>7, FillOk
    <2>9. DOMAIN g = DOMAIN h \cup {frame[u][2]} /\ frame[u][2] \notin DOMAIN h
      <3>1. frame[u][2] \notin DOMAIN h
        BY <2>2 DEF Free
      <3>2. DOMAIN Put(h, frame[u][2], v) = DOMAIN h \cup {frame[u][2]}
        BY DEF Put
      <3> QED BY <2>4, <3>1, <3>2
    <2>10. IsFiniteSet(DOMAIN h)
      BY TableType
    <2>11. Cardinality(DOMAIN g) = k + 1
      BY <1>4, <2>9, <2>10, FS_AddElement
    <2>12. Knows(u, g, n)' /\ Expands(u, c)'
      BY <2>1, <2>2, <2>8 DEF Knows, Expands, Expanding
    <2>13. Counts(pc'[u], Cardinality(DOMAIN g), n, caches'[c].used)
      BY <1>6, <2>1, <2>6, <2>11 DEF Counts
    <2> QED BY <1>8, <2>6, <2>8, <2>12, <2>13, AloneAfter
  <1>24. CASE Copy(u)
    <2>1. /\ pc[u] = "copy" /\ pc'[u] = "step" /\ UNCHANGED <<caches, arrays, rip, frame>>
          /\ frame_info'[u] = At(frame[u]).virtual_address
      BY <1>7, <1>24 DEF Copy, Goto, table, looking
    <2>2. Holds(h, frame[u][2], rip[u]) /\ frame[u][1] = caches[c].frames
      BY <1>6, <2>1 DEF Knows, Expands, Pointing
    <2>3. At(frame[u]).virtual_address = rip[u]
      BY <1>2, <2>2 DEF Holds, At
    <2>4. Knows(u, h, n)' /\ Expands(u, c)'
      BY <2>1, <2>2, <2>3 DEF Knows, Expands, Expanding
    <2>5. Counts(pc'[u], k, n, used)
      BY <1>6, <2>1 DEF Counts
    <2> QED BY <1>13, <2>1, <2>4, <2>5
  <1>25. CASE StepAndStore(u)
    <2>1. pc[u] = "step" /\ pc'[u] = "use" /\ UNCHANGED <<caches, owner, rip, frame>>
      BY <1>7, <1>25 DEF StepAndStore, Goto, looking
    <2>2. /\ Holds(h, frame[u][2], rip[u]) /\ frame[u][1] = caches[c].frames
          /\ frame_info[u] = rip[u]
          /\ rip[u] \in Rips /\ rip[u] \in Nat /\ frame[u][2] \in Nat
      BY <1>6, <1>7, <2>1 DEF Knows, Expands, Pointing, Looking
    <2>3. Expands(u, c)' /\ Counts(pc'[u], k, n, used)
      BY <1>6, <2>1, <2>2 DEF Expands, Counts, Expanding
    <2>4. CASE UNCHANGED arrays
      <3>1. Knows(u, h, n)'
        BY <2>1, <2>2 DEF Knows
      <3> QED BY <1>13, <2>1, <2>3, <2>4, <3>1
    <2>5. CASE Write(frame[u], [virtual_address |-> frame_info[u], properties |-> rip[u]])
      <3>1. PICK v \in SlotValue : v = [virtual_address |-> frame_info[u], properties |-> rip[u]]
        BY <2>2 DEF SlotValue
      <3>2. PICK g : g = Put(h, frame[u][2], v)
        OBVIOUS
      <3>3. arrays'[frame[u][1]] = g
        BY <1>1, <1>2, <2>1, <2>2, <2>5, <3>1, <3>2, WriteKeeps DEF Pointing
      <3>4. g = arrays'[caches'[c].frames] /\ n = Size(caches'[c].log_size)
            /\ caches'[c].used = used
        BY <1>3, <1>5, <2>1, <2>2, <3>3
      <3>5. v.virtual_address = rip[u] /\ v.properties = rip[u]
        BY <2>2, <3>1
      <3>6. Ok(g, n) /\ Holds(g, frame[u][2], rip[u]) /\ DOMAIN g = DOMAIN h
        BY <1>6, <2>2, <3>2, <3>5, StoreOk
      <3>7. Knows(u, g, n)'
        BY <2>1, <2>2, <3>6 DEF Knows
      <3>8. Counts(pc'[u], Cardinality(DOMAIN g), n, caches'[c].used)
        BY <1>4, <2>3, <3>4, <3>6
      <3> QED BY <1>8, <2>3, <3>4, <3>6, <3>7, <3>8, AloneAfter
    <2> QED BY <1>25, <2>4, <2>5 DEF StepAndStore
  <1>26. CASE Use(u)
    <2>1. /\ pc[u] = "use" /\ pc'[u] \in {"panic", "idle", "trace"}
          /\ UNCHANGED <<caches, arrays>>
      BY <1>7, <1>26 DEF Use, Goto, table
    <2>2. Knows(u, h, n)' /\ Expands(u, c)' /\ Counts(pc'[u], k, n, used)
      BY <1>6, <2>1 DEF Knows, Expands, Counts, Pointing, Expanding
    <2> QED BY <1>13, <2>1, <2>2
  <1> QED BY <1>14, <1>15, <1>16, <1>17, <1>18, <1>19, <1>20, <1>21, <1>22, <1>23, <1>24,
             <1>25, <1>26 DEF Lookup

\* A step of trace_lookup keeps the tables of all caches that have one user.
LEMMA LookupPrivate ==
  ASSUME IInv, Types', NEW u \in Threads, Lookup(u)
  PROVE  Private'
  <1>1. Types /\ Users /\ Owners /\ Private
    BY DEF IInv
  <1>2. /\ Keeps(u) /\ Len(caches') = Len(caches) /\ UNCHANGED <<shared, cache>>
    BY <1>1, LookupKeeps
  <1>3. SUFFICES ASSUME NEW t \in Threads, NEW c \in 1..Len(caches'), users'[c] = {t}
                 PROVE  Alone(t, c)'
    BY DEF Private
  <1>4. c \in 1..Len(caches)
    BY <1>2
  <1>5. CASE t = u /\ cache[u] = c
    <2>1. users[c] = {u}
      BY <1>2, <1>3, <1>5 DEF shared
    <2>2. Alone(u, c)'
      BY <1>4, <1>5, <2>1, LookupAlone
    <2> QED BY <1>5, <2>2
  <1>6. CASE t = u => cache[u] # c
    <2>1. t = u => cache[u] # c /\ (cache'[u] # c \/ pc'[u] = "trace")
      BY <1>2, <1>6
    <2> QED BY <1>1, <1>2, <1>3, <1>4, <2>1, OthersAlone
  <1> QED BY <1>5, <1>6
-----------------------------------------------------------------------------
(* The theorems.                                                           *)

\* The empty initial state.
LEMMA InitInv == Init => IInv
  <1> SUFFICES ASSUME Init PROVE IInv
    OBVIOUS
  <1>1. GlobalTypes
    BY DEF Init, GlobalTypes
  <1>2. LocalTypes
    BY DEF Init, LocalTypes, PCs, Tracing, Looking, Expanding
  <1>3. Len(caches) = 0 /\ Len(users) = 0 /\ Len(arrays) = 0 /\ Len(owner) = 0
    BY DEF Init
  <1>4. Users
    BY <1>3 DEF Init, Users, Tracing, Looking
  <1>5. Owners
    BY <1>3 DEF Init, Owners, Pointing, Expanding
  <1>6. Private
    BY <1>3 DEF Private
  <1> QED BY <1>1, <1>2, <1>4, <1>5, <1>6 DEF IInv, Types

\* Every step keeps the invariant.
LEMMA NextInv == IInv /\ [Next]_vars => IInv'
  <1> SUFFICES ASSUME IInv, [Next]_vars PROVE IInv'
    OBVIOUS
  <1>1. Types /\ Users /\ Owners /\ Private
    BY DEF IInv
  <1>2. ASSUME NEW t \in Threads,
               Call(t) \/ trace_cache_get(t) \/ trace_cache_init_once(t) \/ GetTls(t)
                 \/ trace_cache_get_unthreaded(t)
        PROVE  IInv'
    <2>1. Types'
      BY <1>1, <1>2, GetTypes
    <2>2. Users'
      BY <1>1, <1>2, <2>1, GetUsers
    <2>3. Owners'
      BY <1>1, <1>2, <2>1, GetOwners
    <2>4. Private'
      BY <1>2, <2>1, GetPrivate
    <2> QED BY <2>1, <2>2, <2>3, <2>4 DEF IInv
  <1>3. ASSUME NEW t \in Threads, Lookup(t) PROVE IInv'
    <2>1. Types'
      BY <1>1, <1>3, LookupTypes
    <2>2. Users'
      BY <1>1, <1>3, LookupUsers
    <2>3. Owners'
      BY <1>1, <1>3, <2>1, LookupOwners
    <2>4. Private'
      BY <1>3, <2>1, LookupPrivate
    <2> QED BY <2>1, <2>2, <2>3, <2>4 DEF IInv
  <1>4. ASSUME UNCHANGED vars PROVE IInv'
    <2>1. UNCHANGED <<trace_cache_once_happen, global_cache, tls_cache, users, caches, arrays,
                      owner, pc, cache, rip, i, cache_size, slot, frame, addr, new_log_size,
                      new_frames, frame_info, lookups>>
      BY <1>4 DEF vars, shared, table, looking, expanding
    <2>2. Types'
      BY <1>1, <2>1 DEF Types, GlobalTypes, LocalTypes
    <2>3. Users'
      BY <1>1, <2>1 DEF Users
    <2>4. Owners'
      BY <1>1, <2>1 DEF Owners
    <2>5. ASSUME NEW t \in Threads, NEW c \in 1..Len(caches'), users'[c] = {t}
          PROVE  Alone(t, c)'
      <3>1. Alone(t, c)
        BY <1>1, <2>1, <2>5 DEF Private
      <3>2. Same(t)
        BY <2>1 DEF Same
      <3> QED BY <2>1, <3>1, <3>2, Unaffected
    <2>6. Private'
      BY <2>5 DEF Private
    <2> QED BY <2>2, <2>3, <2>4, <2>6 DEF IInv
  <1> QED BY <1>2, <1>3, <1>4 DEF Next, Done

\* No thread reaches a cache it was not given or an array of a cache it does not use,
\* and the only user of a cache finds its table in order at every step of trace_lookup.
THEOREM Invariance == Spec => []IInv
  <1> QED BY InitInv, NextInv, PTL DEF Spec

\* Unshared means one user.
LEMMA UnsharedUser ==
  ASSUME IInv, NEW c \in 1..Len(caches), Unshared(c)
  PROVE  \E t \in Threads : users[c] = {t}
  <1>1. IsFiniteSet(users[c]) /\ users[c] \subseteq Threads
    BY DEF IInv, Types, GlobalTypes, Users
  <1>2. PICK x : users[c] = {x}
    BY <1>1, FS_Singleton DEF Unshared
  <1> QED BY <1>1, <1>2

\* The frame that trace_lookup returns is the one of the address looked for, and its
\* properties were computed for this address: the assertion of Gtrace.c:450 holds in a
\* cache with one user, whatever the hash function, the tables' sizes, the order of the
\* lookups and the steps of other threads.
THEOREM FrameCorrect == Spec => []FrameIsOfTheAddress
  <1>1. IInv => FrameIsOfTheAddress
    <2> SUFFICES ASSUME IInv, NEW t \in Threads, pc[t] = "use", Unshared(cache[t])
                 PROVE  /\ At(frame[t]).virtual_address = rip[t]
                        /\ At(frame[t]).properties \in {0, rip[t]}
      BY DEF FrameIsOfTheAddress
    <2>1. cache[t] \in 1..Len(caches) /\ t \in users[cache[t]]
      BY CacheType DEF IInv, Tracing, Looking
    <2>2. users[cache[t]] = {t}
      BY <2>1, UnsharedUser
    <2>3. PICK c \in 1..Len(caches) : c = cache[t]
      BY <2>1
    <2>4. PICK h : h = arrays[caches[c].frames]
      OBVIOUS
    <2>5. PICK n : n = Size(caches[c].log_size)
      OBVIOUS
    <2>6. Ok(h, n) /\ Knows(t, h, n) /\ Expands(t, c)
      BY <2>2, <2>3, <2>4, <2>5 DEF IInv, Private, Alone
    <2>7. Holds(h, frame[t][2], rip[t]) /\ frame[t][1] = caches[c].frames
      BY <2>6 DEF Knows, Expands, Pointing
    <2>8. At(frame[t]) = h[frame[t][2]]
      BY <2>4, <2>7 DEF At, Holds
    <2> QED BY <2>6, <2>7, <2>8 DEF Holds, Ok, Honest
  <1> QED BY <1>1, Invariance, PTL

\* The count of a cache with one user is exact, and half of its table is empty,
\* whenever its user is not between counting or growing and filling the slot.
THEOREM HalfEmptyCorrect == Spec => []HalfEmpty
  <1>1. IInv => HalfEmpty
    <2> SUFFICES ASSUME IInv, NEW c \in DOMAIN caches, Unshared(c), Settled(c)
                 PROVE  /\ caches[c].used = Cardinality(DOMAIN Slots(c))
                        /\ 2 * caches[c].used <= Size(caches[c].log_size)
      BY DEF HalfEmpty
    <2>1. c \in 1..Len(caches)
      BY DEF IInv, Types, GlobalTypes
    <2>2. PICK t \in Threads : users[c] = {t}
      BY <2>1, UnsharedUser
    <2>3. Alone(t, c)
      BY <2>1, <2>2 DEF IInv, Private
    <2>4. cache[t] = c => pc[t] \notin {"set_log", "set_used", "fill"}
      BY DEF Settled
    <2> QED BY <2>3, <2>4 DEF Alone, Counts, Slots
  <1> QED BY <1>1, Invariance, PTL

\* Every frame of a cache with one user is reached by the probing of trace_lookup, and
\* no address has two.
THEOREM FoundAgainCorrect == Spec => []FoundAgain
  <1>1. IInv => FoundAgain
    <2> SUFFICES ASSUME IInv, NEW c \in DOMAIN caches, Unshared(c), Settled(c),
                        NEW s \in DOMAIN Slots(c)
                 PROVE  LET slots == Slots(c)
                            size == Size(caches[c].log_size)
                            home == Hash[slots[s].virtual_address]
                        IN /\ \E k \in 0..(MaxProbes - 1) :
                                /\ s = (home + k) % size
                                /\ \A j \in 0..k : (home + j) % size \in DOMAIN slots
                           /\ \A u \in DOMAIN slots :
                                slots[u].virtual_address = slots[s].virtual_address => u = s
      BY DEF FoundAgain
    <2>1. c \in 1..Len(caches)
      BY DEF IInv, Types, GlobalTypes
    <2>2. PICK t \in Threads : users[c] = {t}
      BY <2>1, UnsharedUser
    <2>3. Ok(Slots(c), Size(caches[c].log_size))
      BY <2>1, <2>2 DEF IInv, Private, Alone, Slots
    <2>4. PICK k \in 0..(MaxProbes - 1) : ReachedAt(Slots(c), Size(caches[c].log_size), s, k)
      BY <2>3 DEF Ok, Reached
    <2>5. Unique(Slots(c))
      BY <2>3 DEF Ok
    <2> QED BY <2>4, <2>5 DEF ReachedAt, Probed, Unique
  <1> QED BY <1>1, Invariance, PTL
=============================================================================
