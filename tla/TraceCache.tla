---------------------------- MODULE TraceCache ----------------------------
(***************************************************************************)
(* The cache of frame properties behind tdep_trace (Gtrace.c), by which    *)
(* unw_backtrace avoids unw_step: a hash table with linear probing that    *)
(* grows by two bits and is emptied when it does.                          *)
(*                                                                         *)
(* Every access to a cache is a step of its own, since trace_cache_get     *)
(* gives one cache to many threads.  What trace_init_lock protects is      *)
(* touched inside it only, so that a critical section is one step.  The    *)
(* properties of a frame are the address they were computed for (0: not    *)
(* known), and its address is the rip (0: an empty slot).                  *)
(***************************************************************************)
EXTENDS Integers, Sequences, FiniteSets

CONSTANTS Threads,
          Rips,        \* code addresses
          Hash,        \* the product of trace_lookup, shifted
          MinBits,     \* HASH_MIN_BITS, 14
          MaxBits,     \* bound on log_size
          MaxProbes,   \* 16
          MaxLookups,  \* bound on the frames each thread looks up
          MaxCaches    \* bound on the caches created

ASSUME TraceAssumption ==
  /\ Rips \subseteq Nat \ {0}
  /\ Hash \in [Rips -> Nat]
  /\ {MinBits, MaxBits, MaxProbes, MaxCaches} \subseteq Nat
  /\ MaxLookups \in [Threads -> Nat]
  /\ MinBits > 0 /\ MinBits <= MaxBits /\ MaxProbes > 0

Size(log) == 2 ^ log

\* A table has two slots at least.  That is arithmetic, of which the provers know
\* nothing for an exponentiation.
ASSUME SizeAssumption == \A log \in MinBits..MaxBits : Size(log) \in Nat \ {0, 1}

VARIABLES
  trace_cache_once_happen,
  global_cache, \* of trace_cache_get_unthreaded, 0 for NULL
  tls_cache,    \* per thread, 0 for NULL
  caches,       \* the unw_trace_cache_t objects, in the order of their creation
  arrays,       \* the arrays of buckets: the slots that are not empty
  pc,
  cache,        \* the locals of each thread's tdep_trace,
  rip,
  i,            \* of its trace_lookup,
  cache_size,
  slot,
  frame,        \* a pointer: an array and a slot of it
  addr,
  new_log_size, \* of its trace_cache_expand,
  new_frames,
  frame_info,   \* and what its cursor remembers of a frame
  lookups,      \* history: frames looked up by each thread
  users,        \* history: the threads that were given each cache
  owner         \* history: the cache each array was allocated for

shared == <<trace_cache_once_happen, global_cache, tls_cache, users>>
table == <<caches, arrays, owner>>
looking == <<rip, i, cache_size, slot, frame, addr>>
expanding == <<new_log_size, new_frames>>
vars == <<shared, table, pc, cache, looking, expanding, frame_info, lookups>>

Init ==
  /\ trace_cache_once_happen = 0
  /\ global_cache = 0
  /\ tls_cache = [t \in Threads |-> 0]
  /\ caches = <<>>
  /\ arrays = <<>>
  /\ pc = [t \in Threads |-> "idle"]
  /\ cache = [t \in Threads |-> 0]
  /\ rip = [t \in Threads |-> 0]
  /\ i = [t \in Threads |-> 0]
  /\ cache_size = [t \in Threads |-> 0]
  /\ slot = [t \in Threads |-> 0]
  /\ frame = [t \in Threads |-> <<0, 0>>]
  /\ addr = [t \in Threads |-> 0]
  /\ new_log_size = [t \in Threads |-> 0]
  /\ new_frames = [t \in Threads |-> 0]
  /\ frame_info = [t \in Threads |-> 0]
  /\ lookups = [t \in Threads |-> 0]
  /\ users = <<>>
  /\ owner = <<>>
-----------------------------------------------------------------------------
EmptyFrame == [virtual_address |-> 0, properties |-> 0]
NoSlots == [s \in {} |-> EmptyFrame]

Panicked == \E t \in Threads : pc[t] = "panic"

Goto(t, from, to) ==
  /\ pc[t] = from
  /\ ~Panicked
  /\ pc' = [pc EXCEPT ![t] = to]

\* The slot that f = <<array, slot>> points to.
At(f) ==
  LET slots == arrays[f[1]]
  IN IF f[2] \in DOMAIN slots THEN slots[f[2]] ELSE EmptyFrame

Put(slots, s, value) ==
  [x \in DOMAIN slots \cup {s} |-> IF x = s THEN value ELSE slots[x]]

Write(f, value) == arrays' = [arrays EXCEPT ![f[1]] = Put(arrays[f[1]], f[2], value)]

\* An array of empty slots for cache c, the last one of arrays'.
trace_cache_buckets(c) ==
  /\ arrays' = Append(arrays, NoSlots)
  /\ owner' = Append(owner, c)

\* The new cache is the last one of caches'.
trace_cache_create(t) ==
  /\ Len(caches) < MaxCaches
  /\ trace_cache_buckets(Len(caches) + 1)
  /\ caches' = Append(caches, [frames |-> Len(arrays) + 1, log_size |-> MinBits, used |-> 0])
  /\ users' = Append(users, {t})

UseCache(t, c) == cache' = [cache EXCEPT ![t] = c]
-----------------------------------------------------------------------------
\* tdep_trace is called.
Call(t) ==
  /\ lookups[t] < MaxLookups[t]
  /\ Goto(t, "idle", "get")
  /\ UNCHANGED <<shared, table, cache, looking, expanding, frame_info, lookups>>

\* trace_cache_get: the test is made without the lock.
trace_cache_get(t) ==
  /\ Goto(t, "get", IF trace_cache_once_happen = 0 THEN "init_once" ELSE "unthreaded")
  /\ UNCHANGED <<shared, table, cache, looking, expanding, frame_info, lookups>>

trace_cache_init_once(t) ==
  /\ Goto(t, "init_once", "tls")
  /\ trace_cache_once_happen' = 1
  /\ UNCHANGED <<global_cache, tls_cache, users, table, cache, looking, expanding, frame_info, lookups>>

GetTls(t) ==
  /\ Goto(t, "tls", "trace")
  /\ \/ /\ tls_cache[t] # 0
        /\ UseCache(t, tls_cache[t])
        /\ UNCHANGED <<tls_cache, users, table>>
     \/ /\ tls_cache[t] = 0
        /\ trace_cache_create(t)
        /\ UseCache(t, Len(caches) + 1)
        /\ tls_cache' = [tls_cache EXCEPT ![t] = Len(caches) + 1]
  /\ UNCHANGED <<trace_cache_once_happen, global_cache, looking, expanding, frame_info, lookups>>

trace_cache_get_unthreaded(t) ==
  /\ Goto(t, "unthreaded", "trace")
  /\ \/ /\ global_cache # 0
        /\ UseCache(t, global_cache)
        /\ users' = [users EXCEPT ![global_cache] = users[global_cache] \cup {t}]
        /\ UNCHANGED <<global_cache, table>>
     \/ /\ global_cache = 0
        /\ trace_cache_create(t)
        /\ UseCache(t, Len(caches) + 1)
        /\ global_cache' = Len(caches) + 1
  /\ UNCHANGED <<trace_cache_once_happen, tls_cache, looking, expanding, frame_info, lookups>>
-----------------------------------------------------------------------------
Slot(r, size) == Hash[r] % size

\* trace_lookup, for the next frame of the stack.
trace_lookup(t) ==
  /\ Goto(t, "trace", "probe")
  /\ \E r \in Rips :
       LET size == Size(caches[cache[t]].log_size)
       IN /\ rip' = [rip EXCEPT ![t] = r]
          /\ i' = [i EXCEPT ![t] = 0]
          /\ cache_size' = [cache_size EXCEPT ![t] = size]
          /\ slot' = [slot EXCEPT ![t] = Slot(r, size)]
  /\ lookups' = [lookups EXCEPT ![t] = lookups[t] + 1]
  /\ UNCHANGED <<shared, table, cache, frame, addr, expanding, frame_info>>

\* Mutant: any frame is the one looked for.
FoundAny(t, va) == va # 0

Found(t, va) == va = rip[t]

\* if (++slot >= cache_size) slot -= cache_size;
NextSlot(s, size) == IF s + 1 >= size THEN s + 1 - size ELSE s + 1

Probe(t) ==
  /\ pc[t] = "probe"
  /\ LET f == <<caches[cache[t]].frames, slot[t]>>
         va == At(f).virtual_address
     IN /\ frame' = [frame EXCEPT ![t] = f]
        /\ addr' = [addr EXCEPT ![t] = va]
        /\ \/ /\ Found(t, va)
              /\ Goto(t, "probe", "use")
              /\ UNCHANGED <<i, slot>>
           \/ /\ ~Found(t, va) /\ va = 0
              /\ Goto(t, "probe", "decide")
              /\ UNCHANGED <<i, slot>>
           \/ /\ ~Found(t, va) /\ va # 0
              /\ Goto(t, "probe", IF i[t] + 1 < MaxProbes THEN "probe" ELSE "decide")
              /\ i' = [i EXCEPT ![t] = i[t] + 1]
              /\ slot' = [slot EXCEPT ![t] = NextSlot(slot[t], cache_size[t])]
  /\ UNCHANGED <<shared, table, cache, rip, cache_size, expanding, frame_info, lookups>>

\* if (addr || cache->used >= cache_size / 2)
MustExpand(t) == addr[t] # 0 \/ caches[cache[t]].used >= cache_size[t] \div 2

Decide(t) ==
  /\ Goto(t, "decide", IF MustExpand(t) THEN "expand" ELSE "insert")
  /\ UNCHANGED <<shared, table, cache, looking, expanding, frame_info, lookups>>

\* trace_cache_expand; the old array is not freed.
trace_cache_expand(t) ==
  /\ Goto(t, "expand", "set_frames")
  /\ caches[cache[t]].log_size + 2 <= MaxBits
  /\ new_log_size' = [new_log_size EXCEPT ![t] = caches[cache[t]].log_size + 2]
  /\ trace_cache_buckets(cache[t])
  /\ new_frames' = [new_frames EXCEPT ![t] = Len(arrays) + 1]
  /\ UNCHANGED <<shared, caches, cache, looking, frame_info, lookups>>

SetFrames(t) ==
  /\ Goto(t, "set_frames", "set_log")
  /\ LET c == caches[cache[t]]
     IN caches' = [caches EXCEPT ![cache[t]] =
                     [frames |-> new_frames[t], log_size |-> c.log_size, used |-> c.used]]
  /\ UNCHANGED <<shared, arrays, owner, cache, looking, expanding, frame_info, lookups>>

SetLogSize(t) ==
  /\ Goto(t, "set_log", "set_used")
  /\ LET c == caches[cache[t]]
     IN caches' = [caches EXCEPT ![cache[t]] =
                     [frames |-> c.frames, log_size |-> new_log_size[t], used |-> c.used]]
  /\ UNCHANGED <<shared, arrays, owner, cache, looking, expanding, frame_info, lookups>>

\* Mutant: the count is kept.
UsedKept(t) == caches[cache[t]].used

UsedAfterExpand(t) == 0

SetUsed(t) ==
  /\ Goto(t, "set_used", "rehash")
  /\ LET c == caches[cache[t]]
     IN caches' = [caches EXCEPT ![cache[t]] =
                     [frames |-> c.frames, log_size |-> c.log_size,
                      used |-> UsedAfterExpand(t)]]
  /\ UNCHANGED <<shared, arrays, owner, cache, looking, expanding, frame_info, lookups>>

\* Mutant: the slot of the smaller table is filled.
RehashedSame(t, size) == slot[t]

Rehashed(t, size) == Slot(rip[t], size)

Rehash(t) ==
  /\ Goto(t, "rehash", "insert")
  /\ LET size == Size(caches[cache[t]].log_size)
         f == <<caches[cache[t]].frames, Rehashed(t, size)>>
     IN /\ cache_size' = [cache_size EXCEPT ![t] = size]
        /\ slot' = [slot EXCEPT ![t] = f[2]]
        /\ frame' = [frame EXCEPT ![t] = f]
        /\ addr' = [addr EXCEPT ![t] = At(f).virtual_address]
  /\ UNCHANGED <<shared, table, cache, rip, i, expanding, frame_info, lookups>>

\* if (! addr) ++cache->used;
Insert(t) ==
  /\ Goto(t, "insert", "fill")
  /\ \/ addr[t] # 0 /\ UNCHANGED caches
     \/ /\ addr[t] = 0
        /\ LET c == caches[cache[t]]
           IN caches' = [caches EXCEPT ![cache[t]] =
                           [frames |-> c.frames, log_size |-> c.log_size,
                            used |-> c.used + 1]]
  /\ UNCHANGED <<shared, arrays, owner, cache, looking, expanding, frame_info, lookups>>

\* trace_init_addr: unknown properties first,
Fill(t) ==
  /\ Goto(t, "fill", "copy")
  /\ Write(frame[t], [virtual_address |-> rip[t], properties |-> 0])
  /\ UNCHANGED <<shared, caches, owner, cache, looking, expanding, frame_info, lookups>>

\* then c->frame_info = *f,
Copy(t) ==
  /\ Goto(t, "copy", "step")
  /\ frame_info' = [frame_info EXCEPT ![t] = At(frame[t]).virtual_address]
  /\ UNCHANGED <<shared, table, cache, looking, expanding, lookups>>

\* and a step of the cursor, which fails or gives the properties of the frame at rip.
StepAndStore(t) ==
  /\ Goto(t, "step", "use")
  /\ \/ UNCHANGED arrays
     \/ Write(frame[t], [virtual_address |-> frame_info[t], properties |-> rip[t]])
  /\ UNCHANGED <<shared, caches, owner, cache, looking, expanding, frame_info, lookups>>

\* assert (f->virtual_address == rip), and on to the next frame or out.
Use(t) ==
  /\ pc[t] = "use"
  /\ LET right == At(frame[t]).virtual_address = rip[t]
     IN \/ ~right /\ Goto(t, "use", "panic")
        \/ right /\ Goto(t, "use", "idle")
        \/ right /\ lookups[t] < MaxLookups[t] /\ Goto(t, "use", "trace")
  /\ UNCHANGED <<shared, table, cache, looking, expanding, frame_info, lookups>>

Lookup(t) ==
  \/ trace_lookup(t) \/ Probe(t) \/ Decide(t) \/ trace_cache_expand(t) \/ SetFrames(t)
  \/ SetLogSize(t) \/ SetUsed(t) \/ Rehash(t) \/ Insert(t)
  \/ Fill(t) \/ Copy(t) \/ StepAndStore(t) \/ Use(t)

Done ==
  /\ \A t \in Threads : pc[t] = "idle" /\ lookups[t] = MaxLookups[t]
  /\ UNCHANGED vars

Next ==
  \/ \E t \in Threads :
       \/ Call(t) \/ trace_cache_get(t) \/ trace_cache_init_once(t) \/ GetTls(t)
       \/ trace_cache_get_unthreaded(t)
       \/ Lookup(t)
  \/ Panicked /\ UNCHANGED vars
  \/ Done

Spec == Init /\ [][Next]_vars
-----------------------------------------------------------------------------
\* No other thread was given the cache.
Unshared(c) == Cardinality(users[c]) = 1

Slots(c) == arrays[caches[c].frames]

\* No thread is between counting a frame, or growing the table, and filling the slot.
Settled(c) ==
  \A t \in Threads :
    cache[t] = c =>
      pc[t] \notin {"set_frames", "set_log", "set_used", "rehash", "insert", "fill"}

\* The frame that trace_lookup hands to tdep_trace is the one of the address looked
\* for (the assertion of Gtrace.c:450), and what a slot says of a frame was computed
\* for its address, in a cache that one thread has to itself.
FrameIsOfTheAddress ==
  \A t \in Threads :
    pc[t] = "use" /\ Unshared(cache[t]) =>
      LET f == At(frame[t])
      IN f.virtual_address = rip[t] /\ f.properties \in {0, rip[t]}

\* used counts the slots that are taken, and at least half of the table is empty, as
\* "it is very important the hash table does not fill up" (Gtrace.c:271-273): through
\* collisions, growth and refilling, in an unshared cache.
HalfEmpty ==
  \A c \in DOMAIN caches :
    Unshared(c) /\ Settled(c) =>
      /\ caches[c].used = Cardinality(DOMAIN Slots(c))
      /\ 2 * caches[c].used <= Size(caches[c].log_size)

\* The probing of trace_lookup (Gtrace.c:279-298) reaches every frame of an unshared
\* cache, past no empty slot, and no address has two frames: nothing is computed
\* twice in a table.
FoundAgain ==
  \A c \in DOMAIN caches :
    Unshared(c) /\ Settled(c) =>
      LET slots == Slots(c)
          size == Size(caches[c].log_size)
      IN \A s \in DOMAIN slots :
           LET home == Hash[slots[s].virtual_address]
           IN /\ \E k \in 0..(MaxProbes - 1) :
                   /\ s = (home + k) % size
                   /\ \A j \in 0..k : (home + j) % size \in DOMAIN slots
              /\ \A u \in DOMAIN slots :
                   slots[u].virtual_address = slots[s].virtual_address => u = s
=============================================================================
