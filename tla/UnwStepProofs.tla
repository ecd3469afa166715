--------------------------- MODULE UnwStepProofs ---------------------------
(***************************************************************************)
(* The proof that the walk of a stack by unw_step prints the call chain of *)
(* a stack with frame pointers, and that the heuristic for the end of the  *)
(* chain judges its first frame only, for any memory, code and word size.  *)
(***************************************************************************)
EXTENDS UnwStep, SequenceTheorems, TLAPS

\* What the assumption says of the memory, which the walk only reads.
Memory ==
  /\ DOMAIN mem \subseteq (MaxGap + 1)..(Words - 1)
  /\ Ips \cup {UcRip, UcRsp, UcRbp} \subseteq DOMAIN mem
  /\ \A a \in DOMAIN mem : mem[a] \in Word
  /\ calls \in Seq(Ips) /\ Len(calls) <= MaxDepth /\ fps \in Seq(Word)

Types ==
  /\ ip \in Word /\ cfa \in Word
  /\ loc.RBP \in Word /\ loc.RIP \in Word
  /\ pc \in {"step", "fallback", "done", "fault"}
  /\ trace \in Seq(Word)

\* How far the walk of a proper stack is: at the n-th frame of the chain it has printed n
\* return addresses, its frame pointer is where the n-th function saved it, and the next
\* one is accepted by the heuristic.
Progress(n) ==
  /\ Len(trace) = n /\ n <= Len(calls)
  /\ \A j \in 1..n : trace[j] = calls[j]
  /\ ip = (IF n = 0 THEN mem[UcRip] ELSE calls[n])
  /\ loc.RBP = (IF n = 0 THEN UcRbp ELSE fps[n])
  /\ n < Len(calls) => InChain(fps[n + 1])

ChainInv ==
  Proper =>
    /\ pc # "fault"
    /\ pc \in {"step", "fallback"} => \E n \in Nat : Progress(n)
    /\ pc = "done" => trace = calls /\ ret = 0

IInv == Memory /\ Types /\ HeuristicJudgesOnce /\ ChainInv
-----------------------------------------------------------------------------
LEMMA LocsFields ==
  ASSUME NEW a, NEW b
  PROVE  Locs(a, b).RBP = a /\ Locs(a, b).RIP = b
BY DEF Locs

\* Addition wraps around at the end of the address space only.
LEMMA AddSmall ==
  ASSUME NEW a \in Int, NEW b \in Int, a + b \in Word
  PROVE  Add(a, b) = a + b
<1>1. Words \in Nat \ {0} /\ a + b >= 0 /\ a + b < Words
  BY StepAssumption DEF Word
<1>2. \A x \in Nat : x < Words => x % Words = x
  BY <1>1
<1> QED BY <1>1, <1>2 DEF Add

LEMMA AddNegative ==
  ASSUME NEW a \in Int, NEW b \in Int, a + b < 0, a + b + Words >= 0
  PROVE  Add(a, b) = a + b + Words
<1>1. Words \in Nat \ {0}
  BY StepAssumption
<1>2. \A x \in Int : x < 0 /\ x + Words >= 0 => x % Words = x + Words
  BY <1>1
<1> QED BY <1>1, <1>2 DEF Add

LEMMA AddType ==
  ASSUME NEW a \in Int, NEW b \in Int
  PROVE  Add(a, b) \in Word
BY StepAssumption DEF Add, Word

\* The CFA moves with the frame pointer: the distance the heuristic judges stays the same.
LEMMA DistanceKept ==
  ASSUME Memory, Types, NEW rbp, Mapped(rbp), Mapped(mem[rbp]), InChain(rbp)
  PROVE  /\ ChainCfa(rbp) = cfa + mem[rbp] - rbp
         /\ mem[rbp] > ChainCfa(rbp) /\ mem[rbp] - ChainCfa(rbp) <= MaxGap
<1>1. /\ rbp \in Nat /\ mem[rbp] \in Nat /\ cfa \in Nat /\ MaxGap \in Nat /\ Words \in Nat
      /\ mem[rbp] > MaxGap /\ mem[rbp] < Words
      /\ rbp > cfa /\ rbp - cfa <= MaxGap
  BY StepAssumption DEF Memory, Types, Word, Mapped, InChain
<1>2. cfa + (mem[rbp] - rbp) \in Word /\ mem[rbp] - rbp \in Int /\ cfa \in Int
  BY <1>1 DEF Word
<1>3. ChainCfa(rbp) = cfa + (mem[rbp] - rbp)
  BY <1>2, AddSmall DEF ChainCfa
<1> QED BY <1>1, <1>3

\* At the last function of a chain, whose caller has no frame pointer, the CFA moves too.
LEMMA CfaMoves ==
  ASSUME Memory, Types, NEW rbp, Mapped(rbp), InChain(rbp),
         mem[rbp] = 0 \/ Mapped(mem[rbp]), mem[rbp] # rbp
  PROVE  ChainCfa(rbp) # cfa
<1>1. /\ rbp \in Nat /\ mem[rbp] \in Nat /\ cfa \in Nat /\ MaxGap \in Nat /\ Words \in Nat
      /\ MaxGap < Words /\ rbp > MaxGap /\ rbp < Words
      /\ rbp > cfa /\ rbp - cfa <= MaxGap
  BY StepAssumption DEF Memory, Types, Word, Mapped, InChain
<1>2. CASE mem[rbp] = 0
  <2>1. cfa + (0 - rbp) < 0 /\ cfa + (0 - rbp) + Words >= 0
    BY <1>1
  <2>2. ChainCfa(rbp) = cfa + (0 - rbp) + Words
    BY <1>1, <1>2, <2>1, AddNegative DEF ChainCfa
  <2> QED BY <1>1, <2>2
<1>3. CASE Mapped(mem[rbp])
  <2>1. ChainCfa(rbp) = cfa + mem[rbp] - rbp
    BY <1>3, DistanceKept
  <2> QED BY <1>1, <2>1
<1> QED BY <1>2, <1>3
-----------------------------------------------------------------------------
\* unw_step returns with well-typed registers.
LEMMA ReturnsTypes ==
  ASSUME Memory, Types, NEW r, NEW newip \in Word, NEW newcfa \in Word, NEW newloc,
         newloc.RBP \in Word, newloc.RIP \in Word, NEW how,
         Returns(r, newip, newcfa, newloc, how)
  PROVE  Memory' /\ Types' /\ pc' \in {"step", "done"} /\ last' = how /\ loc' = newloc /\ cfa' = newcfa
<1>1. Memory'
  BY DEF Memory, Returns
<1>2. pc' \in {"step", "done"}
  BY DEF Returns, WalksOn
<1>3. trace' \in Seq(Word)
  BY AppendProperties DEF Returns, Types
<1>4. ip' = newip /\ cfa' = newcfa /\ loc' = newloc /\ last' = how
  BY DEF Returns
<1> QED BY <1>1, <1>2, <1>3, <1>4 DEF Types

LEMMA FinishTypes ==
  ASSUME Memory, Types, NEW newloc, newloc.RBP \in Word, newloc.RIP \in Word,
         NEW newip \in Word, NEW newcfa \in Word, NEW sofar, NEW how,
         Finish(newloc, newip, newcfa, sofar, how)
  PROVE  Memory' /\ Types' /\ pc' \in {"step", "done"} /\ last' = how /\ loc' = newloc /\ cfa' = newcfa
<1>1. CASE newloc.RBP = 0
  <2>1. Returns(0, newip, newcfa, newloc, how)
    BY <1>1 DEF Finish
  <2> QED BY <2>1, ReturnsTypes
<1>2. CASE newloc.RBP # 0
  <2> DEFINE next == IF newloc.RIP = 0 THEN 0 ELSE mem[newloc.RIP]
  <2>1. ~Faults(newloc.RIP) /\ \E r : Returns(r, next, newcfa, newloc, how)
    BY <1>2 DEF Finish
  <2>2. next \in Word
    BY <2>1, StepAssumption DEF Faults, Mapped, Memory, Word
  <2> HIDE DEF next
  <2> QED BY <2>1, <2>2, ReturnsTypes
<1> QED BY <1>1, <1>2

LEMMA FaultTypes ==
  ASSUME Memory, Types, NEW how, Fault(how)
  PROVE  Memory' /\ Types' /\ pc' = "fault"
BY DEF Fault, Memory, Types

\* Words that memory and the registers hold.
LEMMA WordTypes ==
  ASSUME Memory, Types
  PROVE  /\ 0 \in Word /\ cfa \in Word /\ cfa \in Int /\ ip \in Word
         /\ \A a : Mapped(a) => a \in Word /\ a # 0 /\ a \in Int /\ mem[a] \in Word /\ mem[a] \in Int
         /\ \A a \in Int : Add(cfa, a) \in Word
         /\ {SigRsp, SigRbp, SigRip, 1} \subseteq Int
<1>1. 0 \in Word /\ cfa \in Word /\ cfa \in Int /\ ip \in Word
  BY StepAssumption DEF Types, Word
<1>2. ASSUME NEW a, Mapped(a)
      PROVE  a \in Word /\ a # 0 /\ a \in Int /\ mem[a] \in Word /\ mem[a] \in Int
  BY <1>2, StepAssumption DEF Memory, Mapped, Word
<1>3. \A a \in Int : Add(cfa, a) \in Word
  BY <1>1, AddType
<1>4. {SigRsp, SigRbp, SigRip, 1} \subseteq Int
  BY StepAssumption
<1> QED BY <1>1, <1>2, <1>3, <1>4

\* A step through a signal frame, a system call or a PLT entry leaves no chain behind.
LEMMA OtherFrames ==
  ASSUME Memory, Types, SignalFrame \/ SyscallFrame \/ PltEntry
  PROVE  Memory' /\ Types' /\ (pc' = "step" => last' # "chain")
<1>1. CASE SignalFrame
  <2> DEFINE rsp == Add(cfa, SigRsp)
             locs == Locs(Add(cfa, SigRbp), Add(cfa, SigRip))
  <2>0. locs.RBP \in Word /\ locs.RIP \in Word
    BY WordTypes, LocsFields
  <2>1. CASE Returns(0, ip, cfa, loc, "signal")
    BY <2>1, ReturnsTypes DEF Types
  <2>2. CASE Fault("signal")
    BY <2>2, FaultTypes
  <2>3. CASE Mapped(rsp) /\ Finish(locs, ip, mem[rsp], 0, "signal")
    <3>1. mem[rsp] \in Word /\ ip \in Word
      BY <2>3, WordTypes
    <3> HIDE DEF rsp, locs
    <3> QED BY <2>0, <2>3, <3>1, FinishTypes
  <2> QED BY <1>1, <2>1, <2>2, <2>3 DEF SignalFrame
<1>2. CASE SyscallFrame
  <2>1. CASE Returns(0, ip, cfa, Locs(loc.RBP, 0), "syscall")
    <3>1. Locs(loc.RBP, 0).RBP \in Word /\ Locs(loc.RBP, 0).RIP \in Word
      BY WordTypes, LocsFields DEF Types
    <3> QED BY <2>1, <3>1, ReturnsTypes, WordTypes
  <2>2. CASE Fault("syscall")
    BY <2>2, FaultTypes
  <2>3. CASE Mapped(cfa) /\ Finish(Locs(loc.RBP, cfa), mem[cfa], Add(cfa, 1), 1, "syscall")
    <3>1. Locs(loc.RBP, cfa).RBP \in Word /\ Locs(loc.RBP, cfa).RIP \in Word
      BY WordTypes, LocsFields DEF Types
    <3>2. mem[cfa] \in Word /\ Add(cfa, 1) \in Word
      BY <2>3, WordTypes
    <3> QED BY <2>3, <3>1, <3>2, FinishTypes
  <2> QED BY <1>2, <2>1, <2>2, <2>3 DEF SyscallFrame
<1>3. CASE PltEntry
  <2>0. Locs(loc.RBP, cfa).RBP \in Word /\ Locs(loc.RBP, cfa).RIP \in Word
    BY WordTypes, LocsFields DEF Types
  <2>1. CASE Fault("plt")
    BY <2>1, FaultTypes
  <2>2. CASE Finish(Locs(loc.RBP, cfa), ip, Add(cfa, 1), ENOINFO, "plt")
    <3>1. ip \in Word /\ Add(cfa, 1) \in Word
      BY WordTypes
    <3> QED BY <2>0, <2>2, <3>1, FinishTypes
  <2> QED BY <1>3, <2>1, <2>2 DEF PltEntry
<1> QED BY <1>1, <1>2, <1>3

\* The frame pointer FrameChain reads, and the locations it makes of it.
ChainRbp == IF loc.RBP = 0 THEN 0 ELSE mem[loc.RBP]
ChainLocs == IF InChain(ChainRbp) THEN Locs(ChainRbp, Add(ChainRbp, 1)) ELSE NullLocs

\* The outcomes of a step along the chain.
LEMMA ChainCases ==
  ASSUME FrameChain
  PROVE  \/ Fault("chain")
         \/ ChainRbp = 0 /\ Finish(NullLocs, ip, cfa, 0, "chain")
         \/ Mapped(ChainRbp) /\ Finish(ChainLocs, ip, ChainCfa(ChainRbp), 0, "chain")
BY DEF FrameChain, ChainRbp, ChainLocs

LEMMA ChainTypes ==
  ASSUME Memory, Types, Mapped(ChainRbp)
  PROVE  /\ ChainLocs.RBP \in Word /\ ChainLocs.RIP \in Word
         /\ ChainCfa(ChainRbp) \in Word
<1>1. ChainRbp \in Word /\ ChainRbp \in Int /\ mem[ChainRbp] \in Int /\ cfa \in Int /\ 0 \in Word
  BY WordTypes
<1>2. Add(ChainRbp, 1) \in Word
  BY <1>1, AddType
<1>3. ChainLocs.RBP \in Word /\ ChainLocs.RIP \in Word
  BY <1>1, <1>2, LocsFields DEF ChainLocs, NullLocs
<1>4. mem[ChainRbp] - ChainRbp \in Int
  BY <1>1
<1> QED BY <1>1, <1>3, <1>4, AddType DEF ChainCfa

\* A step along the chain: the next frame pointer is as far from the CFA as this one was.
LEMMA ChainStep ==
  ASSUME Memory, Types, FrameChain
  PROVE  Memory' /\ Types' /\ HeuristicJudgesOnce'
<1>1. CASE Fault("chain")
  BY <1>1, FaultTypes DEF HeuristicJudgesOnce
<1>2. CASE Finish(NullLocs, ip, cfa, 0, "chain")
  <2>1. NullLocs.RBP = 0 /\ NullLocs.RIP = 0 /\ 0 \in Word
    BY LocsFields, WordTypes DEF NullLocs
  <2>2. Memory' /\ Types' /\ loc' = NullLocs
    BY <1>2, <2>1, FinishTypes DEF Types
  <2> QED BY <2>1, <2>2 DEF HeuristicJudgesOnce
<1>3. CASE Mapped(ChainRbp) /\ Finish(ChainLocs, ip, ChainCfa(ChainRbp), 0, "chain")
  <2>1. Memory' /\ Types' /\ loc' = ChainLocs /\ cfa' = ChainCfa(ChainRbp)
    BY <1>3, ChainTypes, WordTypes, FinishTypes
  <2>2. mem' = mem
    BY <1>3 DEF Finish, Returns
  <2>3. CASE InChain(ChainRbp)
    <3>1. loc'.RBP = ChainRbp
      BY <2>1, <2>3, LocsFields DEF ChainLocs
    <3>2. ASSUME Mapped(mem[ChainRbp])
          PROVE  mem[ChainRbp] > cfa' /\ mem[ChainRbp] - cfa' <= MaxGap
      BY <1>3, <2>1, <2>3, <3>2, DistanceKept
    <3> QED BY <2>1, <2>2, <3>1, <3>2 DEF HeuristicJudgesOnce, Mapped, InChain
  <2>4. CASE ~InChain(ChainRbp)
    <3>1. loc'.RBP = 0
      BY <2>1, <2>4, LocsFields DEF ChainLocs, NullLocs
    <3> QED BY <2>1, <3>1 DEF HeuristicJudgesOnce
  <2> QED BY <2>3, <2>4
<1> QED BY <1>1, <1>2, <1>3, ChainCases
-----------------------------------------------------------------------------
\* Where the walk of a proper stack is, the code is plain and has no hole in its unwind
\* information, and the frame pointer is the next one of the chain.
LEMMA ProperFrame ==
  ASSUME Memory, Types, Proper, NEW n \in Nat, Progress(n)
  PROVE  /\ ~Faults(ip) /\ CodeAt(ip) = "plain" /\ Covered(ip) # "hole"
         /\ Mapped(loc.RBP) /\ ~Faults(loc.RBP) /\ ChainRbp = Fp(n + 1)
<1>1. Len(calls) \in Nat /\ Len(fps) = Len(calls) /\ n <= Len(calls)
  BY DEF Memory, Proper, Progress
<1>2. ip \in Ips /\ Code[ip] = "plain" /\ Cover[ip] # "hole"
  BY <1>1 DEF Proper, Progress
<1>3. ~Faults(ip) /\ CodeAt(ip) = "plain" /\ Covered(ip) # "hole"
  BY <1>2 DEF Faults, Mapped, Memory, CodeAt, Covered
<1>4. Mapped(loc.RBP) /\ mem[loc.RBP] = Fp(n + 1)
  <2>1. CASE n = 0
    BY <2>1 DEF Progress, Proper, Memory, Mapped
  <2>2. CASE n # 0
    <3>1. n \in 1..Len(calls)
      BY <1>1, <2>2
    <3> QED BY <3>1, <2>2 DEF Progress, Proper
  <2> QED BY <2>1, <2>2
<1>5. loc.RBP # 0
  BY <1>4, WordTypes
<1> QED BY <1>3, <1>4, <1>5 DEF ChainRbp, Faults

\* A walk at the last function of the chain ends there.
LEMMA ProperEnds ==
  ASSUME Memory, Types, Proper, NEW n \in Nat, Progress(n), n = Len(calls), FrameChain
  PROVE  pc' = "done" /\ trace' = calls /\ ret' = 0
<1>1. ChainRbp = 0 /\ ~Faults(loc.RBP)
  BY ProperFrame DEF Fp, Proper
<1>2. ~Mapped(0) /\ ~Faults(0)
  BY WordTypes DEF Faults
<1>3. Finish(NullLocs, ip, cfa, 0, "chain")
  BY <1>1, <1>2 DEF FrameChain, ChainRbp
<1>4. Returns(0, ip, cfa, NullLocs, "chain")
  BY <1>3, LocsFields DEF Finish, NullLocs
<1>5. pc' = "done" /\ trace' = trace /\ ret' = 0
  BY <1>4 DEF Returns, WalksOn
<1>6. trace = calls
  <2>1. trace \in Seq(Word) /\ calls \in Seq(Word)
    BY StepAssumption DEF Types, Memory
  <2>2. Len(trace) = Len(calls) /\ \A j \in 1..Len(trace) : trace[j] = calls[j]
    BY DEF Progress
  <2> QED BY <2>1, <2>2, SeqEqual
<1> QED BY <1>5, <1>6

\* Anywhere else the walk goes on to the next function of the chain, and prints it.
LEMMA ProperGoesOn ==
  ASSUME Memory, Types, Proper, NEW n \in Nat, Progress(n), n < Len(calls), FrameChain
  PROVE  pc' = "step" /\ Progress(n + 1)'
<1> DEFINE rbp == fps[n + 1]
<1>1. /\ n + 1 \in 1..Len(calls) /\ Len(calls) \in Nat /\ Len(fps) = Len(calls)
      /\ Len(calls) <= MaxDepth /\ MaxDepth \in Nat
  BY StepAssumption DEF Memory, Proper
<1>2. /\ ChainRbp = rbp /\ ~Faults(loc.RBP)
      /\ Mapped(rbp) /\ Mapped(rbp + 1) /\ mem[rbp + 1] = calls[n + 1] /\ mem[rbp] = Fp(n + 2)
      /\ InChain(rbp)
  BY <1>1, ProperFrame DEF Fp, Proper, Progress
<1>3. n + 1 = Len(calls) => mem[rbp] = 0
  BY <1>1, <1>2 DEF Fp
<1>4. n + 1 < Len(calls) =>
        mem[rbp] = fps[n + 2] /\ Mapped(fps[n + 2]) /\ fps[n + 2] # rbp
  <2>1. n + 1 < Len(calls) => n + 2 \in 1..Len(calls) /\ fps[n + 1] < fps[n + 1 + 1]
    BY <1>1 DEF Proper
  <2>2. n + 1 < Len(calls) => Mapped(fps[n + 2]) /\ mem[rbp] = fps[n + 2]
    BY <2>1, <1>1, <1>2 DEF Proper, Fp
  <2> QED BY <2>1, <2>2, <1>2, WordTypes
<1>5. ChainCfa(rbp) # cfa
  <2>1. mem[rbp] = 0 \/ Mapped(mem[rbp])
    BY <1>1, <1>3, <1>4
  <2>2. mem[rbp] # rbp
    BY <1>1, <1>2, <1>3, <1>4, WordTypes
  <2> QED BY <1>2, <2>1, <2>2, CfaMoves
<1>6. Add(rbp, 1) = rbp + 1 /\ ChainLocs = Locs(rbp, rbp + 1) /\ rbp # 0 /\ rbp + 1 # 0
  <2>1. rbp \in Int /\ rbp + 1 \in Word /\ rbp # 0 /\ rbp + 1 # 0
    BY <1>2, WordTypes
  <2>2. Add(rbp, 1) = rbp + 1
    BY <2>1, AddSmall
  <2> QED BY <1>2, <2>1, <2>2 DEF ChainLocs
<1>7. Finish(Locs(rbp, rbp + 1), ip, ChainCfa(rbp), 0, "chain")
  <2>1. ~Faults(rbp) /\ ~FinishFaults(ChainLocs) /\ ChainRbp # 0
    BY <1>2, <1>6, LocsFields DEF Faults, FinishFaults
  <2>2. Finish(ChainLocs, ip, ChainCfa(ChainRbp), 0, "chain")
    BY <1>2, <2>1 DEF FrameChain, ChainRbp, ChainLocs
  <2> QED BY <2>2, <1>2, <1>6
<1>8. Returns(1, calls[n + 1], ChainCfa(rbp), Locs(rbp, rbp + 1), "chain")
  BY <1>2, <1>5, <1>6, <1>7, LocsFields DEF Finish
<1>9. /\ pc' = "step" /\ trace' = Append(trace, calls[n + 1])
      /\ ip' = calls[n + 1] /\ cfa' = ChainCfa(rbp) /\ loc' = Locs(rbp, rbp + 1)
      /\ UNCHANGED <<mem, calls, fps>>
  BY <1>1, <1>8 DEF Returns, WalksOn, Progress
<1>10. loc'.RBP = fps[n + 1]
  BY <1>9, LocsFields
<1>11. Len(trace') = n + 1 /\ \A j \in 1..(n + 1) : trace'[j] = calls[j]
  <2>1. trace \in Seq(Word) /\ calls[n + 1] \in Word
    BY <1>1, StepAssumption DEF Types, Memory
  <2>2. Len(trace) = n /\ \A j \in 1..n : trace[j] = calls[j]
    BY DEF Progress
  <2> QED BY <1>9, <2>1, <2>2, AppendProperties
<1>12. n + 1 < Len(calls) => InChain(fps[n + 2])'
  BY <1>2, <1>4, <1>9, DistanceKept DEF InChain
<1> QED BY <1>1, <1>9, <1>10, <1>11, <1>12 DEF Progress

\* Every step of a walk keeps it on the chain.
LEMMA ChainInvStep == Memory /\ Types /\ ChainInv /\ unw_step => ChainInv'
<1> SUFFICES ASSUME Memory, Types, ChainInv, unw_step, Proper' PROVE ChainInv'
  BY DEF ChainInv
<1>1. UNCHANGED <<mem, calls, fps>>
  BY DEF unw_step, dwarf_step, CodeFault, SignalFrame, SyscallFrame, PltEntry, FrameChain,
         Finish, Returns, Fault
<1>2. Proper
  BY <1>1 DEF Proper, Fp, Mapped
<1>3. pc \in {"step", "fallback"}
  BY DEF unw_step, dwarf_step, CodeFault, SignalFrame, SyscallFrame, PltEntry, FrameChain,
         ReadsCode
<1>4. PICK n \in Nat : Progress(n)
  BY <1>2, <1>3 DEF ChainInv
<1>5. /\ ~Faults(ip) /\ CodeAt(ip) = "plain" /\ Covered(ip) # "hole"
      /\ Mapped(loc.RBP) /\ ~Faults(loc.RBP) /\ ChainRbp = Fp(n + 1)
  BY <1>2, <1>4, ProperFrame
<1>6. CASE dwarf_step
  <2>1. pc' = "fallback" /\ UNCHANGED <<ip, cfa, loc, trace>>
    BY <1>5, <1>6 DEF dwarf_step
  <2>2. Progress(n)'
    BY <1>1, <1>4, <2>1 DEF Progress, InChain
  <2> QED BY <2>1, <2>2 DEF ChainInv
<1>7. CASE FrameChain
  <2>1. CASE n = Len(calls)
    BY <1>1, <1>2, <1>4, <1>7, <2>1, ProperEnds DEF ChainInv
  <2>2. CASE n < Len(calls)
    <3>1. pc' = "step" /\ Progress(n + 1)'
      BY <1>2, <1>4, <1>7, <2>2, ProperGoesOn
    <3>2. n + 1 \in Nat
      OBVIOUS
    <3> QED BY <3>1, <3>2 DEF ChainInv
  <2> QED BY <1>4, <2>1, <2>2 DEF Progress, Memory
<1> QED BY <1>5, <1>6, <1>7 DEF unw_step, CodeFault, SignalFrame, SyscallFrame, PltEntry

LEMMA InitInv == Init => IInv
<1> SUFFICES ASSUME Init PROVE IInv
  OBVIOUS
<1>1. Memory
  BY StepAssumption DEF Init, Memory
<1>2. Types
  BY <1>1, StepAssumption, LocsFields DEF Init, Types, Memory, Word
<1>3. HeuristicJudgesOnce
  BY DEF Init, HeuristicJudgesOnce
<1>4. Proper => Progress(0)
  <2> SUFFICES ASSUME Proper PROVE Progress(0)
    OBVIOUS
  <2>1. Len(calls) \in Nat /\ Len(trace) = 0
    BY <1>1 DEF Memory, Init
  <2>2. 0 < Len(calls) => InChain(fps[1])
    <3>1. 0 < Len(calls) => calls # <<>>
      OBVIOUS
    <3> QED BY <3>1 DEF Init, Proper, InChain
  <2> QED BY <2>1, <2>2, LocsFields DEF Init, Progress
<1>5. ChainInv
  BY <1>4 DEF Init, ChainInv
<1> QED BY <1>1, <1>2, <1>3, <1>5 DEF IInv

LEMMA NextInv == IInv /\ [Next]_vars => IInv'
<1> SUFFICES ASSUME IInv, [Next]_vars PROVE IInv'
  OBVIOUS
<1> USE DEF IInv
<1>1. CASE UNCHANGED vars
  BY <1>1 DEF vars, Memory, Types, HeuristicJudgesOnce, ChainInv, Progress, InChain, Proper, Fp,
              Mapped
<1>2. CASE unw_step
  <2>1. ASSUME dwarf_step PROVE Memory' /\ Types' /\ HeuristicJudgesOnce'
    BY <2>1, FaultTypes DEF dwarf_step, Memory, Types, HeuristicJudgesOnce
  <2>2. ASSUME CodeFault PROVE Memory' /\ Types' /\ HeuristicJudgesOnce'
    BY <2>2, FaultTypes DEF CodeFault, HeuristicJudgesOnce
  <2>3. ASSUME SignalFrame \/ SyscallFrame \/ PltEntry
        PROVE Memory' /\ Types' /\ HeuristicJudgesOnce'
    BY <2>3, OtherFrames DEF HeuristicJudgesOnce
  <2>4. ASSUME FrameChain PROVE Memory' /\ Types' /\ HeuristicJudgesOnce'
    BY <2>4, ChainStep
  <2>5. Memory' /\ Types' /\ HeuristicJudgesOnce'
    BY <1>2, <2>1, <2>2, <2>3, <2>4 DEF unw_step
  <2> QED BY <1>2, <2>5, ChainInvStep
<1> QED BY <1>1, <1>2 DEF Next, Done

\* The inductive invariant of the walk holds in every reachable state.
THEOREM Invariance == Spec => []IInv
BY InitInv, NextInv, PTL DEF Spec

\* Whatever the stack holds, the heuristic of Gstep.c:178-180 turns down the first frame
\* pointer of a chain or none.
THEOREM HeuristicCorrect == Spec => []HeuristicJudgesOnce
<1>1. IInv => HeuristicJudgesOnce
  BY DEF IInv
<1> QED BY <1>1, Invariance, PTL

\* On any proper stack show_backtrace prints the whole call chain and nothing else
\* (libunwind.c:19-25, Gstep.c:166-203), however deep it is and wherever its frames lie.
THEOREM BacktraceCorrect == Spec => []BacktraceIsTheCallChain
<1>1. IInv => BacktraceIsTheCallChain
  <2> SUFFICES ASSUME IInv, Proper
               PROVE  /\ pc # "fault"
                      /\ Len(trace) <= Len(calls) /\ trace = SubSeq(calls, 1, Len(trace))
                      /\ pc = "done" => trace = calls /\ ret = 0
    BY DEF BacktraceIsTheCallChain
  <2>1. Len(calls) \in Nat /\ Len(trace) \in Nat /\ calls \in Seq(Word) /\ trace \in Seq(Word)
    BY StepAssumption DEF IInv, Memory, Types
  <2>2. Len(trace) <= Len(calls) /\ \A j \in 1..Len(trace) : trace[j] = calls[j]
    <3>1. CASE pc = "done"
      BY <2>1, <3>1 DEF IInv, ChainInv
    <3>2. CASE pc \in {"step", "fallback"}
      BY <3>2 DEF IInv, ChainInv, Progress
    <3> QED BY <3>1, <3>2 DEF IInv, ChainInv, Types
  <2>3. /\ SubSeq(calls, 1, Len(trace)) \in Seq(Word)
        /\ Len(SubSeq(calls, 1, Len(trace))) = Len(trace)
        /\ \A j \in 1..Len(trace) : SubSeq(calls, 1, Len(trace))[j] = calls[j]
    <3>1. \A j \in 1..Len(trace) : calls[j] \in Word
      BY <2>1, <2>2
    <3> QED BY <2>1, <3>1, SubSeqProperties
  <2>4. trace = SubSeq(calls, 1, Len(trace))
    BY <2>1, <2>2, <2>3, SeqEqual
  <2> QED BY <2>2, <2>4 DEF IInv, ChainInv
<1> QED BY <1>1, Invariance, PTL
=============================================================================
