------------------------------ MODULE UnwStep ------------------------------
(***************************************************************************)
(* unw_step (Gstep.c) and the walk of a stack with it, the loop of         *)
(* show_backtrace (libunwind.c).                                           *)
(*                                                                         *)
(* A step first asks DWARF.  Of dwarf_find_proc_info only its results are  *)
(* seen here (module ProcInfo has the search): -UNW_ENOINFO for an ip with *)
(* an FDE and for one no section is found for, and success without unwind  *)
(* info for an ip that lies between the FDEs of a section.  So the rest of *)
(* dwarf_step either is not reached or reads through a NULL pointer, and   *)
(* what walks the stack is the fallback: signal frames, PLT entries and    *)
(* the chain of saved frame pointers.                                      *)
(*                                                                         *)
(* Memory is a function on word addresses, a location an address (0 for    *)
(* DWARF_NULL_LOC).  In this build validate_mem turns down page 0 alone,   *)
(* which is the address 0 here: every other address outside of mem faults. *)
(***************************************************************************)
EXTENDS Integers, Sequences

CONSTANTS Words,               \* number of words, 2^64 / 8
          Ips, Code, Cover,    \* code addresses, the code there, its unwind info
          UcRip, UcRsp, UcRbp, \* where getcontext saved the registers
          SigRsp, SigRbp, SigRip, \* offsets of the registers in a signal frame
          MaxGap,              \* 0x4000
          Machines,            \* the memories, each with the call chain it holds
          MaxDepth             \* bound on the history of the walk

Word == 0..(Words - 1)
Codes == {"plain", "plt", "syscall", "sigreturn"}

ASSUME StepAssumption ==
  /\ Words \in Nat \ {0} /\ MaxGap \in Word /\ MaxDepth \in Nat
  /\ Ips \subseteq Word
  /\ Code \in [Ips -> Codes]
  /\ Cover \in [Ips -> {"fde", "none", "hole"}]
  /\ {SigRsp, SigRbp, SigRip} \subseteq Nat
  /\ \A m \in Machines :
       /\ DOMAIN m.mem \subseteq (MaxGap + 1)..(Words - 1)
       /\ Ips \cup {UcRip, UcRsp, UcRbp} \subseteq DOMAIN m.mem
       /\ \A a \in DOMAIN m.mem : m.mem[a] \in Word
       /\ m.calls \in Seq(Ips) /\ Len(m.calls) <= MaxDepth /\ m.fps \in Seq(Word)

VARIABLES
  mem,   \* the memory
  calls, \* history: the return addresses of the call chain, the innermost first
  fps,   \* history: the frame pointers of its functions
  ip, cfa, \* c->dwarf.ip, c->dwarf.cfa
  loc,   \* c->dwarf.loc of RBP and RIP
  pc,    \* "step", "fallback", "done" or "fault"
  ret,   \* what the last unw_step returned
  trace, \* history: the ips the walk has printed
  last   \* history: how the last step was made

vars == <<mem, calls, fps, ip, cfa, loc, pc, ret, trace, last>>

Locs(rbp, rip) == [RBP |-> rbp, RIP |-> rip]
NullLocs == Locs(0, 0)

\* unw_init_local
Init ==
  /\ \E m \in Machines : mem = m.mem /\ calls = m.calls /\ fps = m.fps
  /\ ip = mem[UcRip]
  /\ cfa = mem[UcRsp]
  /\ loc = Locs(UcRbp, UcRip)
  /\ pc = "step"
  /\ ret = 1
  /\ trace = <<>>
  /\ last = "init"
-----------------------------------------------------------------------------
Add(a, b) == (a + b) % Words
Mapped(a) == a \in DOMAIN mem

\* A read neither fails nor is harmless: the kernel takes a page fault.
Faults(a) == a # 0 /\ ~Mapped(a)

Covered(i) == IF i \in Ips THEN Cover[i] ELSE "none"
CodeAt(i) == IF i \in Ips THEN Code[i] ELSE "plain"

Fault(how) ==
  /\ pc' = "fault"
  /\ last' = how
  /\ UNCHANGED <<mem, calls, fps, ip, cfa, loc, ret, trace>>

\* Mutant: the walk goes on at the end of the stack.
WalksOnAtEnd(r) == r >= 0

\* while (unw_step (&cursor) > 0)
WalksOn(r) == r > 0

\* unw_step returns r.
Returns(r, newip, newcfa, newloc, how) ==
  /\ ret' = r
  /\ ip' = newip /\ cfa' = newcfa /\ loc' = newloc
  /\ last' = how
  /\ pc' = IF WalksOn(r) THEN "step" ELSE "done"
  /\ trace' = IF r > 0 /\ Len(trace) < MaxDepth THEN Append(trace, newip) ELSE trace
  /\ UNCHANGED <<mem, calls, fps>>

\* dwarf_step.  In a hole, parse_fde reads through the NULL unwind_info.
dwarf_step ==
  /\ pc = "step"
  /\ IF Covered(ip) = "hole"
       THEN Fault("parse_fde")
       ELSE /\ pc' = "fallback"
            /\ UNCHANGED <<mem, calls, fps, ip, cfa, loc, ret, trace, last>>

EBADFRAME == -7
ENOINFO == -10

\* The end of the fallback: the ip of the next frame, from the new locations.  sofar
\* is ret, where no location says more.
Finish(newloc, newip, newcfa, sofar, how) ==
  IF newloc.RBP = 0
    THEN Returns(0, newip, newcfa, newloc, how)
    ELSE /\ ~Faults(newloc.RIP)
         /\ LET next == IF newloc.RIP = 0 THEN 0 ELSE mem[newloc.RIP]
                same == next = ip /\ newcfa = cfa
                r == IF same THEN EBADFRAME ELSE IF newloc.RIP = 0 THEN sofar ELSE 1
            IN Returns(r, next, newcfa, newloc, how)

FinishFaults(newloc) == newloc.RBP # 0 /\ Faults(newloc.RIP)

\* unw_is_signal_frame and is_plt_entry read the code at the ip.
ReadsCode == pc = "fallback" /\ ~Faults(ip)
CodeFault == pc = "fallback" /\ Faults(ip) /\ Fault("code")

\* unw_handle_signal_frame at a sigreturn trampoline: the registers are in the signal
\* frame that the CFA points to.
SignalFrame ==
  /\ ReadsCode /\ CodeAt(ip) = "sigreturn"
  /\ LET rsp == Add(cfa, SigRsp)
         locs == Locs(Add(cfa, SigRbp), Add(cfa, SigRip))
     IN \/ rsp = 0 /\ Returns(0, ip, cfa, loc, "signal")
        \/ (Faults(rsp) \/ (Mapped(rsp) /\ FinishFaults(locs))) /\ Fault("signal")
        \/ Mapped(rsp) /\ Finish(locs, ip, mem[rsp], 0, "signal")

\* unw_handle_signal_frame at a system call: the return address is at the CFA.
SyscallFrame ==
  /\ ReadsCode /\ CodeAt(ip) = "syscall"
  /\ \/ cfa = 0 /\ Returns(0, ip, cfa, Locs(loc.RBP, 0), "syscall")
     \/ Faults(cfa) /\ Fault("syscall")
     \/ Mapped(cfa) /\ Finish(Locs(loc.RBP, cfa), mem[cfa], Add(cfa, 1), 1, "syscall")

\* A PLT entry: CFA = RSP+8, RA = [CFA-8].
PltEntry ==
  /\ ReadsCode /\ CodeAt(ip) = "plt"
  /\ LET locs == Locs(loc.RBP, cfa)
     IN \/ FinishFaults(locs) /\ Fault("plt")
        \/ Finish(locs, ip, Add(cfa, 1), ENOINFO, "plt")

\* Mutants: the CFA stays, or is the function's.
ChainCfaSame(rbp) == cfa
ChainCfaAbove(rbp) == Add(rbp, 2)

\* "RBP needs to be above current CFA, but don't let it go more than a little."
InChain(rbp) == rbp > cfa /\ rbp - cfa <= MaxGap

\* The CFA moves by the distance between the saved frame pointer and this one.
ChainCfa(rbp) == Add(cfa, mem[rbp] - rbp)

\* The chain of frame pointers.  The frame pointer is read through its location (one
\* that is NULL ends the chain like a frame pointer that is), and the word it points
\* to is read whether or not the heuristic accepts it.
FrameChain ==
  /\ ReadsCode /\ CodeAt(ip) = "plain"
  /\ \/ Faults(loc.RBP) /\ Fault("chain")
     \/ /\ ~Faults(loc.RBP)
        /\ LET rbp == IF loc.RBP = 0 THEN 0 ELSE mem[loc.RBP]
               locs == IF InChain(rbp) THEN Locs(rbp, Add(rbp, 1)) ELSE NullLocs
           IN \/ rbp = 0 /\ Finish(NullLocs, ip, cfa, 0, "chain")
              \/ (Faults(rbp) \/ (rbp # 0 /\ FinishFaults(locs))) /\ Fault("chain")
              \/ Mapped(rbp) /\ Finish(locs, ip, ChainCfa(rbp), 0, "chain")

Done == pc \in {"done", "fault"} /\ UNCHANGED vars

unw_step ==
  \/ dwarf_step \/ CodeFault \/ SignalFrame \/ SyscallFrame \/ PltEntry
  \/ FrameChain

Next == unw_step \/ Done

Spec == Init /\ [][Next]_vars
FairSpec == Spec /\ WF_vars(unw_step)
-----------------------------------------------------------------------------
(***************************************************************************)
(* A proper stack: the functions of the call chain all keep a frame        *)
(* pointer, the outermost one's is 0, and unw_getcontext was called with   *)
(* the stack pointer a little below the first one.                         *)
(***************************************************************************)
Fp(n) == IF n > Len(fps) THEN 0 ELSE fps[n]

Proper ==
  /\ Len(fps) = Len(calls)
  /\ mem[UcRbp] = Fp(1)
  /\ \A n \in 1..Len(calls) :
       /\ Mapped(fps[n]) /\ mem[fps[n]] = Fp(n + 1)
       /\ Mapped(fps[n] + 1) /\ mem[fps[n] + 1] = calls[n]
       /\ n < Len(calls) => fps[n] < fps[n + 1]
  /\ calls # <<>> => mem[UcRsp] < fps[1] /\ fps[1] - mem[UcRsp] <= MaxGap
  /\ \A i \in {mem[UcRip]} \cup {calls[n] : n \in 1..Len(calls)} :
       i \in Ips /\ Code[i] = "plain" /\ Cover[i] # "hole"

\* On a proper stack the walk prints the return addresses of the whole call chain, in
\* order, and nothing else: although the CFA the fallback computes is not the
\* function's (Gstep.c:191-195), it never makes the heuristic of Gstep.c:178-180
\* give up on a frame in the middle.
BacktraceIsTheCallChain ==
  Proper =>
    /\ pc # "fault"
    /\ Len(trace) <= Len(calls) /\ trace = SubSeq(calls, 1, Len(trace))
    /\ pc = "done" => trace = calls /\ ret = 0

\* The heuristic of Gstep.c:178-180 judges the first frame of a chain only: the CFA
\* moves as far as the frame pointer does (Gstep.c:194-195), so that, whatever the
\* stack holds, a later frame pointer that can be read is at the same distance from
\* the CFA as the first one, and is accepted.
HeuristicJudgesOnce ==
  pc = "step" /\ last = "chain" /\ loc.RBP # 0 =>
    LET rbp == mem[loc.RBP] IN Mapped(rbp) => InChain(rbp)

\* No word of the stack points to a word at or below it.
Rising == \A a \in DOMAIN mem : Mapped(mem[a]) => mem[a] > a

\* A walk up a stack that never points down ends, by a frame it cannot unwind if
\* need be.
RisingWalkEnds == Rising => <>(pc \in {"done", "fault"})
=============================================================================
