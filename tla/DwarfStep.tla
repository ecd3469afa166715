----------------------------- MODULE DwarfStep -----------------------------
(***************************************************************************)
(* The cursor: a step by DWARF unwind information, or by the frame pointer *)
(* where there is none (Gparser.c, Gstep.c), the registers read and        *)
(* written through it (Gregs.c), the resumption of a frame (Gresume.c),    *)
(* and the fast trace, which repeats the steps of standard frames from     *)
(* what it stashed of them (Gstash_frame.c, Gtrace.c).                     *)
(*                                                                         *)
(* A location is an address, 0 for DWARF_NULL_LOC; a register's is its     *)
(* slot in the ucontext_t.  A procedure stands for the answer of the       *)
(* search for its code (modules DynInfo, EhFrame and ProcInfo), with the   *)
(* rows of its call frame program (module CfiProgram) and the address an   *)
(* expression computes (module DwarfExpr).  Signal trampolines and PLT     *)
(* entries are in module UnwStep, the table of frames in TraceCache.       *)
(***************************************************************************)
EXTENDS Integers, Sequences, SequencesExt

CONSTANTS
  W, Words,       \* bytes of a word, number of addresses
  Page,           \* the first page, which validate_mem turns down
  MinIp,          \* 0x4000, below which a trace gives up
  MaxGap,         \* 0x4000, the farthest a frame pointer may be
  CfaBits, RegBits, \* widths of the bit fields of unw_tdep_frame_t
  Uc,             \* the slots of the registers
  Stack,          \* the memory of the stack
  Contexts,       \* the registers unw_getcontext may find
  Procs, Start, End, Kind, Signal, Row, \* procedures, their code and unwind info
  Values,         \* what a caller writes to a register
  MaxOps,         \* bound on the calls
  Junk            \* an uninitialised word

Word == 0..(Words - 1)
Registers == <<"RAX", "RBX", "RBP", "RSP", "RIP">>
Regs == Range(Registers)
Kinds == {"table", "bad_table", "dynamic", "exidx", "fde", "hole", "none"}
None == -1

ASSUME CursorAssumption ==
  /\ {W, Words, Page, MinIp, MaxGap, CfaBits, RegBits} \subseteq Nat \ {0}
  /\ {Page, MaxGap, Junk} \subseteq Word
  /\ Uc \in [Regs -> Word] /\ DOMAIN Stack \subseteq Page..(Words - 1)
  /\ \A a \in DOMAIN Stack : Stack[a] \in Word
  /\ Contexts \subseteq [Regs -> Word] /\ Values \subseteq Word /\ MaxOps \in Nat
  /\ Start \in [Procs -> Word] /\ End \in [Procs -> Word]
  /\ Kind \in [Procs -> Kinds] /\ Signal \in [Procs -> BOOLEAN]
  /\ \A p \in Procs : Start[p]..End[p] \subseteq DOMAIN Row[p]

VARIABLES
  m,     \* the memory
  c,     \* the cursor
  pc,    \* "idle", "cursor", "lookup", "advance", "resumed" or "fault"
  t,     \* the registers of tdep_trace
  cache, \* the frames of the trace cache, by address
  regs,  \* the registers unw_resume has set
  ops,   \* the calls made
  known, \* history: the frame's registers by definition, None where it leaves them open
  clean, \* history: since pi was fetched neither the ip nor use_prev_instr has changed
  want   \* history: what unw_get_reg reported before unw_resume

vars == <<m, c, pc, t, cache, regs, ops, known, clean, want>>

Add(a, b) == (a + b) % Words

EUNSPEC == -1
EBADREG == -3
EREADONLYREG == -4
EBADFRAME == -7
EINVAL == -8
EBADVERSION == -9
ENOINFO == -10
FAULT == -99 \* no error code: the kernel takes a page fault

Ok(v) == [ret |-> 0, val |-> v]
Err(e) == [ret |-> e, val |-> Junk]

\* A read through access_mem.
access_mem(k, mem, a) ==
  IF k.validate /\ a < Page THEN Err(EUNSPEC)
  ELSE IF a \in DOMAIN mem THEN Ok(mem[a]) ELSE Err(FAULT)

dwarf_get(k, mem, a) == IF a = 0 THEN Err(EBADREG) ELSE access_mem(k, mem, a)

\* The frame properties before anything is known of them.
NoFrame == [type |-> "other", last |-> FALSE, cfa_reg_rsp |-> TRUE, cfa_reg_offset |-> 0,
            rbp_cfa_offset |-> -1, rsp_cfa_offset |-> -1]

\* unw_init_local.  eh_valid_mask is not initialised.
NewCursor(x, junk) ==
  [ip |-> x["RIP"], cfa |-> x["RSP"], loc |-> Uc, eh |-> IF junk THEN Junk ELSE None,
   use_prev_instr |-> 1, pi_valid |-> FALSE, pi_is_dynamic |-> FALSE, pi |-> "zero",
   unwind_info |-> FALSE, validate |-> FALSE, stash_frames |-> FALSE, frame |-> NoFrame]

WithContext(mem, x) ==
  [a \in DOMAIN mem |-> IF \E r \in Regs : Uc[r] = a
                          THEN x[CHOOSE r \in Regs : Uc[r] = a] ELSE mem[a]]

Init ==
  /\ m = [a \in DOMAIN Stack \cup Range(Uc) |-> IF a \in DOMAIN Stack THEN Stack[a] ELSE Junk]
  /\ c = NewCursor([r \in Regs |-> 0], FALSE)
  /\ pc = "idle"
  /\ t = [cfa |-> 0, rip |-> 0, rbp |-> 0, rsp |-> 0] /\ cache = << >>
  /\ regs = [r \in Regs |-> Junk] /\ ops = 0
  /\ known = [r \in Regs |-> None] /\ clean = TRUE /\ want = [r \in Regs |-> Err(EBADREG)]
-----------------------------------------------------------------------------
(* Registers.                                                              *)

\* tdep_access_reg, to read.
tdep_access_reg(k, mem, r) ==
  CASE r = "RSP" -> Ok(k.cfa)
    [] r = "RAX" /\ k.eh # None -> Ok(k.eh)
    [] OTHER -> dwarf_get(k, mem, k.loc[r])

unw_get_reg(k, mem, r) == IF r = "RIP" THEN Ok(k.ip) ELSE tdep_access_reg(k, mem, r)

\* tdep_access_reg, to write: the result, the cursor and the memory.  A write is not
\* validated.
WriteReg(k, mem, r, v) ==
  LET moved == IF r = "RIP" THEN [k EXCEPT !.ip = v] ELSE k
  IN CASE r = "RSP" -> [ret |-> EREADONLYREG, k |-> k, mem |-> mem]
       [] r = "RAX" -> [ret |-> 0, k |-> [k EXCEPT !.eh = v], mem |-> mem]
       [] OTHER ->
            [ret |-> IF k.loc[r] = 0 THEN EBADREG
                     ELSE IF k.loc[r] \in DOMAIN mem THEN 0 ELSE FAULT,
             k |-> moved,
             mem |-> IF k.loc[r] \in DOMAIN mem THEN [mem EXCEPT ![k.loc[r]] = v] ELSE mem]
-----------------------------------------------------------------------------
(* A step by unwind information.                                           *)

\* The search for the code at an address: "none" when nothing covers it.
Owner(a) ==
  IF \E p \in Procs : a \in Start[p]..(End[p] - 1)
    THEN CHOOSE p \in Procs : a \in Start[p]..(End[p] - 1) ELSE "none"
KindOf(p) == IF p = "none" THEN "none" ELSE Kind[p]

\* The code, which can be read up to the return address behind a last call.
Code == UNION {Start[p]..End[p] : p \in Procs}

Key(k) == k.ip - k.use_prev_instr

\* fetch_proc_info.  A static search that found the FDE fills pi and returns -UNW_ENOINFO,
\* like a registered region of a format nobody unwinds; one that found none in the file
\* succeeds without unwind info and leaves in pi what it read last.  The signal_frame bit
\* of a dynamic region is a bit (g) of another structure.
fetch_proc_info(k, need, g) ==
  LET p == Owner(Key(k))
      kind == KindOf(p)
      found == [k EXCEPT !.pi = CASE kind = "none" -> "zero" [] kind = "hole" -> "stray"
                                  [] OTHER -> p,
                         !.unwind_info = need /\ kind \in {"table", "dynamic", "fde"}]
      valid == [found EXCEPT !.pi_valid = TRUE, !.pi_is_dynamic = kind # "hole",
                             !.use_prev_instr =
                                CASE ~found.unwind_info -> @
                                  [] kind = "table" -> IF Signal[p] THEN 0 ELSE 1
                                  [] OTHER -> g]
  IN IF k.pi_valid /\ ~need THEN [ret |-> 0, k |-> k]
     ELSE IF kind \in {"none", "fde", "exidx"} THEN [ret |-> ENOINFO, k |-> found]
     ELSE [ret |-> IF kind = "bad_table" THEN EBADVERSION ELSE 0, k |-> valid]

dwarf_make_proc_info(k) == fetch_proc_info(k, FALSE, 0)

\* What is put back: the info of a dynamic region stays.
put_unwind_info(k) ==
  IF k.pi_valid /\ ~k.pi_is_dynamic THEN [k EXCEPT !.unwind_info = FALSE] ELSE k

\* create_state_record_for and parse_fde: the row at the ip, which is not the address of
\* the call.  No unwind info to read is a NULL pointer.
create_state_record_for(k) ==
  IF ~k.unwind_info THEN Err(FAULT)
  ELSE IF Kind[k.pi] = "dynamic" THEN Err(EINVAL) ELSE Ok(Row[k.pi][k.ip])

\* Mutant: a register a frame leaves alone is looked for in the context.
SameIsInContext(k, r) == Uc[r]

\* A register the frame leaves alone stays where the frames below have saved it.
SameLoc(k, r) == k.loc[r]

NewLoc(k, r, rule, cfa) ==
  CASE rule.where = "undef" -> 0
    [] rule.where = "same" -> SameLoc(k, r)
    [] rule.where = "cfarel" -> Add(cfa, rule.val)
    [] rule.where = "reg" -> Uc[rule.val]
    [] rule.where = "expr" -> rule.val

\* eval_location_expr: None is an expression that cannot be evaluated.
ExprFails(rule) == rule.where = "expr" /\ rule.val = None

\* The locations up to the first one that cannot be computed.
NewLocs(k, row, cfa) ==
  LET fails == {i \in 1..Len(Registers) : ExprFails(row.reg[Registers[i]])}
  IN [r \in Regs |->
        IF \E i \in fails : Registers[i] = r \/ \E j \in (i + 1)..Len(Registers) : Registers[j] = r
          THEN k.loc[r] ELSE NewLoc(k, r, row.reg[r], cfa)]

\* The CFA of a row.
Cfa(k, mem, row) ==
  CASE row.cfa.where = "reg" ->
         LET base == unw_get_reg(k, mem, row.cfa.reg)
         IN IF base.ret < 0 THEN base ELSE Ok(Add(base.val, row.cfa.val))
    [] ExprFails(row.cfa) -> Err(EINVAL)
    [] OTHER -> Ok(row.cfa.val)

\* Mutant: the bound of a bit field is taken for a value of it.
FitsAlmost(v, bits) == -(2^(bits - 1)) <= v /\ v <= 2^(bits - 1)

\* labs(v) < 1 << (bits - 1)
Fits(v, bits) == -(2^(bits - 1)) < v /\ v < 2^(bits - 1)

\* A value stored to a signed bit field.
Field(v, bits) ==
  LET u == v % 2^bits IN IF u < 2^(bits - 1) THEN u ELSE u - 2^bits

\* A register that is not saved, or at an offset that can be stashed.
Stashable(rule) ==
  \/ rule.where \in {"undef", "same"}
  \/ rule.where = "cfarel" /\ Fits(rule.val, RegBits) /\ rule.val # -1

tdep_stash_frame(k, row) ==
  LET saved(r, old) == IF row.reg[r].where = "cfarel" THEN Field(row.reg[r].val, RegBits)
                                                      ELSE old
  IN IF /\ k.frame.type = "other"
        /\ row.cfa.where = "reg" /\ row.cfa.reg \in {"RBP", "RSP"}
        /\ Fits(row.cfa.val, CfaBits)
        /\ k.loc["RIP"] = Add(k.cfa, -W)
        /\ Stashable(row.reg["RBP"]) /\ Stashable(row.reg["RSP"])
       THEN [k EXCEPT !.frame =
               [@ EXCEPT !.type = "standard", !.cfa_reg_rsp = row.cfa.reg = "RSP",
                         !.cfa_reg_offset = Field(row.cfa.val, CfaBits),
                         !.rbp_cfa_offset = saved("RBP", @),
                         !.rsp_cfa_offset = saved("RSP", @)]]
       ELSE k

\* apply_reg_state, from its last statement to its first: the test for a frame that leads
\* nowhere, the ip, the locations, the CFA.  done, framed and located are the cursor at
\* these points, k is the cursor before.
CheckFrame(k, row, done) ==
  IF done.ip = k.ip /\ done.cfa = k.cfa THEN [ret |-> EBADFRAME, k |-> done]
  ELSE [ret |-> 0, k |-> IF done.stash_frames THEN tdep_stash_frame(done, row) ELSE done]

ApplyIp(k, row, framed, ip) ==
  IF ip.ret < 0 THEN [ret |-> ip.ret, k |-> framed]
  ELSE CheckFrame(k, row, [framed EXCEPT !.ip = ip.val])

\* An undefined return address is the end of the stack.
ApplyLocs(k, mem, row, located, cfa) ==
  IF \E r \in Regs : ExprFails(row.reg[r]) THEN [ret |-> EINVAL, k |-> located]
  ELSE ApplyIp(k, row, [located EXCEPT !.cfa = cfa],
               IF located.loc["RIP"] = 0 THEN Ok(0)
                                         ELSE dwarf_get(located, mem, located.loc["RIP"]))

ApplyCfa(k, mem, row, cfa) ==
  IF cfa.ret < 0 THEN [ret |-> cfa.ret, k |-> k]
  ELSE ApplyLocs(k, mem, row, [k EXCEPT !.loc = NewLocs(k, row, cfa.val)], cfa.val)

apply_reg_state(k, mem, row) == ApplyCfa(k, mem, row, Cfa(k, mem, row))

\* uncached_dwarf_find_save_locs, in the same way: what fails after the fetch keeps its
\* unwind info.
Put(s) == IF s.ret < 0 THEN s ELSE [s EXCEPT !.k = put_unwind_info(@)]

Apply(k, mem, row) ==
  IF row.ret < 0 THEN [ret |-> row.ret, k |-> k] ELSE Put(apply_reg_state(k, mem, row.val))

Fetched(mem, s) == IF s.ret < 0 THEN s ELSE Apply(s.k, mem, create_state_record_for(s.k))

dwarf_find_save_locs(k, mem, g) == Fetched(mem, fetch_proc_info(k, TRUE, g))

\* Mutant: the description of the procedure outlives the step out of it.
InvalidatedNot(k) == k

\* c->pi_valid = 0
Invalidated(k) == [k EXCEPT !.pi_valid = FALSE]

SavesFound(s) == IF s.ret >= 0 THEN [ret |-> 1, k |-> Invalidated(s.k)] ELSE s

dwarf_step(k, mem, g) == SavesFound(dwarf_find_save_locs(k, mem, g))
-----------------------------------------------------------------------------
(* A step, by unwind information or by the chain of frame pointers.         *)

NullLocs == [r \in Regs |-> 0]

\* The locations of the frame that rbp points to, if it may be one at all.
ChainLocs(k, rbp) ==
  IF rbp > k.cfa /\ rbp - k.cfa <= MaxGap
    THEN [NullLocs EXCEPT !["RBP"] = rbp, !["RIP"] = Add(rbp, W)] ELSE NullLocs

\* The ip of the frame that was guessed.
ChainIp(k, guess, ip) ==
  IF ip.ret < 0 THEN [ret |-> ip.ret, k |-> guess]
  ELSE [ret |-> IF ip.val = k.ip /\ guess.cfa = k.cfa THEN EBADFRAME ELSE 1,
        k |-> [guess EXCEPT !.ip = ip.val]]

ChainNext(k, mem, guess) ==
  IF guess.loc["RBP"] = 0 THEN [ret |-> 0, k |-> guess]
  ELSE ChainIp(k, guess, dwarf_get(guess, mem, guess.loc["RIP"]))

\* The CFA moves as far as the frame pointer does.  The word at rbp is read whatever it is.
ChainFrom(k, mem, rbp) ==
  IF rbp \notin DOMAIN mem THEN [ret |-> FAULT, k |-> k]
  ELSE ChainNext(k, mem,
         [k EXCEPT !.loc = ChainLocs(k, rbp), !.cfa = Add(@, mem[rbp] - rbp),
                   !.frame = [@ EXCEPT !.type = "guessed", !.cfa_reg_rsp = FALSE,
                                       !.cfa_reg_offset = W, !.rbp_cfa_offset = 0]])

\* The fallback for a frame that is no signal frame and no PLT entry: it reads the code at
\* the ip to find that out.
FrameChain(k, mem, rbp) ==
  IF k.ip >= Page /\ k.ip \notin DOMAIN mem \cup Code THEN [ret |-> FAULT, k |-> k]
  ELSE IF k.loc["RBP"] = 0 \/ rbp = Ok(0) THEN [ret |-> 0, k |-> [k EXCEPT !.loc = NullLocs]]
  ELSE IF rbp.ret < 0 THEN [ret |-> rbp.ret, k |-> k]
  ELSE ChainFrom(k, mem, rbp.val)

\* What follows dwarf_step, whose result is s; validate was set for the time of the call.
Fallback(k, mem) == FrameChain(k, mem, dwarf_get(k, mem, k.loc["RBP"]))

AfterDwarf(mem, validate, s) ==
  IF s.ret = ENOINFO THEN Fallback([s.k EXCEPT !.validate = TRUE], mem)
  ELSE IF s.ret < 0 THEN [s EXCEPT !.k.validate = validate]
  ELSE IF s.k.loc["RBP"] = 0
    THEN [ret |-> 0, k |-> [s.k EXCEPT !.ip = 0, !.validate = validate]]
    ELSE [ret |-> 1, k |-> [s.k EXCEPT !.validate = validate]]

unw_step(k, mem, g) ==
  AfterDwarf(mem, k.validate, dwarf_step([k EXCEPT !.validate = TRUE], mem, g))
-----------------------------------------------------------------------------
(* The registers of the caller, by the definition of a row: from the       *)
(* values of the frame's registers, not from their locations.  None where  *)
(* the code knowingly departs from it: a row that changes between the call *)
(* and the return address, a register saved in one that has moved since,   *)
(* a saved stack pointer.                                                  *)

ByRule(rule, r, k, mem, cfa) ==
  CASE rule.where = "same" -> known[r]
    [] rule.where = "cfarel" -> IF Add(cfa, rule.val) \in DOMAIN mem
                                  THEN mem[Add(cfa, rule.val)] ELSE None
    [] rule.where = "reg" -> IF rule.val \in {"RBX", "RBP"} /\ k.loc[rule.val] = Uc[rule.val]
                               THEN known[rule.val] ELSE None
    [] rule.where = "expr" -> IF rule.val \in DOMAIN mem THEN mem[rule.val] ELSE None
    [] OTHER -> None

ByDefinition(k, mem) ==
  LET p == Owner(Key(k))
      row == Row[p][Key(k)]
      base == IF row.cfa.where = "reg" THEN known[row.cfa.reg] ELSE 0
      cfa == Add(base, row.cfa.val)
      nothing == [r \in Regs |-> None]
  IN IF p # "none" /\ KindOf(p) = "table"
       THEN IF base = None \/ row # Row[p][k.ip] THEN nothing
            ELSE [r \in Regs |->
                    IF r = "RSP" THEN IF row.reg[r].where \in {"undef", "same"} THEN cfa ELSE None
                    ELSE ByRule(row.reg[r], r, k, mem, cfa)]
       ELSE IF known["RBP"] \in DOMAIN mem /\ Add(known["RBP"], W) \in DOMAIN mem
         THEN [nothing EXCEPT !["RBP"] = mem[known["RBP"]],
                              !["RIP"] = mem[Add(known["RBP"], W)]]
         ELSE nothing
-----------------------------------------------------------------------------
Call == ops < MaxOps /\ ops' = ops + 1

\* A trace is many calls of unw_step: it counts as two.
TraceCall == ops + 1 < MaxOps /\ ops' = ops + 2

Faults == pc' = "fault" /\ UNCHANGED <<m, c, t, cache, regs, known, clean, want>>

unw_init_local ==
  /\ pc = "idle" /\ Call
  /\ \E x \in Contexts, junk \in BOOLEAN :
       m' = WithContext(m, x) /\ c' = NewCursor(x, junk) /\ known' = x
  /\ pc' = "cursor" /\ clean' = TRUE
  /\ UNCHANGED <<t, cache, regs, want>>

Step ==
  /\ pc = "cursor" /\ Call
  /\ \E s \in {unw_step(c, m, g) : g \in {0, 1}} :
       IF s.ret = FAULT THEN Faults
       ELSE /\ c' = s.k
            /\ known' = IF s.ret > 0 THEN ByDefinition(c, m) ELSE [r \in Regs |-> None]
            /\ clean' = (~s.k.pi_valid \/ (clean /\ s.k.use_prev_instr = c.use_prev_instr))
            /\ UNCHANGED <<m, pc, t, cache, regs, want>>

\* dwarf_make_proc_info on behalf of unw_get_proc_info, which reports a procedure of one
\* byte when it fails.
unw_get_proc_info ==
  /\ pc = "cursor" /\ Call
  /\ c' = dwarf_make_proc_info(c).k
  /\ clean' = (~c.pi_valid \/ clean)
  /\ UNCHANGED <<m, pc, t, cache, regs, known, want>>

unw_set_reg ==
  /\ pc = "cursor" /\ Call
  /\ \E r \in Regs, v \in Values :
       LET s == WriteReg(c, m, r, v)
       IN IF s.ret = FAULT THEN Faults
          ELSE /\ c' = s.k /\ m' = s.mem
               /\ known' = IF s.ret = 0 THEN [known EXCEPT ![r] = v] ELSE known
               /\ clean' = (~c.pi_valid \/ (clean /\ r # "RIP"))
               /\ UNCHANGED <<pc, t, cache, regs, want>>

\* Mutant: the registers written for the landing pad are left behind.
CopiedFromLoc(mem, r) == IF r = "RSP" THEN Ok(c.cfa) ELSE dwarf_get(c, mem, c.loc[r])

\* What is copied into the context.
Copied(mem, r) == tdep_access_reg(c, mem, r)

\* establish_machine_state: the value of a register that cannot be read is that of the
\* register before it.
Established ==
  FoldLeft(LAMBDA s, r :
             LET got == Copied(s.mem, r)
                 v == IF got.ret >= 0 THEN got.val ELSE s.val
             IN [mem |-> [s.mem EXCEPT ![Uc[r]] = v], val |-> v,
                 fault |-> s.fault \/ got.ret = FAULT],
           [mem |-> m, val |-> Junk, fault |-> FALSE], Registers)

\* setcontext pushes the return address below the stack pointer it has just loaded.
unw_resume ==
  /\ pc = "cursor" /\ Call
  /\ \E s \in {Established} :
       LET top == Add(s.mem[Uc["RSP"]], -W)
       IN IF s.fault \/ top \notin DOMAIN m THEN Faults
          ELSE /\ regs' = [r \in Regs |-> s.mem[Uc[r]]]
               /\ m' = [s.mem EXCEPT ![top] = s.mem[Uc["RIP"]]]
               /\ c' = dwarf_make_proc_info(c).k
               /\ want' = [r \in Regs |-> unw_get_reg(c, m, r)]
               /\ pc' = "resumed"
               /\ UNCHANGED <<t, cache, known, clean>>
-----------------------------------------------------------------------------
(* The fast trace.                                                         *)

\* tdep_trace, up to its loop, with a cursor and a context of its own, in which
\* getcontext_trace leaves RAX unset.
tdep_trace ==
  /\ pc = "idle" /\ TraceCall
  /\ \E x \in Contexts :
       /\ m' = [WithContext(m, x) EXCEPT ![Uc["RAX"]] = Junk]
       /\ c' = [NewCursor(x, FALSE) EXCEPT !.stash_frames = TRUE]
       /\ t' = [cfa |-> x["RSP"], rip |-> x["RIP"], rbp |-> x["RBP"], rsp |-> x["RSP"]]
  /\ pc' = "lookup"
  /\ UNCHANGED <<cache, regs, known, clean, want>>

\* The cursor trace_init_addr sends to unw_step, and the context it writes.
TraceCursor(k, u) ==
  [k EXCEPT !.ip = u.rip + k.use_prev_instr, !.cfa = u.cfa, !.frame = NoFrame,
            !.loc = [@ EXCEPT !["RIP"] = Uc["RIP"], !["RBP"] = Uc["RBP"], !["RSP"] = Uc["RSP"]]]

TraceMemory(u) ==
  [m EXCEPT ![Uc["RIP"]] = u.rip, ![Uc["RBP"]] = u.rbp, ![Uc["RSP"]] = u.rsp]

\* What is cached of an address, by the result of the step from it.
FrameOf(s) == [(IF s.ret >= 0 THEN s.k.frame ELSE NoFrame) EXCEPT !.last = s.ret = 0]

\* The start of an iteration: trace_lookup, and trace_init_addr for an address that is new.
trace_lookup ==
  /\ pc = "lookup"
  /\ LET u == [t EXCEPT !.rip = @ - c.use_prev_instr]
     IN \/ /\ u.rip \in DOMAIN cache
           /\ t' = u /\ pc' = "advance"
           /\ UNCHANGED <<m, c, cache, regs, known, clean, want>>
        \/ /\ u.rip \notin DOMAIN cache
           /\ \E s \in {unw_step(TraceCursor(c, u), TraceMemory(u), g) : g \in {0, 1}} :
                IF s.ret = FAULT THEN Faults
                ELSE /\ c' = s.k /\ m' = TraceMemory(u) /\ t' = u
                     /\ cache' = [a \in DOMAIN cache \cup {u.rip} |->
                                    IF a = u.rip THEN FrameOf(s) ELSE cache[a]]
                     /\ pc' = "advance"
                     /\ UNCHANGED <<regs, known, clean, want>>
  /\ UNCHANGED ops

\* The next frame of a standard or guessed one.
Advance(k, u, f) ==
  LET cfa == Add(IF f.cfa_reg_rsp THEN u.rsp ELSE u.rbp, f.cfa_reg_offset)
      rip == access_mem(k, m, Add(cfa, -W))
      rbp == IF f.rbp_cfa_offset = -1 THEN Ok(u.rbp)
                                      ELSE access_mem(k, m, Add(cfa, f.rbp_cfa_offset))
  IN [ret |-> IF rip.ret < 0 THEN rip.ret ELSE rbp.ret,
      u |-> [cfa |-> cfa, rip |-> rip.val, rbp |-> rbp.val, rsp |-> cfa]]

\* The rest of the iteration.  A trace that ends gives up its cursor.
trace_advance ==
  /\ pc = "advance"
  /\ LET f == cache[t.rip]
         k == IF f.type = "guessed" THEN [c EXCEPT !.validate = TRUE] ELSE c
     IN \/ /\ f.last \/ f.type = "other"
           /\ pc' = "idle" /\ UNCHANGED <<m, c, t, cache, regs, known, clean, want>>
        \/ /\ ~f.last /\ f.type # "other"
           /\ \E s \in {Advance(k, t, f)} :
                IF s.ret = FAULT THEN Faults
                ELSE /\ t' = s.u /\ c' = [k EXCEPT !.use_prev_instr = 1]
                     /\ pc' = IF s.ret < 0 \/ s.u.rip < MinIp THEN "idle" ELSE "lookup"
                     /\ UNCHANGED <<m, cache, regs, known, clean, want>>
  /\ UNCHANGED ops

Stopped == pc \in {"fault", "resumed"} \/ ops = MaxOps
Done == Stopped /\ UNCHANGED vars

Next ==
  \/ unw_init_local \/ Step \/ unw_get_proc_info \/ unw_set_reg \/ unw_resume
  \/ tdep_trace \/ trace_lookup \/ trace_advance \/ Done

Spec == Init /\ [][Next]_vars
-----------------------------------------------------------------------------
\* After any number of steps and writes, the registers that unw_get_reg finds through the
\* cursor's locations are those the frame has by the rows of the frames below it: a
\* register no frame has saved is still in the context, one saved below is read from the
\* frame that saved it last, and the stack pointer is the CFA (Gparser.c:756-783).
RegistersAreTheFrames ==
  pc = "cursor" =>
    \A r \in {"RBX", "RBP", "RSP", "RIP"} :
      known[r] # None => unw_get_reg(c, m, r) = Ok(known[r])

\* Whether the copy of the registers into the context overwrites the location of r
\* before it is read (Gresume.c:82-95).
Overwritten(r) ==
  \E i, j \in 1..Len(Registers) : i < j /\ Registers[j] = r /\ c.loc[r] = Uc[Registers[i]]

\* A frame is resumed with every register unw_get_reg reported for it, the ip and the
\* registers a personality routine has set among them (Gresume.c:82-95): unless the
\* register is in the context's slot of one copied before, or the ip is that of a step
\* that failed.
ResumeRestores ==
  pc = "resumed" =>
    \A r \in Regs :
      want[r].ret = 0 /\ ~Overwritten(r) /\ (r = "RIP" => known[r] # None) =>
        regs[r] = want[r].val

\* The description of a procedure that a valid pi holds is that of the procedure the
\* cursor is in, across steps by unwind information, by the frame chain and failed ones
\* (Gparser.c:412, dwarf_Gstep.c:35): unless the ip was written over, or a failed step has
\* changed use_prev_instr, after pi was fetched; and unless the search fell into a hole.
ProcInfoIsOfTheFrame ==
  pc = "cursor" /\ c.pi_valid /\ clean => c.pi \in {Owner(Key(c)), "stray"}

\* A standard frame, stashed in this trace or an earlier one with other register values,
\* takes the trace to the same ip, CFA and frame pointer as unw_step would, to be looked up
\* at the same address, unless that turns the frame down for not leading anywhere
\* (Gtrace.c:467-479, Gstash_frame.c:52-78).  The return address of the row must be saved
\* at an offset from the CFA, as Gstash_frame.c:57 compares addresses, and the frame be no
\* signal frame.
RetraceIsTheStep ==
  pc = "advance" /\ cache[t.rip].type = "standard" /\ ~cache[t.rip].last =>
    \A s \in {unw_step(TraceCursor(c, t), TraceMemory(t), 0)},
       a \in {Advance(c, t, cache[t.rip])}, p \in {Owner(t.rip)} :
       ~Signal[p] /\ Row[p][t.rip + 1].reg["RIP"].where = "cfarel" /\ a.ret = 0 =>
         \/ s.ret = EBADFRAME
         \/ /\ s.ret = 1 /\ s.k.use_prev_instr = 1
            /\ s.k.ip = a.u.rip /\ s.k.cfa = a.u.cfa
            /\ unw_get_reg(s.k, TraceMemory(t), "RBP").val = a.u.rbp
=============================================================================
