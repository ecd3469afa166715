----------------------------- MODULE CfiProgram -----------------------------
(***************************************************************************)
(* The interpreter of DWARF call frame instructions (Gparser.c): parse_fde *)
(* runs the CIE's program to the end, keeps the resulting row as the       *)
(* initial one, and runs the FDE's program up to the instruction pointer.  *)
(* The row gives, for each preserved register and for the CFA, the rule by *)
(* which its value in the caller is found.                                 *)
(*                                                                         *)
(* The program is not fixed beforehand: each step reads any instruction or *)
(* the end of the program, so that every program is run.  Local reads do   *)
(* not fail in this build.                                                 *)
(***************************************************************************)
EXTENDS Integers, Sequences, FiniteSets

CONSTANTS NumRegs,    \* DWARF_NUM_PRESERVED_REGS
          Instr,      \* the instructions: records with op, reg and val
          CodeAlign, DataAlign,  \* dci->code_align and dci->data_align
          StartIp, EndIp,        \* pi->start_ip and pi->end_ip of the FDE
          MaxCie, MaxFde, \* bounds on the instructions of the two programs
          Nesting, MaxNesting \* FDEs of these instructions alone may be longer

Regs == 0..(NumRegs - 1)
CfaReg == NumRegs     \* DWARF_CFA_REG_COLUMN
CfaOff == NumRegs + 1 \* DWARF_CFA_OFF_COLUMN
Columns == 0..(NumRegs + 1)

AdvanceOps == {"advance_loc", "advance_loc1", "advance_loc2", "advance_loc4"}
CfaRelOps == {"offset", "offset_extended", "offset_extended_sf"}
RuleOps == CfaRelOps \cup {"GNU_negative_offset_extended", "undefined", "same_value",
                           "register", "expression"}
RestoreOps == {"restore", "restore_extended"}
CfaOps == {"def_cfa", "def_cfa_sf", "def_cfa_register", "def_cfa_offset",
           "def_cfa_offset_sf", "def_cfa_expression"}
InvalidOps == {"MIPS_advance_loc8", "GNU_window_save", "lo_user", "hi_user"}
Ops == AdvanceOps \cup RuleOps \cup RestoreOps \cup CfaOps \cup InvalidOps
         \cup {"set_loc", "remember_state", "restore_state", "GNU_args_size", "nop"}

Instruction == [op : Ops, reg : Nat, val : Int]

ASSUME CfiAssumption ==
  /\ NumRegs \in Nat \ {0}
  /\ Instr \subseteq Instruction
  /\ CodeAlign \in Nat /\ DataAlign \in Int
  /\ StartIp \in Nat /\ EndIp \in Nat /\ StartIp < EndIp
  /\ MaxCie \in Nat /\ MaxFde \in Nat
  /\ Nesting \subseteq Instr /\ MaxNesting \in Nat

Where == {"undef", "same", "cfarel", "reg", "expr"}
Loc(w, v) == [where |-> w, val |-> v]

VARIABLES
  ip,         \* run_cfi_program's ip for the FDE: c->ip
  call_frame, \* c->use_prev_instr when the FDE was looked up
  pc,         \* "cie" or "fde": the program that runs; "done"
  curr_ip,    \* curr_ip
  row,        \* sr->rs_current.reg
  initial,    \* sr->rs_initial.reg
  rs_stack,   \* the rows of the remembered states, the last one first
  in_use,     \* reg_state objects taken from dwarf_reg_state_pool and not returned
  hist,       \* history variable: the instructions this program ran, each with the
              \* curr_ip it ran at
  ret         \* what parse_fde returns

input == <<ip, call_frame>>
vars == <<ip, call_frame, pc, curr_ip, row, initial, rs_stack, in_use, hist, ret>>

\* create_state_record_for: the record is cleared, which makes every initial rule
\* DWARF_WHERE_UNDEF, and every current one is set to DWARF_WHERE_SAME.  The FDE
\* covers the ip, or the instruction before it in a call frame.
Init ==
  /\ call_frame \in BOOLEAN
  /\ ip \in IF call_frame THEN (StartIp + 1)..EndIp ELSE StartIp..(EndIp - 1)
  /\ pc = "cie"
  /\ curr_ip = StartIp
  /\ row = [c \in Columns |-> Loc("same", 0)]
  /\ initial = [c \in Columns |-> Loc("undef", 0)]
  /\ rs_stack = <<>>
  /\ in_use = 0
  /\ hist = <<>>
  /\ ret = "none"
-----------------------------------------------------------------------------
\* The bounds: the instructions the program may go on with.
Readable ==
  CASE pc = "cie" /\ Len(hist) < MaxCie -> Instr
    [] pc = "fde" /\ Len(hist) < MaxFde -> Instr
    [] /\ pc = "fde" /\ Len(hist) \in MaxFde..(MaxNesting - 1)
       /\ \A n \in 1..Len(hist) : hist[n].ins \in Nesting -> Nesting
    [] OTHER -> {}

\* The condition of run_cfi_program's loop on the ip; the CIE runs with ~0.
Continues == pc = "cie" \/ (pc = "fde" /\ curr_ip <= ip)

NamesReg(ins) ==
  ins.op \in RuleOps \cup RestoreOps \cup {"def_cfa", "def_cfa_sf", "def_cfa_register"}

\* The instruction ends the program with an error.
Fails(ins) ==
  \/ ins.op \in InvalidOps
  \/ NamesReg(ins) /\ ins.reg >= NumRegs
  \/ ins.op = "restore_state" /\ rs_stack = <<>>

Rule(ins) ==
  CASE ins.op \in CfaRelOps -> Loc("cfarel", ins.val * DataAlign)
    [] ins.op = "GNU_negative_offset_extended" -> Loc("cfarel", -(ins.val * DataAlign))
    [] ins.op = "undefined" -> Loc("undef", 0)
    [] ins.op = "same_value" -> Loc("same", 0)
    [] ins.op = "register" -> Loc("reg", ins.val)
    [] ins.op = "expression" -> Loc("expr", ins.val)

\* set_reg of the CFA's offset; the _sf forms are factored.  Its `where' is 0.
CfaOffset(ins) ==
  Loc("undef", IF ins.op \in {"def_cfa_sf", "def_cfa_offset_sf"}
                 THEN ins.val * DataAlign ELSE ins.val)

\* Mutant: restore_state keeps the CFA's columns.
RememberedRegs == [c \in Columns |-> IF c \in Regs THEN Head(rs_stack)[c] ELSE row[c]]

\* DW_CFA_restore takes the rule of the initial row, DW_CFA_restore_state the whole row
\* on top of the stack.
Restored(ins) == initial[ins.reg]
Remembered == Head(rs_stack)

\* The row after an instruction that does not fail.
RowAfter(ins) ==
  CASE ins.op \in RuleOps -> [row EXCEPT ![ins.reg] = Rule(ins)]
    [] ins.op \in RestoreOps -> [row EXCEPT ![ins.reg] = Restored(ins)]
    [] ins.op \in {"def_cfa", "def_cfa_sf"} ->
         [row EXCEPT ![CfaReg] = Loc("reg", ins.reg), ![CfaOff] = CfaOffset(ins)]
    [] ins.op = "def_cfa_register" -> [row EXCEPT ![CfaReg] = Loc("reg", ins.reg)]
    [] ins.op \in {"def_cfa_offset", "def_cfa_offset_sf"} ->
         [row EXCEPT ![CfaOff] = CfaOffset(ins)]
    [] ins.op = "def_cfa_expression" -> [row EXCEPT ![CfaReg] = Loc("expr", ins.val)]
    [] ins.op = "restore_state" -> Remembered
    [] OTHER -> row

CurrIpAfter(ins) ==
  CASE ins.op \in AdvanceOps -> curr_ip + ins.val * CodeAlign
    [] ins.op = "set_loc" -> ins.val
    [] OTHER -> curr_ip

StackAfter(ins) ==
  CASE ins.op = "remember_state" -> <<row>> \o rs_stack
    [] ins.op = "restore_state" -> Tail(rs_stack)
    [] OTHER -> rs_stack

\* How many reg_states the instruction takes from the pool, or -1 for one it returns.
Taken(ins) ==
  CASE ins.op = "remember_state" -> 1
    [] ins.op = "restore_state" -> -1
    [] OTHER -> 0

\* One turn of run_cfi_program's loop.
Step ==
  \E ins \in Readable :
    /\ Continues
    /\ ~Fails(ins)
    /\ row' = RowAfter(ins)
    /\ curr_ip' = CurrIpAfter(ins)
    /\ rs_stack' = StackAfter(ins)
    /\ in_use' = in_use + Taken(ins)
    /\ hist' = Append(hist, [ins |-> ins, curr_ip |-> curr_ip])
    /\ UNCHANGED <<input, pc, initial, ret>>

\* Mutant: the loop at `fail:' leaks the states.
FreeStackLeaking == rs_stack' = <<>> /\ UNCHANGED in_use

\* The loop at `fail:' returns what is left of the register-state stack.
FreeStack == rs_stack' = <<>> /\ in_use' = in_use - Len(rs_stack)

Fail ==
  \E ins \in Readable :
    /\ Continues
    /\ Fails(ins)
    /\ FreeStack
    /\ pc' = "done"
    /\ ret' = "error"
    /\ UNCHANGED <<input, curr_ip, row, initial, hist>>

\* The CIE's program ends: parse_fde keeps the row and starts the FDE's program.
EndCie ==
  /\ pc = "cie"
  /\ FreeStack
  /\ initial' = row
  /\ curr_ip' = StartIp
  /\ hist' = <<>>
  /\ pc' = "fde"
  /\ UNCHANGED <<input, row, ret>>

\* The FDE's program ends, or has gone past the ip.
EndFde ==
  /\ pc = "fde"
  /\ FreeStack
  /\ pc' = "done"
  /\ ret' = "success"
  /\ UNCHANGED <<input, curr_ip, row, initial, hist>>

Done == pc = "done" /\ UNCHANGED vars

Next == Step \/ Fail \/ EndCie \/ EndFde \/ Done

Spec == Init /\ [][Next]_vars
-----------------------------------------------------------------------------
\* Every register state the interpreter takes from the pool is on its stack, and
\* when it returns, on whichever path, all are back in the pool (Gparser.c:378-386).
StatesReturned ==
  /\ in_use = Len(rs_stack)
  /\ pc = "done" => in_use = 0

-----------------------------------------------------------------------------
(* The row by definition: a register has the rule of the last instruction that *)
(* writes it and that no pair of remember_state and restore_state encloses.    *)

Op(n) == hist[n].ins.op
Count(op, a, b) == Cardinality({m \in a..b : Op(m) = op})

\* restore_state number n undoes back to remember_state number m: the pairs between
\* them are balanced.
Pair(m, n) ==
  /\ m < n /\ Op(m) = "remember_state" /\ Op(n) = "restore_state"
  /\ \A p \in (m + 1)..(n - 1) :
       Count("restore_state", m + 1, p) <= Count("remember_state", m + 1, p)
  /\ Count("restore_state", m + 1, n - 1) = Count("remember_state", m + 1, n - 1)

Enclosed(p) == \E m \in 1..(p - 1), n \in (p + 1)..Len(hist) : Pair(m, n)

Writes(ins, c) ==
  \/ ins.op \in RuleOps \cup RestoreOps /\ c = ins.reg
  \/ ins.op \in {"def_cfa", "def_cfa_sf"} /\ c \in {CfaReg, CfaOff}
  \/ ins.op \in {"def_cfa_register", "def_cfa_expression"} /\ c = CfaReg
  \/ ins.op \in {"def_cfa_offset", "def_cfa_offset_sf"} /\ c = CfaOff

Written(ins, c) ==
  CASE ins.op \in RuleOps -> Rule(ins)
    [] ins.op \in RestoreOps -> initial[c]
    [] c = CfaOff -> CfaOffset(ins)
    [] ins.op = "def_cfa_expression" -> Loc("expr", ins.val)
    [] OTHER -> Loc("reg", ins.reg)

Start(c) == IF pc = "cie" THEN Loc("same", 0) ELSE initial[c]

\* The row the interpreter computes step by step, with its stack of remembered rows
\* (Gparser.c:239-266), is the row by definition: a restore_state brings back the
\* whole row of its own remember_state, the CFA's columns included, however deep
\* the states are nested, and restore brings back what the CIE said.
RowIsByDefinition ==
  pc # "done" =>
    \A c \in Columns :
      LET W == {p \in 1..Len(hist) : Writes(hist[p].ins, c) /\ ~Enclosed(p)}
      IN  \/ W = {} /\ row[c] = Start(c)
          \/ \E p \in W : (\A q \in W : q <= p) /\ row[c] = Written(hist[p].ins, c)
=============================================================================
