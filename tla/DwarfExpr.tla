----------------------------- MODULE DwarfExpr -----------------------------
(***************************************************************************)
(* dwarf_eval_expr (Gexpr.c): the stack machine that evaluates the DWARF   *)
(* expressions of rules and of CFAs.                                       *)
(*                                                                         *)
(* The expression is not fixed beforehand: an instruction is chosen when   *)
(* its address is reached for the first time, so that every expression is  *)
(* evaluated, jumps included.  An instruction is one cell of the program   *)
(* and its operands are decoded: a is the first one, and b the second or   *)
(* the number that is part of the opcode.  A word has 8 bytes of ByteBits  *)
(* bits.                                                                   *)
(***************************************************************************)
EXTENDS Integers, Sequences, Bitwise

CONSTANTS ByteBits,  \* 8
          MaxStack,  \* MAX_EXPR_STACK_SIZE, 64
          Instr,     \* the instructions: records with op, a and b
          Long,      \* those of which an expression may have more
          MaxLen, MaxLong, \* bounds on the two kinds of expressions
          Regs,      \* the values of the registers, by DWARF number
          Mem,       \* the words in memory
          Cfa        \* c->cfa

Bits(n) == 2 ^ (n * ByteBits)
Word == 0..(Bits(8) - 1)

ConstOps == {"addr", "const1u", "const2u", "const4u", "const8u", "const8s", "constu",
             "consts"}
SignedConsts == {"const1s", "const2s", "const4s"}
UnaryOps == {"deref", "deref_size", "abs", "neg", "not", "plus_uconst"}
CompareOps == {"le", "ge", "eq", "lt", "gt", "ne"}
BinaryOps == CompareOps \cup {"and", "div", "minus", "mod", "mul", "or", "plus", "shl",
                              "shr", "shra", "xor"}
InvalidOps == {"call2", "call4", "call_ref", "fbreg", "piece", "push_object_address",
               "xderef", "xderef_size", "unknown"}
Ops == ConstOps \cup SignedConsts \cup UnaryOps \cup BinaryOps \cup InvalidOps
         \cup {"lit", "breg", "bregx", "reg", "regx", "dup", "drop", "pick", "over",
               "swap", "rot", "skip", "bra", "nop"}

\* The table operands: the opcodes that are followed by an operand.
HasOperand ==
  ((ConstOps \cup SignedConsts) \ {"constu", "consts"})
    \cup {"pick", "plus_uconst", "skip", "bra", "breg", "regx", "fbreg", "bregx", "piece",
          "deref_size", "xderef_size", "call2", "call4", "call_ref"}

ASSUME ExprAssumption ==
  /\ {ByteBits, MaxStack} \subseteq Nat \ {0} /\ {MaxLen, MaxLong} \subseteq Nat
  /\ Long \subseteq Instr /\ Instr \subseteq [op : Ops, a : Int, b : Int]
  /\ \A r \in DOMAIN Regs : Regs[r] \in Word
  /\ \A w \in Word : Mem[w] \in Word
  /\ Cfa \in Word

Junk == -1 \* an element of the stack array that was never stored to

VARIABLES
  prog,      \* the instructions read so far, by address
  len,       \* the end of the expression
  addr,      \* *addr
  stack, tos,
  operand1,  \* keeps its value from one instruction to the next
  ret,       \* "none" until the function returns
  valp,      \* *valp
  hist       \* history: the instructions run, each with its operand1

vars == <<prog, len, addr, stack, tos, operand1, ret, valp, hist>>

\* The CFA is pushed first.
Init ==
  /\ prog = <<>> /\ len \in 0..MaxLong
  /\ addr = 1
  /\ stack = [n \in 0..(MaxStack - 1) |-> IF n = 0 THEN Cfa ELSE Junk]
  /\ tos = 1
  /\ operand1 = 0
  /\ ret = "none" /\ valp = Junk
  /\ hist = <<>>
-----------------------------------------------------------------------------
Wrap(n) == n % Bits(8)
sword(w) == IF 2 * w >= Bits(8) THEN w - Bits(8) ELSE w

SignExtend(w, bytes) == IF 2 * w >= Bits(bytes) THEN Wrap(w - Bits(bytes)) ELSE w

Bool(b) == IF b THEN 1 ELSE 0
Shift(n) == n % (8 * ByteBits) \* the processor's

\* C's division truncates.
Quotient(n, d) ==
  LET q == (IF n < 0 THEN -n ELSE n) \div (IF d < 0 THEN -d ELSE d)
  IN IF (n < 0) = (d < 0) THEN q ELSE -q

\* The quotient of the least number and -1 is none: the processor traps.
Traps(x, y) == sword(x) = -1 /\ 2 * y = Bits(8)

\* Of a word, deref_size keeps the low bytes for sizes up to 4 and, by the mask of
\* Gexpr.c:420, the high ones for 5 to 7.
Sized(w, bytes) ==
  IF bytes \in 5..7 THEN w - (w % Bits(bytes)) ELSE w % Bits(bytes)

Unary(ins, x) ==
  CASE ins.op = "deref" -> Mem[x]
    [] ins.op = "deref_size" -> Sized(Mem[x], ins.a)
    [] ins.op = "abs" -> IF sword(x) < 0 THEN Wrap(-x) ELSE x
    [] ins.op = "neg" -> Wrap(-x)
    [] ins.op = "not" -> Bits(8) - 1 - x
    [] ins.op = "plus_uconst" -> Wrap(x + ins.a)

\* x is popped first, y second.  With x = 0, div, mod and mul leave it.
Compare(op, x, y) ==
  LET X == sword(x)
      Y == sword(y)
  IN Bool(CASE op = "le" -> X <= Y [] op = "ge" -> X >= Y [] op = "eq" -> X = Y
            [] op = "lt" -> X < Y  [] op = "gt" -> X > Y  [] op = "ne" -> X # Y)

Binary(op, x, y) ==
  CASE op = "and" -> x & y
    [] op = "or" -> x | y
    [] op = "xor" -> x ^^ y
    [] op = "plus" -> Wrap(x + y)
    [] op = "minus" -> Wrap(y - x)
    [] op = "div" -> IF x = 0 THEN 0 ELSE Wrap(Quotient(sword(y), sword(x)))
    [] op = "mod" -> IF x = 0 THEN 0 ELSE y % x
    [] op = "mul" -> Wrap(x * y)
    [] op = "shl" -> Wrap(y * 2 ^ Shift(x))
    [] op = "shr" -> y \div 2 ^ Shift(x)
    [] op = "shra" -> Wrap(sword(y) \div 2 ^ Shift(x))
    [] op \in CompareOps -> Compare(op, x, y)
-----------------------------------------------------------------------------
\* The bounds: longer expressions are made of the instructions in Long, and none
\* jumps to before its start.
Readable ==
  {ins \in IF len <= MaxLen THEN Instr ELSE Long :
     ins.op \in {"skip", "bra"} => addr + 1 + ins.a >= 1}

\* operand1, in which the signed constants are extended; a branch reads 2 bytes.
Operand(ins) ==
  CASE ins.op = "const1s" -> SignExtend(ins.a, 1)
    [] ins.op = "const2s" -> SignExtend(ins.a, 2)
    [] ins.op = "const4s" -> SignExtend(ins.a, 4)
    [] ins.op \in {"skip", "bra"} -> ins.a % Bits(2)
    [] OTHER -> Wrap(ins.a)

\* ins is the instruction at addr: the one read there before, or any.
Reads(ins) ==
  /\ ret = "none" /\ addr <= len
  /\ IF addr \in DOMAIN prog THEN ins = prog[addr] ELSE ins \in Readable
  /\ prog' = [n \in DOMAIN prog \cup {addr} |-> IF n = addr THEN ins ELSE prog[n]]
  /\ operand1' = IF ins.op \in HasOperand THEN Operand(ins) ELSE operand1
  /\ hist' = IF Len(hist) < MaxLong THEN Append(hist, [ins EXCEPT !.a = operand1'])
                                    ELSE hist
  /\ UNCHANGED len

Return(r, v) ==
  /\ ret' = r /\ valp' = v
  /\ UNCHANGED <<addr, stack, tos>>

\* pop: unsigned, so that an empty stack fails the comparison with the size.
Underflow(pops) == tos < pops
Popped(pops) == [n \in 1..pops |-> stack[tos - n]] \* the top first

\* An instruction that pops, pushes the words new, the last one on top, and goes on
\* at addr + 1 + offset.
Goes(pops, new, offset) ==
  LET base == tos - pops
  IN IF base + Len(new) > MaxStack
       THEN Return("EINVAL", valp)
       ELSE /\ stack' = [n \in DOMAIN stack |-> IF n >= base /\ n < base + Len(new)
                                                  THEN new[n - base + 1] ELSE stack[n]]
            /\ tos' = base + Len(new)
            /\ addr' = addr + 1 + offset
            /\ UNCHANGED <<ret, valp>>

Pops(op) ==
  CASE op \in UnaryOps \cup {"drop", "bra"} -> 1
    [] op \in BinaryOps \cup {"swap"} -> 2
    [] op = "rot" -> 3
    [] OTHER -> 0

RegOf(ins, opnd) == IF ins.op = "bregx" THEN opnd ELSE ins.b

\* What an instruction pushes that takes nothing from the stack, with its operand1.
Constant(ins, opnd) ==
  CASE ins.op = "lit" -> ins.b
    [] ins.op = "breg" -> Wrap(Regs[RegOf(ins, opnd)] + opnd)
    [] ins.op = "bregx" -> Wrap(Regs[RegOf(ins, opnd)] + ins.b)
    [] OTHER -> opnd

\* A register that cannot be read ends the evaluation.
Push ==
  \E ins \in Instr :
    /\ ins.op \in ConstOps \cup SignedConsts \cup {"lit", "breg", "bregx"}
    /\ Reads(ins)
    /\ IF ins.op \in {"breg", "bregx"} /\ RegOf(ins, operand1') \notin DOMAIN Regs
         THEN Return("EBADREG", valp)
         ELSE Goes(0, <<Constant(ins, operand1')>>, 0)

\* A register location ends the evaluation.
Register ==
  \E ins \in Instr :
    /\ ins.op \in {"reg", "regx"}
    /\ Reads(ins)
    /\ Return("register", IF ins.op = "reg" THEN ins.b ELSE operand1')

\* Mutant: the index is off by one.
PickIndexAbove(n) == tos - n

PickIndex(n) == tos - 1 - n

\* pick: an index outside of the array ends the evaluation; unsigned as well.
Pick ==
  \E ins \in Instr :
    /\ ins.op \in {"dup", "over", "pick"}
    /\ Reads(ins)
    /\ LET n == CASE ins.op = "dup" -> 0 [] ins.op = "over" -> 1 [] OTHER -> operand1'
       IN IF PickIndex(n) \in 0..(MaxStack - 1)
            THEN Goes(0, <<stack[PickIndex(n)]>>, 0)
            ELSE Return("EINVAL", valp)

\* Mutant: the rotation goes the other way.
RearrangedBack(op, p) ==
  CASE op = "swap" -> <<p[1], p[2]>> [] op = "rot" -> <<p[2], p[1], p[3]>>
    [] op = "drop" -> <<>>

\* The words p popped, the top first, in the order they are pushed again.
Rearranged(op, p) ==
  CASE op = "swap" -> <<p[1], p[2]>> [] op = "rot" -> <<p[1], p[3], p[2]>>
    [] op = "drop" -> <<>>

Compute ==
  \E ins \in Instr :
    /\ ins.op \in UnaryOps \cup BinaryOps \cup {"drop", "swap", "rot"}
    /\ Reads(ins)
    /\ LET p == Popped(Pops(ins.op))
       IN CASE Underflow(Pops(ins.op)) \/ (ins.op = "deref_size" /\ ins.a \notin 1..8) ->
                 Return("EINVAL", valp)
            [] ins.op = "div" /\ Traps(p[1], p[2]) -> Return("trap", valp)
            [] OTHER ->
                 Goes(Pops(ins.op),
                      CASE ins.op \in UnaryOps -> <<Unary(ins, p[1])>>
                        [] ins.op \in BinaryOps -> <<Binary(ins.op, p[1], p[2])>>
                        [] OTHER -> Rearranged(ins.op, p), 0)

\* Mutant: the offset counts from the instruction itself.
TargetSelf(ins, taken) == IF taken THEN ins.a - 1 ELSE 0

Target(ins, taken) == IF taken THEN ins.a ELSE 0

Branch ==
  \E ins \in Instr :
    /\ ins.op \in {"skip", "bra", "nop"}
    /\ Reads(ins)
    /\ IF Underflow(Pops(ins.op))
         THEN Return("EINVAL", valp)
         ELSE Goes(Pops(ins.op), <<>>,
                   Target(ins, \/ ins.op = "skip"
                               \/ ins.op = "bra" /\ Popped(1)[1] # 0))

Invalid ==
  \E ins \in Instr :
    /\ ins.op \in InvalidOps
    /\ Reads(ins)
    /\ Return("EINVAL", valp)

\* *valp = pop ()
End ==
  /\ ret = "none" /\ addr > len
  /\ IF Underflow(1) THEN Return("EINVAL", valp) ELSE Return("value", stack[tos - 1])
  /\ UNCHANGED <<prog, len, operand1, hist>>

dwarf_eval_expr == Push \/ Register \/ Pick \/ Compute \/ Branch \/ Invalid \/ End

Done == ret # "none" /\ UNCHANGED vars

Next == dwarf_eval_expr \/ Done

Spec == Init /\ [][Next]_vars
FairSpec == Spec /\ WF_vars(dwarf_eval_expr)
-----------------------------------------------------------------------------
\* No expression makes the evaluator read an element of its stack array that it has
\* not stored to before (Gexpr.c:204-231): whatever is below tos was pushed, and a
\* value that is returned is one.
NothingUninitialised ==
  /\ \A n \in 0..(tos - 1) : stack[n] # Junk
  /\ ret = "value" => valp \in Word

Straight == \A n \in DOMAIN prog : prog[n].op \notin {"skip", "bra"}

(***************************************************************************)
(* The stack by definition: element d from the top after n instructions of *)
(* a straight expression, as the tree of the instructions that made it.    *)
(***************************************************************************)
RECURSIVE Element(_, _)
Element(n, d) ==
  IF n = 0 THEN Cfa
  ELSE
    LET ins == hist[n]
        k == Pops(ins.op)
        pushed == CASE ins.op \in {"drop", "nop"} -> 0
                    [] ins.op \in {"swap", "rot"} -> k
                    [] OTHER -> 1
        old(e) == Element(n - 1, e)
    IN IF d >= pushed THEN old(d - pushed + k)
       ELSE CASE ins.op \in UnaryOps -> Unary(ins, old(0))
              [] ins.op \in BinaryOps -> Binary(ins.op, old(0), old(1))
              [] ins.op = "dup" -> old(0)
              [] ins.op = "over" -> old(1)
              [] ins.op = "pick" -> old(ins.a)
              [] ins.op = "swap" -> old(1 - d)
              [] ins.op = "rot" -> old((d + 1) % 3)
              [] OTHER -> Constant(ins, ins.a)

\* The words on the stack array are those of the definition (Gexpr.c:427-463).
StackIsByDefinition ==
  ret = "none" /\ Straight => \A d \in 0..(tos - 1) : stack[tos - 1 - d] = Element(Len(hist), d)

\* An expression is evaluated to the end, unless it jumps back (Gexpr.c:615-625).
ForwardEnds ==
  <>(ret # "none" \/ \E n \in DOMAIN prog : prog[n].op \in {"skip", "bra"} /\ prog[n].a < 0)
=============================================================================
