---------------------------- MODULE MCDwarfExpr ----------------------------
(* The instance of DwarfExpr that TLC checks: words of 8 one-bit bytes.       *)
EXTENDS DwarfExpr

O(op, a, b) == [op |-> op, a |-> a, b |-> b]

\* Every opcode: with its operands where it has some.
AllOps ==
  {O(op, 0, 0) : op \in {"deref", "abs", "neg", "not", "dup", "drop", "over", "swap",
                         "rot", "nop", "constu", "unknown"} \cup BinaryOps}
    \cup {O("lit", 0, 0), O("lit", 0, 9), O("addr", 200, 0), O("const1s", 1, 0),
          O("const2u", 3, 0), O("const8u", 128, 0), O("deref_size", 3, 0),
          O("deref_size", 6, 0), O("deref_size", 9, 0), O("plus_uconst", 100, 0),
          O("pick", 1, 0), O("pick", 2, 0), O("breg", 5, 0), O("breg", 0, 7),
          O("bregx", 1, 250), O("reg", 0, 1), O("regx", 7, 0), O("piece", 1, 0),
          O("skip", 0, 0), O("skip", 1, 0), O("skip", -2, 0), O("bra", 1, 0),
          O("bra", -2, 0)}

\* Those that move words on the stack, and jump.
MovingOps ==
  {i \in AllOps : i.op \in {"dup", "drop", "over", "swap", "rot", "pick", "minus"}}
    \cup {O("lit", 0, 9), O("bra", 1, 0), O("bra", -2, 0)}

MCRegs == [r \in 0..1 |-> 10 * r + 3]
MCMem == [w \in Word |-> (37 * w + 181) % 256]
=============================================================================
