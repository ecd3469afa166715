----------------------------- MODULE Encodings -----------------------------
(***************************************************************************)
(* How numbers and pointers are read from unwind tables (dwarf_i.h): the   *)
(* fixed-size readers, the LEB128 readers and the pointer encodings.       *)
(*                                                                         *)
(* Memory is a sequence of cells, the address of a cell being its index.   *)
(* A cell is a byte of ByteBits bits, or, where the format keeps something *)
(* else in one byte, a character or a pointer encoding.  In the local      *)
(* address space a read cannot fail, so a reader is what it returns: the   *)
(* value as a word and the address behind it.                              *)
(***************************************************************************)
EXTENDS Integers, Sequences, FiniteSetsExt

CONSTANTS ByteBits, \* 8
          Size      \* the bytes of a number, by its size in the code: 1, 2, 4 or 8

ASSUME SizeAssumption ==
  /\ ByteBits \in Nat /\ ByteBits > 1
  /\ Size \in [{1, 2, 4, 8} -> Nat \ {0}]
  /\ Size[1] = 1 /\ Size[2] <= Size[4] /\ Size[4] <= Size[8]

Bits(n) == 2 ^ (n * ByteBits)
Word == 0..(Bits(Size[8]) - 1)
Wrap(n) == n % Bits(Size[8])

\* The word with the sign of a number of n bytes.
Signed(v, n) == IF 2 * v >= Bits(n) THEN Wrap(v - Bits(n)) ELSE v

\* What is behind the tables reads as 0.
Cell(mem, a) == IF a \in DOMAIN mem THEN mem[a] ELSE 0

\* A number of n bytes, the least significant first.
RECURSIVE Number(_, _, _)
Number(mem, addr, n) ==
  IF n = 0 THEN 0 ELSE Cell(mem, addr) + 2 ^ ByteBits * Number(mem, addr + 1, n - 1)

\* dwarf_readu8 to dwarf_readu64, and dwarf_reads16 to dwarf_reads64.
readu(mem, addr, n) == [val |-> Number(mem, addr, n), addr |-> addr + n]
reads(mem, addr, n) ==
  LET r == readu(mem, addr, n) IN [r EXCEPT !.val = Signed(r.val, n)]

dwarf_readw(mem, addr) == readu(mem, addr, Size[8])
-----------------------------------------------------------------------------
\* The loop of both LEB128 readers: all bits but the top one of each byte, until a
\* top bit is clear.
Data == 2 ^ (ByteBits - 1)

RECURSIVE LebLoop(_, _, _, _)
LebLoop(mem, addr, val, shift) ==
  LET byte == Cell(mem, addr)
      v == Wrap(val + (byte % Data) * 2 ^ shift)
  IN IF byte >= Data
       THEN LebLoop(mem, addr + 1, v, shift + ByteBits - 1)
       ELSE [val |-> v, addr |-> addr + 1, shift |-> shift + ByteBits - 1,
             negative |-> 2 * byte >= Data]

dwarf_read_uleb128(mem, addr) ==
  LET r == LebLoop(mem, addr, 0, 0) IN [val |-> r.val, addr |-> r.addr]

\* Mutant: no sign extension.
dwarf_read_sleb128Unsigned(mem, addr) == dwarf_read_uleb128(mem, addr)

dwarf_read_sleb128(mem, addr) ==
  LET r == LebLoop(mem, addr, 0, 0)
  IN [val |-> IF r.shift < Size[8] * ByteBits /\ r.negative
                THEN Wrap(r.val - 2 ^ r.shift) ELSE r.val,
      addr |-> r.addr]
-----------------------------------------------------------------------------
(***************************************************************************)
(* A pointer encoding: the format of the number, what it is relative to,   *)
(* and whether it is the address of the pointer.  Two encodings have no    *)
(* such parts.                                                             *)
(***************************************************************************)
Formats == {"ptr", "uleb128", "udata2", "udata4", "udata8", "sleb128", "sdata2", "sdata4",
            "sdata8", "badformat"}
Applications == {"absptr", "pcrel", "datarel", "funcrel", "textrel"}
Enc(format, appl, indirect) == [format |-> format, appl |-> appl, indirect |-> indirect]
Omit == Enc("omit", "absptr", FALSE)
Aligned == Enc("aligned", "absptr", FALSE)
Encoding == {Omit, Aligned} \cup {Enc(f, a, i) : f \in Formats, a \in Applications, i \in BOOLEAN}

\* The number, by the format.  DW_EH_PE_sleb128 is read as unsigned.
ReadFormat(mem, addr, format) ==
  CASE format = "ptr" -> dwarf_readw(mem, addr)
    [] format \in {"uleb128", "sleb128"} -> dwarf_read_uleb128(mem, addr)
    [] format = "udata2" -> readu(mem, addr, Size[2])
    [] format = "udata4" -> readu(mem, addr, Size[4])
    [] format = "udata8" -> readu(mem, addr, Size[8])
    [] format = "sdata2" -> reads(mem, addr, Size[2])
    [] format = "sdata4" -> reads(mem, addr, Size[4])
    [] format = "sdata8" -> reads(mem, addr, Size[8])

Base(appl, initial_addr, pi) ==
  CASE appl = "absptr" -> 0
    [] appl = "pcrel" -> initial_addr
    [] appl = "datarel" -> pi.gp
    [] appl = "funcrel" -> pi.start_ip

EINVAL == "EINVAL"

\* An address size of 8 needs no trimming.  A number of 0 is a null pointer, whatever
\* it is relative to.
dwarf_read_encoded_pointer(mem, addr, enc, pi) ==
  LET result(r, v, a) == [ret |-> r, val |-> v, addr |-> a]
      aligned == dwarf_readw(mem, ((addr + Size[8] - 1) \div Size[8]) * Size[8])
      n == ReadFormat(mem, addr, enc.format)
      p == Wrap(n.val + Base(enc.appl, addr, pi))
  IN CASE enc = Omit -> result("ok", 0, addr)
       [] enc = Aligned -> result("ok", aligned.val, aligned.addr)
       [] enc.format = "badformat" -> result(EINVAL, 0, addr)
       [] enc \notin {Omit, Aligned} /\ enc.format # "badformat" ->
            IF n.val = 0 THEN result("ok", 0, n.addr)
            ELSE IF enc.appl = "textrel" THEN result(EINVAL, 0, n.addr)
            ELSE result("ok", IF enc.indirect THEN dwarf_readw(mem, p).val ELSE p, n.addr)
=============================================================================
