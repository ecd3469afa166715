------------------------------ MODULE EhFrame ------------------------------
(***************************************************************************)
(* Reading the entries of an .eh_frame or .debug_frame section (Gfde.c)    *)
(* and the binary search in a sorted table of them                         *)
(* (Gfind_proc_info-lsb.c, dwarf_search_unwind_table).                     *)
(*                                                                         *)
(* The input is what the entries are meant to say.  Section lays it out in *)
(* memory as the format has it; the readers are then run on that memory.   *)
(***************************************************************************)
EXTENDS Encodings, SequencesExt

CONSTANT Inputs

(***************************************************************************)
(* An input: a CIE (wide: in the 64-bit format; aug: its augmentation      *)
(* string; the pointer encodings the augmentation names), the FDEs that    *)
(* refer to it, and the call that reads them.  debug: the section is a     *)
(* .debug_frame.                                                           *)
(***************************************************************************)
Chars == {"z", "P", "L", "R", "S", "X"} \* X stands for any other, with one byte of data
Cie == [wide : BOOLEAN, version : Nat, aug : Seq(Chars), code_align : Word,
        data_align : Word, ret_addr_column : Word, handler : Word,
        handler_encoding : Encoding, lsda_encoding : Encoding, fde_encoding : Encoding]
Fde == [start : Word, range : Word, lsda : Word]
Call == [op : {"extract", "search"}, entry : Nat, ip : Word, segbase : Word, need : BOOLEAN,
         alloc : BOOLEAN]

ASSUME InputAssumption ==
  \A x \in Inputs : x.cie \in Cie /\ x.fdes \in Seq(Fde) /\ x.debug \in BOOLEAN /\ x.call \in Call

Null == 0
StalePi == [start_ip |-> 9, end_ip |-> 9, handler |-> Null, lsda |-> Null, gp |-> 0,
            flags |-> "none", unwind_info |-> <<>>]

VARIABLES x,   \* the input
          res  \* what the call returns, <<>> before it

vars == <<x, res>>
-----------------------------------------------------------------------------
(***************************************************************************)
(* The format, by which the input is laid out.                             *)
(***************************************************************************)
Escape == Bits(Size[4]) - 1 \* the length that announces the 64-bit format
IdSize(wide) == IF wide THEN Size[8] ELSE Size[4]
HeaderSize(wide) == IF wide THEN Size[4] + 2 * Size[8] ELSE 2 * Size[4]

Num(v, n) == [j \in 1..n |-> (v \div Bits(j - 1)) % 2 ^ ByteBits]
Sword(v) == IF 2 * v >= Bits(Size[8]) THEN v - Bits(Size[8]) ELSE v
Leb(s, k) == [j \in 1..k |-> ((s \div Data ^ (j - 1)) % Data) + (IF j < k THEN Data ELSE 0)]
Groups == 1..(Size[8] * ByteBits)
Uleb(v) == Leb(v, Min({k \in Groups : v < Data ^ k}))
Sleb(v) == LET s == Sword(v)
           IN Leb(s, Min({k \in Groups : -(Data ^ k) <= 2 * s /\ 2 * s < Data ^ k}))

\* The words that indirect pointers point to: the handler's and the LSDA's.
HandlerSlot == 1
LsdaSlot == HandlerSlot + Size[8]
SectionStart == LsdaSlot + Size[8]

RelativeTo(appl, at, pi) ==
  CASE appl = "pcrel" -> at [] appl = "datarel" -> pi.gp [] appl = "funcrel" -> pi.start_ip
    [] OTHER -> 0

\* The pointer v at the address at, or by the address slot of its word.
Ptr(v, enc, at, slot, pi) ==
  LET raw == IF v = 0 THEN 0
             ELSE Wrap((IF enc.indirect THEN slot ELSE v) - RelativeTo(enc.appl, at, pi))
      pad == (-at) % Size[8]
  IN CASE enc.format = "omit" -> <<>>
       [] enc.format = "aligned" -> [j \in 1..pad |-> 0] \o Num(v, Size[8])
       [] enc.format = "uleb128" -> Uleb(raw)
       [] enc.format = "sleb128" -> Sleb(raw)
       [] enc.format \in {"udata2", "sdata2"} -> Num(raw, Size[2])
       [] enc.format \in {"udata4", "sdata4"} -> Num(raw, Size[4])
       [] enc.format \in {"ptr", "udata8", "sdata8", "badformat"} -> Num(raw, Size[8])

\* The augmentation data of the CIE, at the address at.
AugData(c, at) ==
  FoldLeft(LAMBDA d, ch : d \o
             CASE ch = "P" -> <<c.handler_encoding>>
                                \o Ptr(c.handler, c.handler_encoding, at + Len(d) + 1,
                                       HandlerSlot, StalePi)
               [] ch = "L" -> <<c.lsda_encoding>>
               [] ch = "R" -> <<c.fde_encoding>>
               [] ch = "X" -> <<1>>
               [] OTHER -> <<>>,
           <<>>, c.aug)

Has(c, ch) == \E n \in DOMAIN c.aug : c.aug[n] = ch
Sized(c) == c.aug # <<>> /\ c.aug[1] = "z"

\* The size of an augmentation, if it is given, and its data: data[k] when k bytes of size
\* come before it.
Augmented(sized, before, data) ==
  LET fits(k) == Len(Uleb(Len(data[k]))) = k
      k == IF sized THEN Min({n \in Groups : fits(n)}) ELSE 0
  IN before \o (IF sized THEN Uleb(Len(data[k])) ELSE <<>>) \o data[k]

CieBody(c, at) ==
  LET start == <<c.version>> \o c.aug \o <<"">> \o Uleb(c.code_align) \o Sleb(c.data_align)
                 \o (IF c.version = 1 THEN <<c.ret_addr_column>> ELSE Uleb(c.ret_addr_column))
  IN Augmented(Sized(c), start, [k \in {0} \union Groups |-> AugData(c, at + Len(start) + k)])

Instruction == <<0>>

\* The encodings an FDE uses.
FdeEncoding(c) == IF Has(c, "R") THEN c.fde_encoding ELSE Enc("udata8", "absptr", FALSE)
LsdaEncoding(c) == IF Has(c, "L") THEN c.lsda_encoding ELSE Omit

FdeBody(c, f, at) ==
  LET enc == FdeEncoding(c)
      start == Ptr(f.start, enc, at, 0, StalePi)
      range == Ptr(f.range, Enc(enc.format, "absptr", FALSE), at + Len(start), 0, StalePi)
      lsda == [k \in {0} \union Groups |->
                 Ptr(f.lsda, LsdaEncoding(c), at + Len(start \o range) + k, LsdaSlot,
                     [StalePi EXCEPT !.start_ip = f.start])
                   \o IF Has(c, "S") THEN Num(1, Size[2]) \o Num(2, Size[2]) ELSE <<>>]
  IN Augmented(Sized(c), start \o range, lsda)

Entry(wide, id, body) ==
  LET len == IdSize(wide) + Len(body) + Len(Instruction)
  IN (IF wide THEN Num(Escape, Size[4]) \o Num(len, Size[8]) ELSE Num(len, Size[4]))
       \o Num(id, IdSize(wide)) \o body \o Instruction

\* The memory with the two words and the CIE, and the memory with the FDEs as well.
CieAt(inp) ==
  Num(inp.cie.handler, Size[8])
    \o Num(IF inp.fdes = <<>> THEN 0 ELSE inp.fdes[1].lsda, Size[8])
    \o Entry(inp.cie.wide, IF inp.debug THEN Bits(IdSize(inp.cie.wide)) - 1 ELSE 0,
             CieBody(inp.cie, SectionStart + HeaderSize(inp.cie.wide)))

AddFde(inp, mem, f) ==
  LET at == Len(mem) + 1
      idAt == at + HeaderSize(inp.cie.wide) - IdSize(inp.cie.wide)
  IN mem \o Entry(inp.cie.wide, IF inp.debug THEN 0 ELSE idAt - SectionStart,
                  FdeBody(inp.cie, f, at + HeaderSize(inp.cie.wide)))

Section(inp) == FoldLeft(LAMBDA mem, f : AddFde(inp, mem, f), CieAt(inp), inp.fdes)

\* The address of an entry: the CIE is entry 0, and behind the last one is the
\* section's terminator of length 0.
EntryAt(inp, n) ==
  IF n = 0 THEN SectionStart
  ELSE Len(FoldLeft(LAMBDA mem, f : AddFde(inp, mem, f), CieAt(inp),
                    SubSeq(inp.fdes, 1, n - 1))) + 1
-----------------------------------------------------------------------------
(***************************************************************************)
(* The readers of Gfde.c.                                                  *)
(***************************************************************************)
is_cie_id(val, is_debug_frame) ==
  IF is_debug_frame THEN val \in {Bits(Size[4]) - 1, Bits(Size[8]) - 1} ELSE val = 0

\* The length of an entry in either format: where its id is, and the entry's end.
ReadLength(mem, addr) ==
  LET u == readu(mem, addr, Size[4])
      w == readu(mem, u.addr, Size[8])
  IN IF u.val # Escape
       THEN [val |-> u.val, wide |-> FALSE, addr |-> u.addr, end |-> u.addr + u.val]
       ELSE [val |-> w.val, wide |-> TRUE, addr |-> w.addr, end |-> w.addr + w.val]

\* The augmentation string, of which four characters are kept.
RECURSIVE AugmentationEnd(_, _)
AugmentationEnd(mem, addr) == IF mem[addr] = "" THEN addr ELSE AugmentationEnd(mem, addr + 1)

Kept == 4

\* A pass of the loop over the augmentation string: the CIE info and the address
\* behind the data read so far.  An unknown character ends the loop.
RECURSIVE AugLoop(_, _, _, _, _)
AugLoop(mem, augstr, dci, addr, pi) ==
  LET more(d, a) == AugLoop(mem, Tail(augstr), d, a, pi)
      h == dwarf_read_encoded_pointer(mem, addr + 1, mem[addr], pi)
      result(r) == [ret |-> r, dci |-> dci, addr |-> addr]
  IN IF augstr = <<>> THEN result("ok")
     ELSE CASE Head(augstr) = "L" -> more([dci EXCEPT !.lsda_encoding = mem[addr]], addr + 1)
            [] Head(augstr) = "R" -> more([dci EXCEPT !.fde_encoding = mem[addr]], addr + 1)
            [] Head(augstr) = "P" ->
                 IF h.ret # "ok" THEN result(h.ret)
                 ELSE more([dci EXCEPT !.handler = h.val], h.addr)
            [] Head(augstr) = "S" ->
                 more([dci EXCEPT !.signal_frame = TRUE, !.have_abi_marker = TRUE], addr)
            [] OTHER -> result(IF dci.sized_augmentation THEN "ok" ELSE EINVAL)

\* The numbers and the augmentation of a CIE whose version is at addr and whose
\* augmentation string ends at strend.
ReadCie(mem, addr, strend, cie_instr_end, pi) ==
  LET augstr == SubSeq(mem, addr + 1, Min({strend - 1, addr + Kept}))
      sized == augstr # <<>> /\ augstr[1] = "z"
      code == dwarf_read_uleb128(mem, strend + 1)
      data == dwarf_read_sleb128(mem, code.addr)
      column == IF mem[addr] = 1 THEN readu(mem, data.addr, 1) ELSE dwarf_read_uleb128(mem, data.addr)
      dci == [cie_instr_end |-> cie_instr_end, code_align |-> code.val, data_align |-> data.val,
              ret_addr_column |-> column.val, handler |-> Null, lsda_encoding |-> Omit,
              fde_encoding |-> Enc("udata8", "absptr", FALSE), sized_augmentation |-> sized,
              signal_frame |-> FALSE, have_abi_marker |-> FALSE]
  IN IF sized
       THEN AugLoop(mem, Tail(augstr), dci, dwarf_read_uleb128(mem, column.addr).addr, pi)
       ELSE AugLoop(mem, augstr, dci, column.addr, pi)

\* addr is where the instructions of the CIE start.
parse_cie(mem, start, pi, is_debug_frame) ==
  LET len == ReadLength(mem, start)
      id == readu(mem, len.addr, IdSize(len.wide))
  IN IF id.val # (IF is_debug_frame THEN Bits(IdSize(len.wide)) - 1 ELSE 0)
       THEN [ret |-> EINVAL]
     ELSE IF mem[id.addr] \notin {1, 3} THEN [ret |-> "EBADVERSION"]
     ELSE ReadCie(mem, id.addr, AugmentationEnd(mem, id.addr + 1), len.end, pi)

\* Mutant: the range is read with the base of the start address.
RangeEncodingSame(enc) == enc

\* dci.fde_encoding & DW_EH_PE_FORMAT_MASK: of 0xff that is no format, of 0x50 a pointer.
ip_range_encoding(enc) ==
  CASE enc = Omit -> Enc("badformat", "absptr", FALSE)
    [] enc = Aligned -> Enc("ptr", "absptr", FALSE)
    [] OTHER -> Enc(enc.format, "absptr", FALSE)

\* The augmentation data of an FDE at addr: the LSDA, and the cie_info object.
ReadFdeData(mem, addr, fde_end_addr, cie, pi, need_unwind_info, alloc) ==
  LET dci == cie.dci
      aug == dwarf_read_uleb128(mem, addr)
      lsda == dwarf_read_encoded_pointer(mem, IF dci.sized_augmentation THEN aug.addr ELSE addr,
                                         dci.lsda_encoding, pi)
      whole == [pi EXCEPT !.lsda = lsda.val]
      marker == IF dci.have_abi_marker THEN lsda.addr + 2 * Size[2] ELSE lsda.addr
      info == [dci |-> dci, cie_instr_start |-> cie.addr,
               fde_instr_start |-> IF dci.sized_augmentation THEN aug.addr + aug.val ELSE marker,
               fde_instr_end |-> fde_end_addr]
  IN IF lsda.ret # "ok" THEN [ret |-> lsda.ret, addr |-> fde_end_addr, pi |-> pi]
     ELSE IF ~need_unwind_info THEN [ret |-> "ok", addr |-> fde_end_addr, pi |-> whole]
     ELSE IF ~alloc THEN [ret |-> "ENOMEM", addr |-> fde_end_addr, pi |-> whole]
     ELSE [ret |-> "ok", addr |-> fde_end_addr, pi |-> [whole EXCEPT !.unwind_info = <<info>>]]

\* The FDE of a CIE, behind its offset to it.
ReadFde(mem, addr, fde_end_addr, cie, pi, need_unwind_info, alloc) ==
  LET enc == cie.dci.fde_encoding
      start == dwarf_read_encoded_pointer(mem, addr, enc, pi)
      range == dwarf_read_encoded_pointer(mem, start.addr, ip_range_encoding(enc), pi)
      ranged == [pi EXCEPT !.start_ip = start.val, !.end_ip = Wrap(start.val + range.val),
                           !.handler = cie.dci.handler]
      failed(r) == [ret |-> r, addr |-> fde_end_addr, pi |-> pi]
  IN IF cie.ret # "ok" THEN failed(cie.ret)
     ELSE IF start.ret # "ok" \/ range.ret # "ok" THEN failed(EINVAL)
     ELSE ReadFdeData(mem, range.addr, fde_end_addr, cie, ranged, need_unwind_info, alloc)

\* What the call returns: its result, *addrp, *pi, and the cie_info object it
\* allocated.  base is 0 for .eh_frame.
dwarf_extract_proc_info_from_fde(mem, addrp, pi, need_unwind_info, base, alloc) ==
  LET len == ReadLength(mem, addrp)
      offset == reads(mem, len.addr, IdSize(len.wide))
      cie_addr == Wrap(IF base # 0 THEN base + offset.val ELSE len.addr - offset.val)
  IN IF len.val = 0 /\ ~len.wide THEN [ret |-> "ENOINFO", addr |-> addrp, pi |-> pi]
     ELSE IF is_cie_id(offset.val, base # 0) THEN [ret |-> "ok", addr |-> len.end, pi |-> pi]
     ELSE ReadFde(mem, offset.addr, len.end, parse_cie(mem, cie_addr, pi, base # 0), pi,
                  need_unwind_info, alloc)
-----------------------------------------------------------------------------
(***************************************************************************)
(* The search in a sorted table of start addresses and entries.            *)
(***************************************************************************)
\* A number of 32 bits.
int32(v) == LET w == v % Bits(Size[4]) IN IF 2 * w >= Bits(Size[4]) THEN w - Bits(Size[4]) ELSE w

\* Mutant: an address that starts an entry belongs to the one before.
RECURSIVE unw_lookupBefore(_, _, _, _)
unw_lookupBefore(table, rel_ip, lo, hi) ==
  LET mid == (lo + hi) \div 2
  IN IF lo >= hi THEN hi
     ELSE IF rel_ip <= table[mid + 1].start_ip_offset
       THEN unw_lookupBefore(table, rel_ip, lo, mid)
       ELSE unw_lookupBefore(table, rel_ip, mid + 1, hi)

\* The entry found, counted from 1; 0 for none.
RECURSIVE unw_lookup(_, _, _, _)
unw_lookup(table, rel_ip, lo, hi) ==
  LET mid == (lo + hi) \div 2
  IN IF lo >= hi THEN hi
     ELSE IF rel_ip < table[mid + 1].start_ip_offset
       THEN unw_lookup(table, rel_ip, lo, mid)
       ELSE unw_lookup(table, rel_ip, mid + 1, hi)

\* What the entry found says of the ip.  A .debug_frame is not relocated.
JudgeFound(ip, di, found) ==
  LET p == IF di.format = "table"
             THEN [found.pi EXCEPT !.start_ip = Wrap(@ + di.segbase),
                                   !.end_ip = Wrap(@ + di.segbase), !.flags = "debug_frame"]
             ELSE found.pi
  IN IF found.ret # "ok" THEN [ret |-> found.ret, pi |-> found.pi]
     ELSE [ret |-> IF ip < p.start_ip \/ ip >= p.end_ip THEN "ENOINFO" ELSE "ok", pi |-> p]

dwarf_search_unwind_table(mem, ip, di, pi, need_unwind_info, alloc) ==
  LET base == IF di.format = "table" THEN SectionStart ELSE 0
      e == unw_lookup(di.table, int32(ip - di.segbase), 0, Len(di.table))
      at == Wrap(di.table[e].fde_offset + IF base # 0 THEN base ELSE di.segbase)
  IN IF e = 0 THEN [ret |-> "ENOINFO", pi |-> pi]
     ELSE JudgeFound(ip, di, dwarf_extract_proc_info_from_fde(mem, at, pi, need_unwind_info, base,
                                                              alloc))

\* The table of a section whose code was loaded at segbase, as whoever registers it
\* builds it: a .debug_frame counts its addresses from there.
TableOf(inp) ==
  LET shift == IF inp.debug THEN 0 ELSE inp.call.segbase
      base == IF inp.debug THEN SectionStart ELSE inp.call.segbase
  IN [format |-> IF inp.debug THEN "table" ELSE "remote_table", segbase |-> inp.call.segbase,
      table |-> [n \in DOMAIN inp.fdes |->
                   [start_ip_offset |-> inp.fdes[n].start - shift,
                    fde_offset |-> EntryAt(inp, n) - base]]]
-----------------------------------------------------------------------------
Init == x \in Inputs /\ res = <<>>

Run ==
  /\ res = <<>>
  /\ LET mem == Section(x)
         call == x.call
     IN res' = <<IF call.op = "extract"
                   THEN dwarf_extract_proc_info_from_fde(mem, EntryAt(x, call.entry), StalePi,
                          call.need, IF x.debug THEN SectionStart ELSE 0, call.alloc)
                   ELSE dwarf_search_unwind_table(mem, call.ip, TableOf(x), StalePi, call.need,
                          call.alloc)>>
  /\ UNCHANGED x

Done == res # <<>> /\ UNCHANGED vars

Next == Run \/ Done

Spec == Init /\ [][Next]_vars
-----------------------------------------------------------------------------
Extracted == res # <<>> /\ x.call.op = "extract"
IsFde == x.call.entry \in DOMAIN x.fdes
Meant == x.fdes[x.call.entry]

\* The encodings a CIE uses.  A negative sleb128 number is read as a large one, so
\* nothing is said of what is encoded in that format.
EncodingsOf(c) ==
  {FdeEncoding(c), LsdaEncoding(c)} \cup IF Has(c, "P") THEN {c.handler_encoding} ELSE {}
Known(enc) == enc.format # "badformat" /\ enc.appl # "textrel"
Understood(c) ==
  /\ c.version \in {1, 3} /\ (Sized(c) \/ ~Has(c, "X"))
  /\ FdeEncoding(c) # Omit /\ \A enc \in EncodingsOf(c) : Known(enc)
Sleb128(c) == \E enc \in EncodingsOf(c) : enc.format = "sleb128"

\* An FDE of a CIE that can be understood is read as it was meant, whatever its
\* format, augmentation and pointer encodings (Gfde.c:46-357): the code it covers,
\* its handler and LSDA, and the bounds of its instructions.  Other entries leave
\* *pi alone, and of an FDE that cannot be understood the walk still finds the end.
EntryIsAsMeant ==
  Extracted =>
    IF ~IsFde
      THEN /\ res[1].pi = StalePi
           /\ x.call.entry = 0 => res[1].ret = "ok" /\ res[1].addr = EntryAt(x, 1)
           /\ x.call.entry > 0 => res[1].ret = "ENOINFO" /\ res[1].addr = EntryAt(x, x.call.entry)
    ELSE LET p == res[1].pi IN
      /\ res[1].addr = EntryAt(x, x.call.entry + 1)
      /\ Understood(x.cie) /\ ~Sleb128(x.cie) =>
           /\ res[1].ret = IF x.call.need /\ ~x.call.alloc THEN "ENOMEM" ELSE "ok"
           /\ p.start_ip = Meant.start /\ p.end_ip = Wrap(Meant.start + Meant.range)
           /\ p.handler = IF Has(x.cie, "P") /\ x.cie.handler_encoding # Omit
                            THEN x.cie.handler ELSE Null
           /\ p.lsda = IF LsdaEncoding(x.cie) = Omit THEN Null ELSE Meant.lsda
      /\ ~Understood(x.cie) =>
           res[1].ret \in {EINVAL, "EBADVERSION"} /\ p.lsda = Null /\ p.unwind_info = <<>>

\* The cie_info object made of the CIE and the FDE (Gfde.c:126-209, 331-354): the
\* instructions of the FDE are found behind its augmentation data, understood or
\* not, and those of the CIE too unless a part of its augmentation is not
\* understood, which is then not skipped.  A signal frame is told by an S among the
\* first four characters.
InfoIsAsMeant ==
  Extracted /\ IsFde /\ res[1].pi.unwind_info # <<>> /\ ~Sleb128(x.cie) =>
    LET info == res[1].pi.unwind_info[1]
        c == x.cie
        cieEnd == EntryAt(x, 1)
    IN /\ info.dci.code_align = c.code_align /\ info.dci.data_align = c.data_align
       /\ info.dci.ret_addr_column = c.ret_addr_column
       /\ info.dci.signal_frame = \E n \in DOMAIN c.aug : n <= Kept /\ c.aug[n] = "S"
       /\ info.dci.cie_instr_end = cieEnd
       /\ ~Has(c, "X") => info.cie_instr_start = cieEnd - Len(Instruction)
       /\ info.fde_instr_end = EntryAt(x, x.call.entry + 1)
       /\ info.fde_instr_start = info.fde_instr_end - Len(Instruction)

\* The binary search finds the entry that covers the address, if one does, wherever
\* the code was loaded (Gfind_proc_info-lsb.c:329-456).
SearchIsByDefinition ==
  res # <<>> /\ x.call.op = "search" =>
    LET shift == IF x.debug THEN x.call.segbase ELSE 0
        covers(f) == f.start + shift <= x.call.ip /\ x.call.ip < f.start + shift + f.range
        covering == {n \in DOMAIN x.fdes : covers(x.fdes[n])}
    IN IF covering = {} THEN res[1].ret = "ENOINFO"
       ELSE \E n \in covering :
              /\ res[1].ret = "ok"
              /\ res[1].pi.start_ip = x.fdes[n].start + shift
              /\ res[1].pi.end_ip = x.fdes[n].start + shift + x.fdes[n].range
=============================================================================
