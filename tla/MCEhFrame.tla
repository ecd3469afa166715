----------------------------- MODULE MCEhFrame -----------------------------
(* The instance of EhFrame that TLC checks: words of 4 bytes of 3 bits.       *)
EXTENDS EhFrame

MCSize == (1 :> 1) @@ (2 :> 2) @@ (4 :> 3) @@ (8 :> 4)

ExtractCall(n, need, alloc) ==
  [op |-> "extract", entry |-> n, ip |-> 0, segbase |-> 0, need |-> need, alloc |-> alloc]
SearchCall(ip, segbase) ==
  [op |-> "search", entry |-> 0, ip |-> ip, segbase |-> segbase, need |-> FALSE, alloc |-> TRUE]

\* Augmentation strings of up to four characters, none of them twice; gcc's longest
\* one has five.
Strings(n, chars) == {s \in [1..n -> chars] : IsInjective(s)}
KnownChars == {"P", "L", "R", "S"}
Augmentations ==
  UNION {Strings(n, KnownChars) : n \in 0..4}
    \cup {<<"z">> \o s : s \in UNION {Strings(n, KnownChars) : n \in 0..3}}
    \cup {<<"z", "R", "X">>, <<"z", "L", "R", "X">>, <<"R", "X">>, <<"z", "X">>,
          <<"z", "P", "L", "R", "S">>}

Abs(f) == Enc(f, "absptr", FALSE)
PcRel(f) == Enc(f, "pcrel", FALSE)
Plain == Abs("udata8")

\* Encodings of the FDE's addresses, of the LSDA and of the handler; the last words
\* are the start address, the LSDA and the handler.
Triples ==
  {<<Abs(f), Plain, Plain, 5, 6, 7>> : f \in {"ptr", "uleb128", "udata2", "udata4", "sdata4"}}
    \cup {<<PcRel("sdata4"), Enc(f, "funcrel", FALSE), Enc("ptr", "pcrel", TRUE), 160, 163, 3000>> :
            f \in {"udata2", "sdata8", "uleb128", "sdata2"}}
    \cup {<<PcRel("udata8"), Enc("ptr", a, i), Enc("udata4", "absptr", i), 4000, 99, 31>> :
            a \in {"absptr", "pcrel", "datarel"}, i \in BOOLEAN}
    \cup {<<PcRel("sdata8"), Aligned, Aligned, 3, 2500, 2049>>, <<Plain, Omit, Omit, 2100, 0, 0>>,
          <<Plain, Plain, PcRel("ptr"), 9, 0, 0>>, <<Plain, Abs("badformat"), Plain, 9, 1, 1>>,
          <<Plain, Plain, Enc("ptr", "textrel", FALSE), 9, 1, 1>>,
          <<Abs("badformat"), Plain, Plain, 9, 1, 1>>, <<Abs("sleb128"), Plain, Plain, 3000, 1, 1>>,
          <<Aligned, Plain, Plain, 9, 1, 1>>, <<Omit, Plain, Plain, 9, 1, 1>>}

MCCie(wide, version, aug, t, align) ==
  [wide |-> wide, version |-> version, aug |-> aug, code_align |-> align, data_align |-> align,
   ret_addr_column |-> 3, handler |-> t[6], handler_encoding |-> t[3], lsda_encoding |-> t[2],
   fde_encoding |-> t[1]]
MCFde(start, range, lsda) == [start |-> start, range |-> range, lsda |-> lsda]

Input(cie, fdes, debug, call) == [cie |-> cie, fdes |-> fdes, debug |-> debug, call |-> call]

\* The FDE of a CIE, read.
FdeInputs ==
  {Input(MCCie(wide, 1, aug, t, 4088), <<MCFde(t[4], 7, t[5])>>, debug, ExtractCall(1, TRUE, TRUE)) :
     wide \in BOOLEAN, aug \in Augmentations, t \in Triples, debug \in BOOLEAN}

\* Versions, alignments, the second FDE, what is not an FDE, and the calls.
EntryInputs ==
  {Input(MCCie(wide, version, <<"z", "R">>, <<PcRel("sdata4"), Plain, Plain, 5, 6, 7>>, align),
         <<MCFde(30, 7, 0), MCFde(37, 7, 0)>>, debug, ExtractCall(n, need, alloc)) :
     wide \in BOOLEAN, version \in 1..3, align \in {1, 4092, 2048, 2047}, debug \in BOOLEAN,
     n \in 0..3, need \in BOOLEAN, alloc \in BOOLEAN}

\* Every number as an unsigned and as a signed LEB128.
LebInputs ==
  {Input(MCCie(FALSE, 3, <<"z">>, <<Plain, Plain, Plain, 5, 6, 7>>, v), <<MCFde(30, 7, 0)>>, FALSE,
         ExtractCall(1, TRUE, TRUE)) : v \in Word}

\* Up to three functions in a row, with and without gaps, and every address near them.
FunctionRows ==
  {<<>>} \cup {<<MCFde(a, r, 0)>> : a \in {20, 22}, r \in {1, 2}}
    \cup {<<MCFde(20, 2, 0), MCFde(b, r, 0)>> : b \in {22, 23}, r \in {1, 3}}
    \cup {<<MCFde(20, 1, 0), MCFde(b, 1, 0), MCFde(c, 2, 0)>> : b \in {21, 22}, c \in {23, 24}}
TableInputs ==
  {Input(MCCie(FALSE, 1, <<"z", "R">>, <<Abs("sdata4"), Plain, Plain, 5, 6, 7>>, 1), fdes, debug,
         SearchCall(ip, segbase)) :
     fdes \in FunctionRows, debug \in BOOLEAN, ip \in 19..35, segbase \in {0, 8}}

MCInputs == FdeInputs \cup EntryInputs \cup LebInputs \cup TableInputs
=============================================================================
