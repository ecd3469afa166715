---------------------------- MODULE MCDwarfStep ----------------------------
(* The instance of DwarfStep that TLC checks: addresses 4 to 13 hold the      *)
(* context, 16 to 39 the stack, 44 and up the code.                           *)
EXTENDS DwarfStep

MCUc == [RAX |-> 4, RBX |-> 6, RBP |-> 8, RSP |-> 10, RIP |-> 12]

Same == [where |-> "same", val |-> 0]
Undef == [where |-> "undef", val |-> 0]
At(off) == [where |-> "cfarel", val |-> off]
In(r) == [where |-> "reg", val |-> r]
Expr(a) == [where |-> "expr", val |-> a]

R(reg, off, rbx, rbp, rsp) ==
  [cfa |-> [where |-> "reg", reg |-> reg, val |-> off],
   reg |-> [RAX |-> Same, RBX |-> rbx, RBP |-> rbp, RSP |-> rsp, RIP |-> At(-W)]]
Ra(row, rule) == [row EXCEPT !.reg["RIP"] = rule]
ByExpr(row, a) == [row EXCEPT !.cfa = [where |-> "expr", reg |-> "RSP", val |-> a]]

Plain == R("RSP", 4, Same, Same, Same)
Framed == R("RBP", 4, At(-6), At(-4), Same)

\* Procedures, each with one row; "turns" has two, the second of which starts at the
\* return address of its first call.
Rows ==
  [plain |-> Plain, framed |-> Framed, signal |-> Plain, turns |-> Framed,
   saves |-> R("RSP", 6, At(-6), Same, Same),
   wide |-> R("RSP", 8, Same, Same, Same), far |-> R("RSP", 4, Same, At(8), Same),
   half |-> R("RSP", 6, Same, At(-1), Same),
   moved |-> R("RBX", 4, In("RAX"), In("RBX"), At(-4)),
   swaps |-> R("RSP", 4, In("RBP"), At(-4), At(-8)),
   cfaexpr |-> ByExpr(Plain, 30), noexpr |-> ByExpr(Plain, None),
   raexpr |-> Ra(Plain, Expr(20)), nora |-> Ra(Plain, Undef),
   norbp |-> R("RSP", 4, Same, Undef, Same),
   partly |-> R("RSP", 4, At(-4), Expr(None), Same)]

Order == <<"plain", "framed", "signal", "turns", "saves", "wide", "far", "half", "moved",
           "swaps", "cfaexpr", "noexpr", "raexpr", "nora", "norbp", "partly",
           "bad", "dyn", "exidx", "fde", "hole", "bare">>
MCProcs == Range(Order)

F(p, i) == 41 + 3 * (CHOOSE n \in DOMAIN Order : Order[n] = p) + i
MCStart == [p \in MCProcs |-> F(p, 0)]
MCEnd == [p \in MCProcs |-> F(p, 2)]
MCKind == [p \in MCProcs |-> CASE p = "bad" -> "bad_table" [] p = "dyn" -> "dynamic"
             [] p = "bare" -> "none" [] p \in {"exidx", "fde", "hole"} -> p [] OTHER -> "table"]
MCSignal == [p \in MCProcs |-> p = "signal"]
MCRow == [p \in MCProcs |-> [i \in F(p, 0)..F(p, 2) |->
            IF p \notin DOMAIN Rows \/ (p = "turns" /\ i > F(p, 0)) THEN Plain ELSE Rows[p]]]

MCStack ==
  [a \in 16..39 |->
     CASE a = 18 -> F("fde", 2) [] a = 20 -> F("saves", 1) [] a = 22 -> 30
       [] a = 24 -> F("framed", 1) [] a = 26 -> F("signal", 1) [] a = 28 -> F("plain", 2)
       [] a = 30 -> 34 [] a = 32 -> F("swaps", 1) [] a = 34 -> 0 [] a = 36 -> F("norbp", 1)
       [] a = 21 -> 32 [] OTHER -> 22]

MCContexts ==
  {[RAX |-> 5, RBX |-> 16, RBP |-> f[1], RSP |-> f[2], RIP |-> i] :
     f \in {<<22, 16>>, <<30, 18>>, <<22, 26>>}, i \in {F(p, n) : p \in MCProcs, n \in {1, 2}}}
=============================================================================
