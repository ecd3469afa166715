---------------------------- MODULE MCCfiProgram ----------------------------
(* The instances of CfiProgram that TLC checks. *)
EXTENDS CfiProgram

I(o, r, v) == [op |-> o, reg |-> r, val |-> v]

\* Instructions of every kind, with a register number out of range among them.
AllKinds ==
  {I("advance_loc", 0, 1), I("set_loc", 0, 1), I("offset", 0, 2), I("undefined", 1, 0),
   I("same_value", 1, 0), I("register", 0, 1), I("expression", 1, 3),
   I("GNU_negative_offset_extended", 0, 2), I("restore", 0, 0), I("remember_state", 0, 0),
   I("restore_state", 0, 0), I("def_cfa", 1, 2), I("def_cfa_sf", 0, 1),
   I("def_cfa_register", 0, 0), I("def_cfa_offset", 0, 3), I("def_cfa_expression", 0, 4),
   I("offset_extended", 2, 0), I("hi_user", 0, 0), I("nop", 0, 0)}

\* A few instructions, for programs long enough to nest remembered states.
NestingKinds ==
  {I("remember_state", 0, 0), I("restore_state", 0, 0), I("offset", 0, 2),
   I("def_cfa", 1, 2), I("advance_loc", 0, 1)}
=============================================================================
