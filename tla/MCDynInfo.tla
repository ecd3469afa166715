----------------------------- MODULE MCDynInfo -----------------------------
(* The instance of DynInfo that TLC checks: of the three regions, one does not  *)
(* hold 3, one is a table and one, which does not hold 5, is of another format. *)
EXTENDS DynInfo

CONSTANTS t1, t2, a, b, c

MCFormat == [d \in Regions |-> CASE d = a -> "dynamic" [] d = b -> "table" [] d = c -> "arm_exidx"]
MCStart == [d \in Regions |-> IF d = a THEN 5 ELSE 1]
MCEnd == [d \in Regions |-> IF d = c THEN 4 ELSE 9]
MCTableResult == [d \in Regions |-> "ok"]
=============================================================================
