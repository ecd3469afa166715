--------------------------- MODULE MCTraceCache ---------------------------
(* The instance of TraceCache that TLC checks.  In a table of 4 slots, 3, 7   *)
(* and 19 meet at the last slot and wrap around; in one of 16, 3 and 19 do.   *)
EXTENDS TraceCache, TLC

CONSTANTS t1, t2

MCRips == {1, 3, 7, 19}
MCHash == [r \in MCRips |-> r]
MCMaxLookups == t1 :> 3 @@ t2 :> 1
=============================================================================
