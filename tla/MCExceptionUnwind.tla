------------------------- MODULE MCExceptionUnwind -------------------------
(* The instance of ExceptionUnwind that TLC checks: every call chain of up *)
(* to three frames over one call site of each kind and a second handler,   *)
(* recursion included.                                                     *)
EXTENDS ExceptionUnwind

MCIps == 1..8
MCKind == <<"plain", "continue", "cleanup", "catch", "fickle", "error", "catch", "cleanup">>
MCPads == {2, 8}
MCStacks == UNION {[1..n -> 1..7] : n \in 0..3}
=============================================================================
