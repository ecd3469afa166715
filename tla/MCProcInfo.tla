----------------------------- MODULE MCProcInfo -----------------------------
(* The instance of ProcInfo that TLC checks: every section of up to three  *)
(* entries in a module, with the kernel file before or after it.           *)
EXTENDS ProcInfo

MCIps == 2..5

CIE == [kind |-> "cie", start |-> 0, end |-> 0]
END == [kind |-> "end", start |-> 0, end |-> 0]
BAD == [kind |-> "bad", start |-> 0, end |-> 0]
FDE(a, b) == [kind |-> "fde", start |-> a, end |-> b]

HALF == [kind |-> "half", start |-> 3, end |-> 5]

MCEntries == {CIE, END, BAD, HALF, FDE(2, 4), FDE(3, 5)}
Sections == UNION {[1..n -> MCEntries] : n \in 0..3}

\* Entries of exactly 8 bytes, the 4 of an entry of length 0 rounded away.
Bytes(s) == 8 * Len(s)

Kernel == [lo |-> 5, hi |-> 9, sym |-> TRUE, has_eh |-> FALSE, entries |-> <<>>, size |-> 0]
Module(s, sy) == [lo |-> 2, hi |-> 5, sym |-> sy, has_eh |-> TRUE, entries |-> s, size |-> Bytes(s)]
Second == [lo |-> 3, hi |-> 6, sym |-> TRUE, has_eh |-> TRUE, entries |-> <<CIE, FDE(3, 6)>>,
           size |-> 16]

MCFiles ==
  UNION {{<<Kernel, Module(s, TRUE)>>, <<Module(s, TRUE), Second>>, <<Module(s, FALSE)>>} : s \in Sections}
=============================================================================
