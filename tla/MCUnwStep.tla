----------------------------- MODULE MCUnwStep -----------------------------
(* The instances of UnwStep that TLC checks: words 3 to 5 hold the saved      *)
(* registers, 6 to 14 the stack, 15 to 20 the code; 21 is not mapped.         *)
EXTENDS UnwStep, FiniteSets, SequencesExt

P1 == 15
P2 == 16
Plt == 17
Sys == 18
Sig == 19
Hole == 20
Wild == 21

MCIps == 15..20
MCCode == [i \in MCIps |-> CASE i = Plt -> "plt" [] i = Sys -> "syscall"
                             [] i = Sig -> "sigreturn" [] OTHER -> "plain"]
MCCover == [i \in MCIps |-> CASE i = P1 -> "fde" [] i = Hole -> "hole" [] OTHER -> "none"]

\* A memory with the given registers and stack words; the others are junk.
Memory(rip, rbp, words) ==
  [a \in 3..20 |-> CASE a = UcRip -> rip [] a = UcRsp -> 6 [] a = UcRbp -> rbp
                     [] a \in DOMAIN words -> words[a] [] OTHER -> Wild]

\* Call chains of up to three frames of any size.
FramePointers ==
  {s \in UNION {[1..n -> 7..13] : n \in 0..3} :
     /\ \A n \in 1..(Len(s) - 1) : s[n + 1] > s[n] + 1
     /\ Len(s) > 0 => s[1] <= 8}

Chain(rip, s, ras) ==
  [mem |-> Memory(rip, IF s = <<>> THEN 0 ELSE s[1],
             [a \in {s[n] : n \in DOMAIN s} \cup {s[n] + 1 : n \in DOMAIN s} |->
                IF \E n \in DOMAIN s : s[n] = a
                  THEN LET n == CHOOSE n \in DOMAIN s : s[n] = a
                       IN IF n = Len(s) THEN 0 ELSE s[n + 1]
                  ELSE ras[CHOOSE n \in DOMAIN s : s[n] + 1 = a]]),
   calls |-> ras, fps |-> s]

CallChains ==
  UNION {{Chain(rip, s, ras) : rip \in {P1, P2}, ras \in [1..Len(s) -> {P1, P2}]} :
           s \in FramePointers}

\* Stacks where frame pointers and return addresses may be anything.
Garbage ==
  {[mem |-> Memory(rip, rbp, [a \in 7..12 |->
               CASE a = 7 -> f1 [] a = 8 -> r1 [] a = 9 -> f2 [] a = 10 -> r2
                 [] a = 11 -> f3 [] a = 12 -> P2]),
    calls |-> <<>>, fps |-> <<>>] :
     rip \in {P1, Plt, Sys, Sig}, rbp \in {0, 6, 7, 9, Wild},
     f1 \in {0, 7, 9, 11, P1}, f2 \in {0, 7, 9, 11, Sys, Sig}, f3 \in {0, 7, 9, Wild},
     r1 \in MCIps \cup {0, 1, Wild}, r2 \in {P1, Plt, Sys}}

MCMachines == CallChains \cup Garbage
=============================================================================
