\* A first table of 4 slots and 2 probes, grown once at most; one thread looks
\* up three frames, in one trace or several, the other one.
CONSTANTS
  t1 = t1
  t2 = t2
  Threads = {t1, t2}
  Rips <- MCRips
  Hash <- MCHash
  MinBits = 2
  MaxBits = 6
  MaxProbes = 2
  MaxLookups <- MCMaxLookups
  MaxCaches = 3
SPECIFICATION Spec
INVARIANTS  HalfEmpty FoundAgain
