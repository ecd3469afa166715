\* Two threads register and cancel three regions while a third one searches twice.
CONSTANTS
  t1 = t1
  t2 = t2
  a = a
  b = b
  c = c
  Threads = {t1, t2}
  Regions = {a, b, c}
  Null = Null
  Format <- MCFormat
  Ips = {3, 5}
  Start <- MCStart
  End <- MCEnd
  TableResult <- MCTableResult
  MaxCalls = 5
  MaxFinds = 2
SPECIFICATION FairSpec
INVARIANTS ListIsTheRegistered OverlooksOnlyBehindCancelled
 
