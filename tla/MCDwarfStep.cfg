SPECIFICATION Spec
CONSTANTS
  W = 2
  Words = 128
  Page = 3
  MinIp = 40
  MaxGap = 12
  CfaBits = 4
  RegBits = 4
  Uc <- MCUc
  Stack <- MCStack
  Contexts <- MCContexts
  Procs <- MCProcs
  Start <- MCStart
  End <- MCEnd
  Kind <- MCKind
  Signal <- MCSignal
  Row <- MCRow
  Values = {9, 45}
  MaxOps = 4
  Junk = 1
INVARIANTS
  RegistersAreTheFrames
  ResumeRestores
  ProcInfoIsOfTheFrame
  RetraceIsTheStep
