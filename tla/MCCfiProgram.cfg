CONSTANTS
  NumRegs = 2
  Instr <- AllKinds
  CodeAlign = 1
  DataAlign = 2
  StartIp = 1
  EndIp = 3
  MaxCie = 1
  MaxFde = 3
  Nesting <- NestingKinds
  MaxNesting = 6
SPECIFICATION Spec
INVARIANTS StatesReturned RowIsByDefinition
