SPECIFICATION Spec
CONSTANTS
  GroupBits = 3
  RegisterBits = 8
  HalfBits = 2
  MaxReach = 7
  ParamLists <- MCParamLists
  Args <- MCArgs
  Samples <- MCSamples
  MaxDeclared = 2
  MaxOps = 4
INVARIANTS TypeOK SlotsDisjoint RopMatches DecodesWasmIntegers LocalsInOrderCompile
PROPERTY ImplementsWasmFunction
\* A function ends.
CHECK_DEADLOCK FALSE
