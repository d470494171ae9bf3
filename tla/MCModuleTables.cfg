SPECIFICATION Spec
CONSTANTS
  FuncTypes <- MCFuncTypes
  Literals <- MCLiterals
  Names = {name}
  Bits = 2
  MaxParams = 1
  MaxItems = 5
  MaxEntries = 2
INVARIANTS TypeOK IndirectCallsTyped CallsReachFunctions GlobalsKeepTheirValues
\* A rejected module is the end.
CHECK_DEADLOCK FALSE
