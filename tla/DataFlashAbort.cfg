SPECIFICATION Spec
CONSTANTS
  MaxCalls = 2
  MaxSize = 2
INVARIANT StoresInOwn
