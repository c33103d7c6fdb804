SPECIFICATION FairSpec
CONSTANTS
  y = y
  z = z
  NoRef = NoRef
  Names = {y, z}
  MaxLen = 8
  Programs <- MCPrograms
INVARIANTS TypeOK ScopesMatchCalls BindsLexically AcceptsWellScoped
  StorageFollowsBinding OneVariablePerName
PROPERTY Termination
CHECK_DEADLOCK FALSE
