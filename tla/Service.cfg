SPECIFICATION Spec
CONSTANTS
  Configs <- AllConfigs
  NameOrder <- Order
  Rules <- UserRules
  MaxCalls = 3
  MaxWrites = 3
  MaxEchoes = 3
  Nothing = Nothing
  Empty = Empty
  Broken = Broken
INVARIANTS
  BuiltInDependencyOrder
  
  
  
CHECK_DEADLOCK FALSE
