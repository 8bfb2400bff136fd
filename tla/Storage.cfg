SPECIFICATION Spec
CONSTANTS
  Labels <- Animals
  Infos <- FileOrder
  MaxVersion = 2
  MaxCalls = 3
  MaxFaults = 2
  Absent = Absent
  Torn = Torn
  Requests <- Calls
PROPERTIES
  OthersUntouched
  
CHECK_DEADLOCK FALSE
