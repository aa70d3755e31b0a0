CONSTANTS
  ScFiles = {text, pkg}
  Packages = {pkg}
  MaxHead = 2
  MaxChanges = 1
  MaxCalls = 2
  MaxOutside = 3
  MaxScFaults = 1
SPECIFICATION ScSpec
PROPERTY OnlyGivenFilesMove
CHECK_DEADLOCK FALSE
