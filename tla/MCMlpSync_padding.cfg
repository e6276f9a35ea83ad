SPECIFICATION Spec
CONSTANTS
  DpSize = 2
  AttnTp = 2
  Servers <- MCServers
  MaxRows = 2
  MaxExtend = 2
  MaxPrefix = 1
INVARIANTS Lockstep SameGeometry RowsMatchTokens MaskExact OwnResults
