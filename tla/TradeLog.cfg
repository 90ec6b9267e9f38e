SPECIFICATION Spec
CONSTANTS
  None = None
  Week = 2
  Keys = {"a"}
  MaxQty = 2
  Credit = 2
  Values = {1, 4}
  OpenFees = 3
  CloseFees = 1
  Accounting = TRUE
  MaxDays = 2
  MaxRows = 4
  MaxRejected = 1
  MaxFiles = 2
 
INVARIANT ReportAddsUp
INVARIANT FunnelIsSound
