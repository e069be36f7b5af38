SPECIFICATION Spec
CONSTANTS
  Proc = {1, 2}
  Workspace = {"default", "blue"}
  Default = "default"
  MaxFile = 3
  MaxCall = 3
  MaxCrash = 1
INVARIANTS SchemaWhole RowsInOwnWorkspace HandleIsCurrent
CHECK_DEADLOCK FALSE
