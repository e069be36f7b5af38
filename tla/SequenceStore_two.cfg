SPECIFICATION Spec
CONSTANTS
  Proc = {falcon, ctl}
  Name = {asset, evidence}
  Transactional = FALSE
  MaxValue = 3
  None = None
INVARIANT UniqueIssue
