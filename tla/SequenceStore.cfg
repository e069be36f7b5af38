SPECIFICATION Spec
CONSTANTS
  Proc = {falcon, ctl}
  Name = {asset, evidence}
  Transactional = TRUE
  MaxValue = 3
  None = None
INVARIANTS UniqueIssue IssuedBelowValue
PROPERTY IssuerSpec
