CONSTANTS
  Requests = {q1, q2, q3}
  Gateways = {g1}
  Auditds = {a1}
  Clients = {c1}
  Scopes = {s1}
  TTL = 1
  None = none
  Batch <- TwoEntries
  MaxTime = 2
  MaxChanges = 1
  MaxLifetime = 2
SYMMETRY Symmetry
\* Every request has been used and the clock is at its bound.
CHECK_DEADLOCK FALSE
SPECIFICATION Spec
INVARIANTS TypeOK AuditTellsTheAnswers PiecesVerify
PROPERTIES LostScopesRunOut
