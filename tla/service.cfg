CONSTANTS
  NULL = NULL
  Client = {c1, c2}
  Label = {a, b}
  MaxVersions = 3
  Analyst = {a1, a2, a3}
  MaxDecisions = 3
  AccessRequest = {q1, q2}
  Slug = {s1}
  MaxKeys = 2
  MaxAssigned = 1
  pUploads = pUploads
  pEvents = pEvents
  pProvenance = pProvenance
  pRuns = pRuns
  Policy = {pUploads, pEvents, pProvenance, pRuns}
  PolicyTable <- MCPolicyTable
  MaxRows = 3
CHECK_DEADLOCK FALSE
SPECIFICATION ServiceSpec
SYMMETRY Interchangeable
INVARIANT VersionsAreConsecutive
INVARIANT BreakingIsHonest
PROPERTY VersionsAreKept
INVARIANT StatusFollowsApprovals
INVARIANT LateRequestsAreRefused
PROPERTY EndsAreFinal
PROPERTY PoliciesHold
