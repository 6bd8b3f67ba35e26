\* Three text requests, or one over HTTP, cut into chunks in every way.
CONSTANTS
  Requests <- MCRequests
  Paths <- MCPaths
  Stale <- MCStale
  MaxRequests = 3
SPECIFICATION Spec
INVARIANTS
  OneCallPerRequest
  PathHandled
PROPERTIES
  FirstLineUnderstood
CHECK_DEADLOCK FALSE
