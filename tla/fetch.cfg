SPECIFICATION MCSpec
CONSTANTS
  Ops = {x, y}
  Prefixes <- MCPrefixes
  Under <- MCUnder
  HeadOf <- MCHead
  Branches = {"main"}
  Tags = {"v1"}
  Checkouts = {"w"}
  Oids = {"c1", "c2", "c3"}
  Ancestors <- MCAncestors
  Requests <- MCRequests
  RemoteStates <- MCRemotes
  LocalPuts <- MCPuts
  None = None
  MaxIssues = 3
  MaxRevision = 3
  MaxVersions = 2
SYMMETRY OpsSymmetry
INVARIANTS TypeOK
PROPERTIES LatestIssueOnly NoLostUpdate PublicationKeepsRules LeaseHonoured
