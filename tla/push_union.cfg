SPECIFICATION PushSpec
CONSTANTS
  Ops = {x}
  Prefixes <- OnePrefix
  Under <- TwoUnder
  HeadOf <- OneHead
  Branches = {}
  Tags = {}
  Checkouts = {}
  Oids = {"c1", "c2", "c3"}
  Ancestors <- MCAncestors
  Requests <- UnionRequests
  RemoteStates <- UnionRemotes
  LocalPuts = {}
  None = None
  MaxIssues = 2
  MaxRevision = 2
  MaxVersions = 1
PROPERTIES PushFastForwards
