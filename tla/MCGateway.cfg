SPECIFICATION Spec
CONSTANTS
  r1 = r1
  r2 = r2
  Reqs <- MCReqs
  Models <- MCModels
  OtherNames <- MCOther
  Settings <- MCSettings
  Quotas <- MCQuotas
  FirstQuotas <- MCFirstQuotas
  MaxTok = 1
  MaxRequests = 3
  MaxOps = 1
  MaxDeaths = 1
  MaxFails = 1
SYMMETRY ReqSymmetry
CHECK_DEADLOCK FALSE
INVARIANTS TypeOK QuotaOverrunBounded RouteTriesInOrder  OpenBreakerWillClose
