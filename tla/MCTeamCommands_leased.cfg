SPECIFICATION Spec
CONSTANTS
  None = None
  owner = owner
  lead = lead
  dev = dev
  c1 = c1
  c2 = c2
  c3 = c3
  l1 = l1
  l2 = l2
  t1 = t1
  t2 = t2
  p1 = p1
  p2 = p2
  r1 = r1
  r2 = r2
  r3 = r3
  r4 = r4
  Changes <- MCChanges
  Leases <- MCLeases
  Tasks <- MCTasks
  Actors <- MCActors
  RoleOf <- MCRoleOf
  Seed <- LeasedSeed
  Requests <- LeasedRequests
  MaxFaults = 1
  MaxNow = 1
  MaxTries = 2
  MaxLog = 10
  Resolvers <- MCResolvers
INVARIANTS
  TypeOK
  AcceptedReducible
  AcceptedOnce
  RetryStable
  Materialized
  RestartCanRepair
  OneOpenConflict
PROPERTIES
  AuthorizedAtAcceptance
CHECK_DEADLOCK FALSE
