SPECIFICATION Spec
CONSTANTS
  None = None
  lead = lead
  dev = dev
  c1 = c1
  c2 = c2
  l1 = l1
  t1 = t1
  t2 = t2
  p1 = p1
  p2 = p2
  d1 = d1
  d2 = d2
  s1 = s1
  s2 = s2
  w1 = w1
  w2 = w2
  w3 = w3
  Changes <- MCChanges
  Leases <- MCLeases
  Tasks <- MCTasks
  Actors <- MCActors
  RoleOf <- MCRoleOf
  Seed <- MCSeed
  ActorOf <- MCActorOf
  Devices <- OneDevice
  DeviceOf <- BothOnOne
  Sessions = {s1, s2}
  Work <- RunAlone
  Transport = "http"
  TwoCores = FALSE
  MaxFaults = 1
  MaxNow = 1
  MaxStops = 0
INVARIANTS
  AcceptedIsInReplica
PROPERTIES
  ImplementsSharedLog
CHECK_DEADLOCK FALSE
