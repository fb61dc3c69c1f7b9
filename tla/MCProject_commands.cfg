SPECIFICATION Spec
CONSTANTS
  Tasks = {t1, t2}
  Contexts = {c1, c2}
  Evidence = {e1, e2}
  Steps = {s1, s2}
  Paths = {f1}
  Versions = {v0, v1}
  Baseline = v0
  Manual = Manual
  None = None
  Agents = {g1, g2, g3}
  Approvals = {a1, a2}
  Missions = {m1}
  MissionLeases = {l1}
  Humans = {own, led}
  RoleOf <- MCRoleOf
  Processes = {p1, p2}
  Actors = {own, led, bot}
  Drafts <- MCDrafts
  Risks = {"L2", "L3"}
  Topologies <- MCTopologies
  MaxRoom = 2
  CheckpointRequired = FALSE
  own = own
  led = led
  bot = bot
  t1 = t1
  t2 = t2
  c1 = c1
  c2 = c2
  e1 = e1
  e2 = e2
  s1 = s1
  s2 = s2
  f1 = f1
  v0 = v0
  v1 = v1
  g1 = g1
  g2 = g2
  g3 = g3
  a1 = a1
  a2 = a2
  l1 = l1
  m1 = m1
  n1 = n1
  r1 = r1
  r2 = r2
  p1 = p1
  p2 = p2
  x = x
  y = y
CHECK_DEADLOCK FALSE
INVARIANTS SessionLeavesNoHole RiskyMissionsApproved
PROPERTIES OnlyUncheckedBreakTheLog EventActsOnce CompletionJustified ReopenedByEvidenceOnly RetryAddsNoRevision
