SPECIFICATION MCSpec
CONSTANTS
  s1 = s1  s2 = s2  s3 = s3
  ta = ta  tb = tb
  o1 = o1  o2 = o2
  here = here  there = there
  Socket = {s1, s3}
  Tablet = {ta, tb}
  Org = {o1, o2}
  Zone = {1}
  Map = {1}
  Standalone = {11}
  Drone = {d1}
  Place = {}
  NoFix = NoFix
  Nil = Nil
  w1 = w1  w2 = w2  d1 = d1  v1 = v1  r1 = r1
  TabletOf <- OneSocketEach
  OrgOf <- TwoOrgs
  ZoneOf <- SameZone
  OwnKey <- OneOwnKey
  Distance <- NoDistance
  Radius = 1
  Lease = 0
  Silence = 1
  Retention = 0
  Reports = {1}
  Claims <- OneClaim
  Labels = {TRUE}
  EarlyMaps = {1}
  Overlap = FALSE
  GateReleases = FALSE
PROPERTIES
  OneOrgPerStep
  SilentZoneForgotten
  RequestsEnd
  EndedStaysEnded
  ProbesDiscarded
