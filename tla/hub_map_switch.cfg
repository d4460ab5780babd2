SPECIFICATION Spec
CONSTANTS
  s1 = s1  s2 = s2  s3 = s3
  ta = ta  tb = tb
  o1 = o1  o2 = o2
  here = here  there = there
  Socket = {s1, s3}
  Tablet = {ta, tb}
  Org = {o1}
  Zone = {1, 2}
  Map = {1, 2}
  Standalone = {11, 12}
  Drone = {d1}
  Place = {}
  NoFix = NoFix
  Nil = Nil
  TabletOf <- OneSocketEach
  OrgOf <- OneOrgOf
  ZoneOf <- TwoZones
  OwnKey <- TwoOwnKeys
  Distance <- NoDistance
  Radius = 1
  Lease = 1
  Silence = 1
  Retention = 0
  Reports = {1, 2}
  Claims <- OneClaim
  Labels = {TRUE}
  EarlyMaps = {}
  Overlap = FALSE
  GateReleases = FALSE
INVARIANT
  ConfirmedOwnerConnected
