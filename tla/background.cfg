SPECIFICATION MCSpec
CONSTANTS
  Tablet = {ta, tb}
  Lease = 1
  Sweeper = Sweeper
  NoOne = NoOne
  ta = ta  tb = tb  tc = tc
  s1 = s1  s2 = s2  s3 = s3
  o1 = o1
  west = west  mid = mid  east = east  far = far
  NoFix = NoFix
  Nil = Nil
INVARIANT
  MirrorTypeOK
PROPERTIES
  GroupsConverge
  Forgotten
  RowCatchesUp
