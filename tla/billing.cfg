SPECIFICATION AllowanceFairSpec
CONSTANTS
  Worker = {k1, k2}
  Viewer = {v}
  NoData = NoData
INVARIANT NoticesTrue
PROPERTY VideoFollowsBill
