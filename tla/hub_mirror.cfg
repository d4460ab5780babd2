SPECIFICATION MirrorSpec
CONSTANTS
  Tablet = {ta, tb}
  Lease = 1
  Sweeper = Sweeper
  NoOne = NoOne
PROPERTY
  LeaseEnds
