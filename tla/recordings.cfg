SPECIFICATION FairSpec
CONSTANTS
  Job = {j1, j2}
  Request = {r1, r2}
  User = {u1}
  Recording = {v1}
  Nil = Nil
INVARIANTS
  TypeOK
  OneQuestion
PROPERTIES
  EndedStaysEnded
  CopiesGo
  ReadyEnds
