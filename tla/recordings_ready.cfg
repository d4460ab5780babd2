SPECIFICATION Spec
CONSTANTS
  Job = {j1}
  Request = {r1, r2}
  User = {u1, u2}
  Recording = {v1}
  Nil = Nil
INVARIANT ReadyHasFile
CONSTRAINT CleanupWaits
