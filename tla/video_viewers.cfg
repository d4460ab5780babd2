SPECIFICATION Spec
CONSTANTS
  r1 = r1  r2 = r2  w1 = w1  w2 = w2
  Worker = {w1, w2}
  Device = {d1}
  Stream = {v1}
  Recording = {}
  Request = {r1, r2}
  RemoteControl = {FALSE}
  Handlers = {"result", "approve", "started"}
  Nil = Nil
PROPERTY
  DisplacedIsDone
SYMMETRY Symmetric
