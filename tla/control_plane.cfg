SPECIFICATION MCSpec
CONSTANTS
  r1 = r1  r2 = r2  w1 = w1  w2 = w2
  Worker = {w1}
  Device = {d1}
  Stream = {v1}
  Recording = {}
  Request = {r1, r2}
  RemoteControl = {TRUE, FALSE}
  Handlers <- EveryHandler
  Nil = Nil
  WebHandler = {w1}
  User = {u1, u2}
  Email = {e1, e2}
  NoRow = NoRow
  PageHandler = {p1}
  Installation = {t1, t2}
  Member = {m1}
  Limits = {2}
  MaxCampaigns = 2
  MaxCredentials = 2
  Nobody = Nobody
  Handler = {h1, h2}
  Tablet = {d1, d2}
  Snapshot = {x, y}
  MaxRequest = 2
  MaxVersion = 2
  Nothing = Nothing
  Call = {c1, c2, c3}
  Swift = TRUE
SYMMETRY Alike
CONSTRAINTS FewOverlaps OneExchanges
INVARIANTS
  TypeOK ConsentGiven OneViewerPerDevice
  AccountTypeOK DeviceTypeOK CampaignsKeepCount
  ConfigTypeOK SnapshotsWereSent OneAtATime
PROPERTIES
  OwnerStaysKnown ArchivedIsClosed NoOldPassword
  RetiredForGood OneLivePerInstallation ArchivedIsOff
  AnsweredByItsDevice ReviewedStays
