CONSTANTS
  c1 = c1
  c2 = c2
  TheServer = server
  Nowhere = nowhere
  Faults = {"send"}
  Users <- MCUsers
  Address <- MCAddress
  Blob <- MCBlob
  MayLose = TRUE
  MaxAsked = 2
  MaxMail = 2
SPECIFICATION FairSpec
INVARIANTS TypeOK AnswersMatch FailsForAReason NobodyForgotten
PROPERTY WaitsOnlyIfDropped
