SPECIFICATION Spec
CONSTANTS
  record = record
  alert = alert
  match = match
  Reader = reader
  colleague = colleague
  Users = {reader, colleague}
  Records = {record}
  Incidents = {alert}
  Matches = {match}
  Audience <- SmallAudience
  MaxRevision = 2
  MaxAttempts = 2
  MaxFaults = 1
  Casts <- SmallCasts
ACTION_CONSTRAINT ColleagueStays
INVARIANTS
  TypeOK
PROPERTIES
  BridgeDelivers
  QueueSettles
  LastingIsTold
  RepliesInOrder
  ScreenCatchesUp
