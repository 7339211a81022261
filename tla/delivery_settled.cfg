SPECIFICATION FairSpec
CONSTANTS
  Suppliers = {s1, s2}
  Workers = {w1}
  NoMail = NoMail
  MaxVersion = 1
  MaxReminders = 1
  MaxRevisions = 1
  MaxEvents = 0
  Faults = {"refusal"}
ACTION_CONSTRAINT OneSuppressed
CHECK_DEADLOCK FALSE
INVARIANTS WinnersSubmitted
PROPERTIES QueuedIsSettled
