SPECIFICATION Spec
CONSTANTS
  Suppliers = {s1}
  Workers = {w1}
  NoMail = NoMail
  MaxVersion = 2
  MaxReminders = 1
  MaxRevisions = 1
  MaxEvents = 1
  Faults = {}
CHECK_DEADLOCK FALSE
INVARIANT BouncesSuppress
