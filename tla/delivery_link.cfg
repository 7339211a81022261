SPECIFICATION Spec
CONSTANTS
  Suppliers = {s1}
  Workers = {w1, w2}
  NoMail = NoMail
  MaxVersion = 2
  MaxReminders = 1
  MaxRevisions = 1
  MaxEvents = 1
  Faults = {"refusal"}
SYMMETRY Symmetric
CHECK_DEADLOCK FALSE
PROPERTY RemindersCarryTheLink
