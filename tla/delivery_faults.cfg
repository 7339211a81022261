SPECIFICATION Spec
CONSTANTS
  Suppliers = {s1}
  Workers = {w1, w2}
  NoMail = NoMail
  MaxVersion = 3
  MaxReminders = 1
  MaxRevisions = 2
  MaxEvents = 1
  Faults = {"crash", "lostMark", "lostReply", "refusal"}
SYMMETRY Symmetric
ACTION_CONSTRAINT WithinScope
CHECK_DEADLOCK FALSE
INVARIANTS
  TypeOK
  OneCurrentQuote
  StatusHasAnswer
  LedgerIsEvidence
  OneUnrecordedInvitation
  RemindersAccounted
PROPERTIES
  AwardIsFinal
