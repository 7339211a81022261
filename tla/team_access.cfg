SPECIFICATION ScopedSpec
CONSTANTS
  Users = {a, b, c}
  Invitees = {c}
  Calls = {x, y}
  Requests = {p, q}
  Nobody = Nobody
  MaxInvitations = 1
SYMMETRY Symmetric
CHECK_DEADLOCK FALSE
INVARIANTS
  TypeOK
PROPERTIES
  LockoutNeedsStaleCount
  InvitationIsSpentOnce
