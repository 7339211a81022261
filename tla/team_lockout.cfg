SPECIFICATION ScopedSpec
CONSTANTS
  Users = {a, b}
  Invitees = {}
  Calls = {x, y}
  Requests = {}
  Nobody = Nobody
  MaxInvitations = 1
CHECK_DEADLOCK FALSE
INVARIANT AnAdminRemains
