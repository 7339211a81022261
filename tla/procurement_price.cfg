SPECIFICATION Spec
CONSTANTS
  Owner = o
  Members = {m}
  Admins = {o}
  NoPo = NoPo
  MaxApprovals = 1
  Suppliers = {s1, s2}
  Terms = {t1}
  Deadlines = {}
  NoDeadline = NoDeadline
  Windows = {w1}
  Results = {"sent"}
  MaxRevisions = 2
  MaxVersions = 1
INVARIANTS
  AwardAsReviewed
