SPECIFICATION Spec
CONSTANTS
  Owner = o
  Members = {m}
  Admins = {o}
  NoPo = NoPo
  MaxApprovals = 1
  Suppliers = {s1}
  Terms = {t1}
  Deadlines = {}
  NoDeadline = NoDeadline
  Windows = {w1}
  Results = {"sent", "failed", "skipped"}
  MaxRevisions = 1
  MaxVersions = 1
INVARIANTS
  FailedOrderCanBeReissued
