SPECIFICATION ScopedSpec
CONSTANTS
  Owner = o
  Members = {m}
  Admins = {o}
  NoPo = NoPo
  MaxApprovals = 1
  Suppliers = {s1}
  Terms = {t1, t2}
  Deadlines = {d1}
  NoDeadline = NoDeadline
  Windows = {w1, w2}
  Results = {"sent", "failed", "skipped"}
  MaxRevisions = 2
  MaxVersions = 2
SYMMETRY Symmetric
INVARIANTS
  TypeOK
  CommitmentsWereReviewed
  ApprovalsAreSpentOnce
  DraftFollowsVersions
  ConfirmedAsIssued
  LinkOpensItsVersion
  OnlyOpenOrdersAreMailed
PROPERTIES
  ConfirmedIsFinal
  OrdersKeepContract
