SPECIFICATION Spec
CONSTANTS
  Suppliers = {s1, s2}
  Responders = {s1}
  Offers = {a}
  Incomplete = Incomplete
  Tabs = {t1, t2}
  Uploads = {u1, u2}
  Files = {f1, f2}
  NoFile = NoFile
  NoDue = NoDue
  Horizon = 2
  MaxUploads = 2
  Requests = {"clarification", "revision", "bafo"}
  Windows = {w1}
  MaxReminders = 1
  PortalActivity = 5
  TalkActivity = 4
  MailActivity = 3
  Casts <- SmallCasts
SYMMETRY Symmetric
ACTION_CONSTRAINT WithinTalk
CHECK_DEADLOCK FALSE
INVARIANTS
  TypeOK
  OneLiveRevision
  AttachmentIsStored
  ThreadWaitsForRequest
  AskedInTime
  BestOfferIsNew
  RemindersPerRequest
  SentWasMailed
PROPERTIES
  SubmittedStaysAsSent
  AwardEndsNegotiation
  AnswerOutlivesMail
  OffersKeepContract
