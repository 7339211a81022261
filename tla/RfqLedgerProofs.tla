--------------------------- MODULE RfqLedgerProofs ---------------------------
(* What RfqDelivery counts and records agrees with what the provider       *)
(* accepted: the delivery ledger is evidence, the reminders are accounted  *)
(* for, a lone server action leaves one invitation unrecorded at most and  *)
(* reminds with the link that opens, and a bounce suppresses the address   *)
(* unless it comes early; with the inductive invariants they need.         *)
EXTENDS RfqDeliveryProofs, FiniteSetTheorems

USE DeliveryAssumptions, NoMailAssumption
    DEF DeliveryAssumptions, NoMailAssumption

-----------------------------------------------------------------------------
(* The strengthening.  A result in hand is evidence before it is recorded, *)
(* a reminder's row never names another mail, a mail in hand carries a     *)
(* token, and an invitation that was sent was attempted.                   *)
RowsAreEvidence ==
  \A m \in Mails : ledger[m].id # NoMail =>
    /\ Accepted(ledger[m].id)
    /\ ledger[m].id.to = m.to /\ ledger[m].id.kind = m.kind
    /\ \A o \in Mails : ledger[o].id = ledger[m].id => o = m
ProvidersAreRecorded ==
  \A s \in Suppliers : dispatch[s].provider # NoMail =>
    \E m \in Mails : m.to = s /\ ledger[m].id = dispatch[s].provider
ReminderRowsNameThemselves ==
  \A m \in Reminders : ledger[m].id \in {NoMail, m}
JobsHaveTokens ==
  \A w \in Workers :
    /\ worker[w].job # NoMail => worker[w].token # 0
    /\ worker[w].result = "ok" => worker[w].job # NoMail /\ Accepted(worker[w].job)
SentWasAttempted ==
  \A s \in Suppliers : dispatch[s].sent => dispatch[s].attempts # 0
LedgerInv ==
  /\ TypeOK /\ RowsAreEvidence /\ ProvidersAreRecorded
  /\ ReminderRowsNameThemselves /\ JobsHaveTokens /\ SentWasAttempted

(* Two facts every step keeps to: a mail the provider accepted stays       *)
(* accepted, and an accepted mail stays so only because every token is     *)
(* that of a prepared link.                                                *)
LEMMA AcceptedStays ==
  ASSUME LedgerInv, [Next]_vars, NEW m \in Mails, Accepted(m)
  PROVE  Accepted(m)'
<1>1. CASE UNCHANGED mail BY <1>1 DEF Accepted
<1>2. ASSUME NEW w \in Workers, Send(w) PROVE Accepted(m)'
  <2>1. worker[w] \in WorkerStates /\ mail \in [Mails -> Nat]
    BY DEF LedgerInv, TypeOK
  <2>2. worker[w].token # 0 BY <1>2 DEF Send, LedgerInv, JobsHaveTokens
  <2>3. worker[w].job \in Mails BY <1>2, <2>1, WorkerMails DEF Send
  <2>4. mail' = mail \/ mail' = [mail EXCEPT ![worker[w].job] = worker[w].token]
    BY <1>2 DEF Send
  <2> QED BY <2>1, <2>2, <2>3, <2>4 DEF Accepted
<1> QED
  BY <1>1, <1>2
  DEF Next, vars, stores, Start, Launch, StartRetry, StartRemind, Step, Prepare,
      MarkInvitation, MarkReminder, Fault, LoseMark, Crash, Recover, Portal,
      OpenInvite, StartDraft, SubmitQuote, Decline, StartRevision, Answer,
      OptOut, Time, Age, CooldownEnds, SuppressElsewhere, Award,
      DeadlinePasses, Emit, Ingest

(* Only a launch and the result of an invitation touch what a dispatch     *)
(* knows of its attempts, only a launch and the result of a reminder what  *)
(* it knows of reminders, only a launch and a retry change the link; only  *)
(* results name a mail in the ledger.                                      *)
LEMMA AttemptsAreKept ==
  ASSUME TypeOK, [Next]_vars, NEW s \in Suppliers
  PROVE  \/ \E w \in Workers : Launch(w) \/ MarkInvitation(w)
         \/ /\ dispatch'[s].sent = dispatch[s].sent
            /\ dispatch'[s].attempts = dispatch[s].attempts
            /\ dispatch'[s].provider = dispatch[s].provider
            /\ \/ \E w \in Workers : MarkReminder(w)
               \/ dispatch'[s].reminders = dispatch[s].reminders
            /\ \/ \E w \in Workers : Prepare(w)
               \/ dispatch'[s].version = dispatch[s].version
<1> DEFINE Kept == /\ dispatch'[s].sent = dispatch[s].sent
                   /\ dispatch'[s].attempts = dispatch[s].attempts
                   /\ dispatch'[s].provider = dispatch[s].provider
                   /\ \/ \E w \in Workers : MarkReminder(w)
                      \/ dispatch'[s].reminders = dispatch[s].reminders
                   /\ \/ \E w \in Workers : Prepare(w)
                      \/ dispatch'[s].version = dispatch[s].version
<1>1. dispatch \in [Suppliers -> Dispatches] /\ dispatch[s] \in Dispatches
  BY DEF TypeOK
<1>2. CASE UNCHANGED dispatch BY <1>2
<1>3. ASSUME NEW w \in Workers, Prepare(w) PROVE Kept
  <2>1. CASE UNCHANGED dispatch BY <2>1
  <2>2. ASSUME NEW m \in worker[w].todo, PrepareRetry(w, m), MayRetry(m.to)
        PROVE  Kept
    <3> DEFINE a == dispatch[m.to].aged /\ dispatch[m.to].attempts > 0
    <3>1. dispatch' = [dispatch EXCEPT ![m.to] =
            [dispatch[m.to] EXCEPT !.status = "queued", !.version = m.no,
                                   !.aged = a]]
      BY <2>2, Zenon DEF PrepareRetry
    <3> HIDE DEF a
    <3>2. /\ dispatch'[s].sent = dispatch[s].sent
          /\ dispatch'[s].attempts = dispatch[s].attempts
          /\ dispatch'[s].provider = dispatch[s].provider
          /\ dispatch'[s].reminders = dispatch[s].reminders
      BY <1>1, <3>1 DEF Dispatches
    <3> QED BY <1>3, <3>2
  <2> QED
    BY <1>3, <2>1, <2>2
    DEF Prepare, TakeInvitation, PrepareRetry, PrepareReminder, Skip, stores
<1>4. ASSUME NEW w \in Workers, MarkReminder(w) PROVE Kept
  <2> DEFINE wk == worker[w]
             d == dispatch[wk.job.to]
             n == RemindersAfter(d.reminders, wk)
             c == d.cooling \/ wk.result = "ok"
  <2>1. dispatch' = [dispatch EXCEPT ![wk.job.to] =
                       [d EXCEPT !.reminders = n, !.cooling = c]]
    BY <1>4, Zenon DEF MarkReminder
  <2> HIDE DEF n, c
  <2>2. /\ dispatch'[s].sent = dispatch[s].sent
        /\ dispatch'[s].attempts = dispatch[s].attempts
        /\ dispatch'[s].provider = dispatch[s].provider
        /\ dispatch'[s].version = dispatch[s].version
    BY <1>1, <2>1 DEF Dispatches
  <2> QED BY <1>4, <2>2
<1>5. ASSUME NEW t \in Suppliers,
             \/ \E st \in DispatchStatus :
                  \/ dispatch' = [dispatch EXCEPT ![t].status = st]
                  \/ dispatch' = [dispatch EXCEPT ![t] =
                        [dispatch[t] EXCEPT !.status = st, !.opened = TRUE]]
             \/ dispatch' = [dispatch EXCEPT ![t].aged = TRUE]
             \/ dispatch' = [dispatch EXCEPT ![t].cooling = FALSE]
      PROVE  Kept
  <2>1. CASE dispatch' = [dispatch EXCEPT ![t].aged = TRUE]
    BY <1>1, <2>1 DEF Dispatches
  <2>2. CASE dispatch' = [dispatch EXCEPT ![t].cooling = FALSE]
    BY <1>1, <2>2 DEF Dispatches
  <2>3. ASSUME NEW st \in DispatchStatus,
               dispatch' = [dispatch EXCEPT ![t].status = st]
        PROVE  Kept
    BY <1>1, <2>3 DEF Dispatches
  <2>4. ASSUME NEW st \in DispatchStatus,
               dispatch' = [dispatch EXCEPT ![t] =
                       [dispatch[t] EXCEPT !.status = st, !.opened = TRUE]]
        PROVE  Kept
    BY <1>1, <2>4 DEF Dispatches
  <2> QED BY <1>5, <2>1, <2>2, <2>3, <2>4
<1>6. ASSUME NEW t \in Suppliers, Recover(t) \/ Portal(t) \/ Time(t)
      PROVE  Kept
  <2>1. {"failed", "opened", "responded", "declined"} \subseteq DispatchStatus
    BY DEF DispatchStatus
  <2>2. CASE Recover(t) BY <1>5, <2>1, <2>2 DEF Recover
  <2>3. CASE OpenInvite(t) BY <1>5, <2>1, <2>3 DEF OpenInvite
  <2>4. CASE SubmitQuote(t) \/ Decline(t)
    BY <1>5, <2>1, <2>4 DEF SubmitQuote, Decline, Answer
  <2>5. CASE StartDraft(t) \/ StartRevision(t) \/ OptOut(t)
    BY <1>2, <2>5 DEF StartDraft, StartRevision, OptOut
  <2>6. CASE Time(t) BY <1>5, <2>6 DEF Time, Age, CooldownEnds
  <2> QED BY <1>6, <2>2, <2>3, <2>4, <2>5, <2>6 DEF Portal
<1>7. ASSUME NEW e \in Events, Ingest(e) PROVE Kept
  <2>1. e.mail \in Mails /\ e.type \in EventType BY DEF Events
  <2>2. e.mail.to \in Suppliers /\ DispatchAfter(e.mail, e.type) \in DispatchStatus
    BY <2>1, MailFields, StatusAfter
  <2> QED BY <1>2, <1>5, <1>7, <2>2 DEF Ingest
<1>8. ASSUME NEW w \in Workers, StartRetry(w) \/ StartRemind(w) \/ Send(w) \/ Fault(w)
      PROVE  Kept
  BY <1>2, <1>8 DEF StartRetry, StartRemind, Send, Fault, LoseMark, Crash, stores
<1>9. ASSUME \/ \E t \in Suppliers : SuppressElsewhere(t)
             \/ \E W \in (SUBSET Suppliers) \ {{}} : Award(W)
             \/ DeadlinePasses
             \/ \E m \in Mails, t \in EventType : Emit(m, t)
             \/ UNCHANGED vars
      PROVE  Kept
  BY <1>2, <1>9 DEF SuppressElsewhere, Award, DeadlinePasses, Emit, vars, stores
<1> HIDE DEF Kept
<1>10. (\E w \in Workers : Launch(w) \/ MarkInvitation(w)) \/ Kept
  BY <1>3, <1>4, <1>6, <1>7, <1>8, <1>9 DEF Next, Start, Step
<1> QED BY <1>10 DEF Kept

LEMMA IdsAreKept ==
  ASSUME TypeOK, [Next]_vars, NEW m \in Mails
  PROVE  \/ \E w \in Workers : MarkInvitation(w) \/ MarkReminder(w)
         \/ ledger'[m].id = ledger[m].id
<1>1. ledger \in [Mails -> Rows] /\ ledger[m] \in Rows BY DEF TypeOK
<1>2. CASE UNCHANGED ledger BY <1>2
<1>3. ASSUME NEW w \in Workers, Prepare(w) PROVE ledger'[m].id = ledger[m].id
  <2>1. PICK o \in worker[w].todo :
          TakeInvitation(w, o) \/ PrepareRetry(w, o) \/ PrepareReminder(w, o)
    BY <1>3 DEF Prepare
  <2> DEFINE st == IF ledger[o].status \in {"none", "failed"} THEN "queued"
                   ELSE ledger[o].status
  <2>2. UNCHANGED ledger \/ ledger' = [ledger EXCEPT ![o].status = st]
    BY <2>1 DEF TakeInvitation, PrepareRetry, PrepareReminder, Skip, stores
  <2> HIDE DEF st
  <2> QED BY <1>1, <2>2 DEF Rows
<1>4. ASSUME NEW e \in Events, Ingest(e) PROVE ledger'[m].id = ledger[m].id
  <2> DEFINE rows == {o \in Mails : ledger[o].id = e.mail}
  <2>1. \/ UNCHANGED ledger
        \/ ledger'[m] = IF m \in rows THEN [ledger[m] EXCEPT !.status = e.type]
                        ELSE ledger[m]
    BY <1>4 DEF Ingest
  <2> HIDE DEF rows
  <2> QED BY <1>1, <2>1 DEF Rows
<1> QED
  BY <1>2, <1>3, <1>4
  DEF Next, vars, stores, Start, Launch, StartRetry, StartRemind, Step, Send,
      Fault, LoseMark, Crash, Recover, Portal, OpenInvite, StartDraft,
      SubmitQuote, Decline, StartRevision, Answer, OptOut, Time, Age,
      CooldownEnds, SuppressElsewhere, Award, DeadlinePasses, Emit

(* What the result of an invitation does: a success names the mail in the  *)
(* row m and in its dispatch, a failure names nothing new, and either way  *)
(* the dispatch was attempted.                                             *)
LEMMA InvitationResult ==
  ASSUME LedgerInv, NEW w \in Workers, MarkInvitation(w)
  PROVE  LET j == worker[w].job IN
         /\ j \in Invites /\ j.to \in Suppliers
         /\ \A t \in Suppliers : dispatch'[t].sent => dispatch'[t].attempts # 0
         /\ \/ /\ \A o \in Mails : ledger'[o].id = ledger[o].id
               /\ \A t \in Suppliers :
                    dispatch'[t].provider = dispatch[t].provider
            \/ \E m \in Invites :
                 /\ Accepted(j) /\ m.to = j.to
                 /\ ledger'[m].id = j
                 /\ \A o \in Mails \ {m} : /\ ledger'[o].id = ledger[o].id
                                           /\ ledger[o].id # j
                 /\ dispatch'[j.to].provider = j
                 /\ \A t \in Suppliers \ {j.to} :
                      dispatch'[t].provider = dispatch[t].provider
<1> DEFINE wk == worker[w]
           j == wk.job
           s == j.to
           d == dispatch[s]
           m == Invite(s, d.version)
           c == d.cooling \/ ~ d.sent
           ok == [[d EXCEPT !.status = "sent", !.attempts = d.attempts + 1,
                            !.aged = FALSE]
                    EXCEPT !.provider = j, !.sent = TRUE, !.cooling = c]
           ko == [d EXCEPT !.status = "failed", !.attempts = d.attempts + 1,
                           !.aged = FALSE]
<1>1. wk \in WorkerStates /\ TypeOK BY DEF LedgerInv, TypeOK
<1>2. j \in Mails /\ j.kind = "invite" BY <1>1, WorkerMails DEF MarkInvitation
<1>3. s \in Suppliers /\ j \in Invites BY <1>2, MailFields
<1>4. /\ dispatch \in [Suppliers -> Dispatches] /\ d \in Dispatches
      /\ d.version \in 1 .. MaxVersion /\ d.attempts + 1 \in Nat \ {0}
  <2>1. dispatch \in [Suppliers -> Dispatches] BY <1>1 DEF TypeOK
  <2>2. d \in Dispatches BY <1>3, <2>1
  <2> HIDE DEF d
  <2> QED BY <2>1, <2>2 DEF Dispatches
<1>5. m \in Invites /\ m \in Mails BY <1>3, <1>4, KeysAreMails DEF Mails
<1>6. m.to = s BY DEF Invite
<1>7. ledger \in [Mails -> Rows] /\ ledger[m] \in Rows BY <1>1, <1>5 DEF TypeOK
<1>8. CASE wk.result = "ok" /\ ~ RecordedElsewhere(j, m)
  <2>1. ledger' = [ledger EXCEPT ![m] = [status |-> "sent", id |-> j]]
    BY <1>8 DEF MarkInvitation
  <2>2. dispatch' = [dispatch EXCEPT ![s] = ok]
    BY <1>8, Zenon DEF MarkInvitation
  <2>3. Accepted(j) BY <1>8 DEF LedgerInv, JobsHaveTokens
  <2>4. \A o \in Mails \ {m} : ledger[o].id # j BY <1>8 DEF RecordedElsewhere
  <2> HIDE DEF c, m
  <2>5. ok.provider = j /\ ok.sent /\ ok.attempts # 0
    BY <1>4 DEF Dispatches
  <2> HIDE DEF ok
  <2>6. \A t \in Suppliers : dispatch'[t].sent => dispatch'[t].attempts # 0
    BY <1>3, <1>4, <2>2, <2>5 DEF LedgerInv, SentWasAttempted
  <2>7. ledger'[m].id = j BY <1>5, <1>7, <2>1
  <2>8. \A o \in Mails \ {m} : ledger'[o].id = ledger[o].id BY <1>7, <2>1
  <2>9. /\ dispatch'[s].provider = j
        /\ \A t \in Suppliers \ {s} : dispatch'[t].provider = dispatch[t].provider
    BY <1>3, <1>4, <2>2, <2>5
  <2> QED BY <1>3, <1>5, <1>6, <2>3, <2>4, <2>6, <2>7, <2>8, <2>9
<1>9. CASE wk.result = "error"
  <2>1. ledger' = [ledger EXCEPT ![m].status = "failed"]
    BY <1>9 DEF MarkInvitation
  <2>2. dispatch' = [dispatch EXCEPT ![s] = ko] BY <1>9 DEF MarkInvitation
  <2> HIDE DEF m
  <2>3. ko.provider = d.provider /\ ko.attempts # 0 BY <1>4 DEF Dispatches
  <2> HIDE DEF ko
  <2>4. \A t \in Suppliers : dispatch'[t].sent => dispatch'[t].attempts # 0
    BY <1>3, <1>4, <2>2, <2>3 DEF LedgerInv, SentWasAttempted
  <2>5. \A o \in Mails : ledger'[o].id = ledger[o].id
    BY <1>5, <1>7, <2>1 DEF Rows
  <2>6. \A t \in Suppliers : dispatch'[t].provider = dispatch[t].provider
    BY <1>3, <1>4, <2>2, <2>3
  <2> QED BY <1>3, <2>4, <2>5, <2>6
<1>10. CASE UNCHANGED <<ledger, dispatch>>
  BY <1>3, <1>10 DEF LedgerInv, SentWasAttempted
<1> QED BY <1>8, <1>9, <1>10 DEF MarkInvitation

(* And that of a reminder: its own row may name it.                        *)
LEMMA ReminderResult ==
  ASSUME LedgerInv, NEW w \in Workers, MarkReminder(w)
  PROVE  LET j == worker[w].job IN
         /\ j \in Reminders
         /\ \A o \in Mails \ {j} : ledger'[o].id = ledger[o].id
         /\ \/ ledger'[j].id = ledger[j].id
            \/ ledger'[j].id = j /\ Accepted(j)
<1> DEFINE j == worker[w].job
<1>1. worker[w] \in WorkerStates /\ ledger \in [Mails -> Rows]
  BY DEF LedgerInv, TypeOK
<1>2. j \in Reminders /\ j \in Mails
  BY <1>1, WorkerMails, MailFields DEF MarkReminder
<1>3. CASE /\ worker[w].result = "ok"
           /\ ledger' = [ledger EXCEPT ![j] = [status |-> "sent", id |-> j]]
  <2>1. Accepted(j) BY <1>3 DEF LedgerInv, JobsHaveTokens
  <2> QED BY <1>1, <1>2, <1>3, <2>1
<1>4. CASE ledger' = [ledger EXCEPT ![j].status = "failed"]
  BY <1>1, <1>2, <1>4 DEF Rows
<1> QED BY <1>2, <1>3, <1>4 DEF MarkReminder

(* What a server action holds after each of its steps.                     *)
LEMMA TokensKept ==
  ASSUME LedgerInv, [Next]_vars
  PROVE  JobsHaveTokens'
<1> DEFINE Sound(wk) == /\ wk.job # NoMail => wk.token # 0
                        /\ wk.result = "ok" => wk.job # NoMail /\ mail'[wk.job] # 0
<1>1. \A w \in Workers : worker[w] \in WorkerStates /\ Sound(worker[w])
  <2>1. ASSUME NEW w \in Workers PROVE worker[w] \in WorkerStates
    BY DEF LedgerInv, TypeOK
  <2>2. ASSUME NEW w \in Workers, worker[w].result = "ok"
        PROVE  worker[w].job # NoMail /\ mail'[worker[w].job] # 0
    <3>1. worker[w].job # NoMail /\ Accepted(worker[w].job)
      BY <2>2 DEF LedgerInv, JobsHaveTokens
    <3>2. worker[w].job \in Mails BY <2>1, <3>1, WorkerMails
    <3> QED BY <3>1, <3>2, AcceptedStays DEF Accepted
  <2> QED BY <2>1, <2>2 DEF LedgerInv, JobsHaveTokens
<1>2. worker \in [Workers -> WorkerStates] BY DEF LedgerInv, TypeOK
<1>3. ASSUME NEW w \in Workers, NEW wk, Sound(wk), worker' = [worker EXCEPT ![w] = wk]
      PROVE  JobsHaveTokens'
  BY <1>1, <1>2, <1>3 DEF JobsHaveTokens, Accepted
<1>4. ASSUME NEW w \in Workers, NEW wk \in WorkerStates, wk.job = NoMail,
             wk.result = "none"
      PROVE  Sound(wk) /\ Sound(Continue(wk))
  BY <1>4 DEF Continue, Idle, WorkerStates
<1>5. ASSUME NEW wk \in WorkerStates PROVE Sound(Continue(wk))
  BY DEF Continue, Idle, WorkerStates
<1>6. CASE UNCHANGED worker
  BY <1>1, <1>6 DEF JobsHaveTokens, Accepted
<1>7. ASSUME NEW w \in Workers, Start(w) PROVE JobsHaveTokens'
  <2>1. ASSUME NEW op, NEW todo,
               worker' = [worker EXCEPT ![w] =
                            [Idle EXCEPT !.op = op, !.todo = todo]]
        PROVE  JobsHaveTokens'
    <3>1. Sound([Idle EXCEPT !.op = op, !.todo = todo]) BY DEF Idle
    <3> HIDE DEF Sound
    <3> QED BY <1>3, <2>1, <3>1
  <2>2. CASE Launch(w) BY <2>1, <2>2 DEF Launch
  <2>3. CASE StartRetry(w) BY <2>1, <2>3 DEF StartRetry
  <2>4. CASE StartRemind(w) BY <2>1, <2>4 DEF StartRemind
  <2> QED BY <1>7, <2>2, <2>3, <2>4 DEF Start
<1>8. ASSUME NEW w \in Workers, NEW m \in worker[w].todo, NEW n \in Nat \ {0},
             Take(w, m, n), worker[w].job = NoMail
      PROVE  JobsHaveTokens'
  <2> DEFINE left == worker[w].todo \ {m}
             wk == [worker[w] EXCEPT !.todo = left, !.job = m, !.token = n]
  <2>1. worker[w].result # "ok" BY <1>8 DEF LedgerInv, JobsHaveTokens
  <2>2. wk.result = worker[w].result /\ wk.token = n /\ wk.job = m
    BY <1>1 DEF WorkerStates
  <2>3. Sound(wk) BY <2>1, <2>2
  <2>4. worker' = [worker EXCEPT ![w] = wk] BY <1>8 DEF Take
  <2> HIDE DEF wk, Sound
  <2> QED BY <1>3, <2>3, <2>4
<1>9. ASSUME NEW w \in Workers, NEW m \in worker[w].todo, Skip(w, m)
      PROVE  JobsHaveTokens'
  <2>1. [worker[w] EXCEPT !.todo = worker[w].todo \ {m}] \in WorkerStates
    BY <1>1, WorkerUpdates
  <2> HIDE DEF Sound
  <2> QED BY <1>3, <1>5, <1>9, <2>1 DEF Skip
<1>10. ASSUME NEW w \in Workers, Prepare(w) PROVE JobsHaveTokens'
  <2>1. PICK m \in worker[w].todo :
          TakeInvitation(w, m) \/ PrepareRetry(w, m) \/ PrepareReminder(w, m)
    BY <1>10 DEF Prepare
  <2>2. worker[w].job = NoMail BY <1>10 DEF Prepare
  <2>3. m \in Mails /\ m.to \in Suppliers BY <1>1, WorkerMails, MailFields
  <2>4. CASE Skip(w, m) BY <1>9, <2>4
  <2>5. CASE worker[w].op \in {"launch", "retry"} /\ Take(w, m, m.no)
    <3>1. m.no \in Nat \ {0} BY <1>1, <2>3, <2>5, WorkerMails, MailFields
    <3> QED BY <1>8, <2>2, <2>5, <3>1
  <2>6. CASE MayRemind(m.to) /\ Take(w, m, dispatch[m.to].attempts)
    <3>1. dispatch[m.to].attempts \in Nat \ {0}
      BY <2>3, <2>6
      DEF MayRemind, LedgerInv, SentWasAttempted, TypeOK, Dispatches
    <3> QED BY <1>8, <2>2, <2>6, <3>1
  <2> QED BY <2>1, <2>4, <2>5, <2>6
          DEF TakeInvitation, PrepareRetry, PrepareReminder
<1>11. ASSUME NEW w \in Workers, Send(w) PROVE JobsHaveTokens'
  <2> DEFINE j == worker[w].job
  <2>1. PICK r \in {"ok", "error"} :
          /\ worker' = [worker EXCEPT ![w].result = r]
          /\ r = "ok" => mail' = [mail EXCEPT ![j] = worker[w].token]
    BY <1>11 DEF Send
  <2>2. j # NoMail /\ j \in Mails BY <1>1, <1>11, WorkerMails DEF Send
  <2>3. worker[w].token # 0 BY <2>2 DEF LedgerInv, JobsHaveTokens
  <2>4. r = "ok" => mail'[j] # 0
    BY <2>1, <2>2, <2>3 DEF LedgerInv, TypeOK
  <2> DEFINE wk == [worker[w] EXCEPT !.result = r]
  <2>5. wk.job = j /\ wk.token = worker[w].token /\ wk.result = r
    BY <1>1 DEF WorkerStates
  <2>6. Sound(wk) BY <2>2, <2>3, <2>4, <2>5
  <2>7. worker' = [worker EXCEPT ![w] = wk] BY <2>1
  <2> HIDE DEF wk, Sound
  <2> QED BY <1>3, <2>6, <2>7
<1>12. ASSUME NEW w \in Workers, MarkInvitation(w) \/ MarkReminder(w) \/ LoseMark(w)
       PROVE  JobsHaveTokens'
  <2> HIDE DEF Sound
  <2> QED BY <1>1, <1>3, <1>5, <1>12 DEF MarkInvitation, MarkReminder, LoseMark
<1>13. ASSUME NEW w \in Workers, Crash(w) PROVE JobsHaveTokens'
  <2>1. Sound(Idle) BY DEF Idle
  <2> HIDE DEF Sound
  <2> QED BY <1>3, <1>13, <2>1 DEF Crash
<1>14. ASSUME NEW s \in Suppliers,
              Recover(s) \/ Portal(s) \/ Time(s) \/ SuppressElsewhere(s)
       PROVE  UNCHANGED worker
  BY <1>14 DEF Recover, Portal, OpenInvite, StartDraft, SubmitQuote, Decline,
               StartRevision, Answer, OptOut, Time, Age, CooldownEnds,
               SuppressElsewhere
<1> QED
  BY <1>6, <1>7, <1>10, <1>11, <1>12, <1>13, <1>14
  DEF Next, Step, Fault, Award, DeadlinePasses, Emit, Ingest, vars

LEMMA LedgerInvHoldsAtStart == Init => LedgerInv
<1> SUFFICES ASSUME Init PROVE LedgerInv OBVIOUS
<1>1. \A m \in Mails : ledger[m].id = NoMail BY DEF Init, NoRow
<1>2. \A s \in Suppliers : dispatch[s].provider = NoMail /\ ~ dispatch[s].sent
  BY DEF Init, NewDispatch
<1>3. \A w \in Workers : worker[w].job = NoMail /\ worker[w].result = "none"
  BY DEF Init, Idle
<1> QED
  BY <1>1, <1>2, <1>3, InitTyped
  DEF LedgerInv, RowsAreEvidence, ProvidersAreRecorded,
      ReminderRowsNameThemselves, JobsHaveTokens, SentWasAttempted, Mails

(* The row that names a dispatch's message is an invitation's.             *)
LEMMA ProvidersRow ==
  ASSUME LedgerInv, NEW s \in Suppliers, dispatch[s].provider # NoMail
  PROVE  \E m \in Invites : m.to = s /\ ledger[m].id = dispatch[s].provider
<1>1. dispatch[s].provider \in Invites BY DEF LedgerInv, TypeOK, Dispatches
<1>2. PICK m \in Mails : m.to = s /\ ledger[m].id = dispatch[s].provider
  BY DEF LedgerInv, ProvidersAreRecorded
<1>3. m.kind = "invite"
  <2>1. dispatch[s].provider \in Mails BY <1>1 DEF Mails
  <2>2. ledger[m].id.kind = "invite" BY <1>1, <1>2, <2>1, MailFields
  <2> QED BY <1>2, <2>2 DEF LedgerInv, RowsAreEvidence
<1> QED BY <1>2, <1>3, MailFields

(* Dispatches go on naming recorded messages.                              *)
LEMMA DispatchesKept ==
  ASSUME LedgerInv, [Next]_vars
  PROVE  ProvidersAreRecorded' /\ SentWasAttempted'
<1>1. TypeOK BY DEF LedgerInv
<1>2. ASSUME NEW w \in Workers, Launch(w)
      PROVE  ProvidersAreRecorded' /\ SentWasAttempted'
  <2>1. \A s \in Suppliers : dispatch'[s].provider = NoMail /\ ~ dispatch'[s].sent
    BY <1>2 DEF Launch, NewDispatch
  <2> QED BY <2>1 DEF ProvidersAreRecorded, SentWasAttempted
<1>3. ASSUME NEW w \in Workers, MarkInvitation(w)
      PROVE  ProvidersAreRecorded' /\ SentWasAttempted'
  <2> DEFINE j == worker[w].job
  <2>1. /\ j \in Invites /\ j.to \in Suppliers
        /\ \A t \in Suppliers : dispatch'[t].sent => dispatch'[t].attempts # 0
    BY <1>3, InvitationResult
  <2>2. CASE /\ \A o \in Mails : ledger'[o].id = ledger[o].id
             /\ \A t \in Suppliers : dispatch'[t].provider = dispatch[t].provider
    BY <2>1, <2>2 DEF LedgerInv, ProvidersAreRecorded, SentWasAttempted
  <2>3. ASSUME NEW m \in Invites, m.to = j.to, ledger'[m].id = j,
               \A o \in Mails \ {m} : ledger'[o].id = ledger[o].id,
               dispatch'[j.to].provider = j,
               \A t \in Suppliers \ {j.to} :
                 dispatch'[t].provider = dispatch[t].provider
        PROVE  ProvidersAreRecorded'
    <3>1. SUFFICES ASSUME NEW t \in Suppliers, t # j.to,
                          dispatch[t].provider # NoMail
                   PROVE  \E o \in Mails : /\ o.to = t
                                           /\ ledger'[o].id = dispatch[t].provider
      BY <2>3 DEF ProvidersAreRecorded, Mails
    <3>2. PICK o \in Mails : o.to = t /\ ledger[o].id = dispatch[t].provider
      BY <3>1 DEF LedgerInv, ProvidersAreRecorded
    <3> QED BY <2>3, <3>1, <3>2
  <2>4. SentWasAttempted' BY <2>1 DEF SentWasAttempted
  <2> QED BY <1>3, <2>2, <2>3, <2>4, InvitationResult
<1>4. ASSUME NEW w \in Workers, MarkReminder(w), NEW s \in Suppliers,
             dispatch[s].provider # NoMail
      PROVE  \E m \in Mails : m.to = s /\ ledger'[m].id = dispatch[s].provider
  <2>1. PICK m \in Invites : m.to = s /\ ledger[m].id = dispatch[s].provider
    BY <1>4, ProvidersRow
  <2>2. m \in Mails /\ m \notin Reminders
    <3>1. m \in Mails BY DEF Mails
    <3> QED BY <3>1, MailFields
  <2>3. ledger'[m].id = ledger[m].id BY <1>4, <2>2, ReminderResult
  <2> QED BY <2>1, <2>2, <2>3
<1>5. CASE /\ \A w \in Workers : ~ Launch(w) /\ ~ MarkInvitation(w)
  <2>1. \A s \in Suppliers : /\ dispatch'[s].sent = dispatch[s].sent
                             /\ dispatch'[s].attempts = dispatch[s].attempts
                             /\ dispatch'[s].provider = dispatch[s].provider
    BY <1>1, <1>5, AttemptsAreKept
  <2>2. SentWasAttempted' BY <2>1 DEF LedgerInv, SentWasAttempted
  <2>3. ASSUME NEW s \in Suppliers, dispatch[s].provider # NoMail
        PROVE  \E m \in Mails : m.to = s /\ ledger'[m].id = dispatch[s].provider
    <3>1. CASE \E w \in Workers : MarkReminder(w) BY <1>4, <2>3, <3>1
    <3>2. CASE \A m \in Mails : ledger'[m].id = ledger[m].id
      BY <2>3, <3>2 DEF LedgerInv, ProvidersAreRecorded
    <3> QED BY <1>1, <1>5, <3>1, <3>2, IdsAreKept
  <2> QED BY <2>1, <2>2, <2>3 DEF ProvidersAreRecorded
<1> QED BY <1>2, <1>3, <1>5

(* Rows go on being evidence.                                              *)
LEMMA RowsKept ==
  ASSUME LedgerInv, [Next]_vars
  PROVE  RowsAreEvidence' /\ ReminderRowsNameThemselves'
<1>1. TypeOK BY DEF LedgerInv
<1>2. \A m \in Mails : ledger[m].id # NoMail =>
        ledger[m].id \in Mails /\ mail'[ledger[m].id] # 0
  <2>1. ASSUME NEW m \in Mails, ledger[m].id # NoMail
        PROVE  ledger[m].id \in Mails /\ mail'[ledger[m].id] # 0
    <3>1. ledger[m].id \in Mails BY <1>1, <2>1 DEF TypeOK, Rows
    <3>2. Accepted(ledger[m].id) BY <2>1 DEF LedgerInv, RowsAreEvidence
    <3> QED BY <3>1, <3>2, AcceptedStays DEF Accepted
  <2> QED BY <2>1
<1>3. CASE \A m \in Mails : ledger'[m].id = ledger[m].id
  BY <1>2, <1>3
  DEF LedgerInv, RowsAreEvidence, ReminderRowsNameThemselves, Accepted, Mails
<1>4. ASSUME NEW m \in Mails, NEW j \in Mails, ledger'[m].id = j, Accepted(j),
             j.to = m.to, j.kind = m.kind, m \in Reminders => j = m,
             \A o \in Mails \ {m} : /\ ledger'[o].id = ledger[o].id
                                    /\ ledger[o].id # j
      PROVE  RowsAreEvidence' /\ ReminderRowsNameThemselves'
  <2>1. mail'[j] # 0 BY <1>4, AcceptedStays DEF Accepted
  <2>2. ReminderRowsNameThemselves'
    BY <1>4 DEF LedgerInv, ReminderRowsNameThemselves, Mails
  <2>3. RowsAreEvidence'
    BY <1>2, <1>4, <2>1 DEF LedgerInv, RowsAreEvidence, Accepted
  <2> QED BY <2>2, <2>3
<1>5. ASSUME NEW w \in Workers, MarkInvitation(w)
      PROVE  RowsAreEvidence' /\ ReminderRowsNameThemselves'
  <2> DEFINE j == worker[w].job
  <2>1. j \in Invites BY <1>5, InvitationResult
  <2>2. CASE \A o \in Mails : ledger'[o].id = ledger[o].id BY <1>3, <2>2
  <2>3. ASSUME NEW m \in Invites, Accepted(j), m.to = j.to, ledger'[m].id = j,
               \A o \in Mails \ {m} : /\ ledger'[o].id = ledger[o].id
                                      /\ ledger[o].id # j
        PROVE  RowsAreEvidence' /\ ReminderRowsNameThemselves'
    <3>1. m \in Mails /\ j \in Mails BY <2>1 DEF Mails
    <3>2. m.kind = "invite" /\ j.kind = "invite" /\ m \notin Reminders
      BY <2>1, <3>1, MailFields
    <3> HIDE DEF j
    <3> QED BY <1>4, <2>3, <3>1, <3>2
  <2> QED BY <1>5, <2>2, <2>3, InvitationResult
<1>6. ASSUME NEW w \in Workers, MarkReminder(w)
      PROVE  RowsAreEvidence' /\ ReminderRowsNameThemselves'
  <2> DEFINE j == worker[w].job
  <2>1. /\ j \in Reminders /\ j \in Mails
        /\ \A o \in Mails \ {j} : ledger'[o].id = ledger[o].id
    BY <1>6, ReminderResult DEF Mails
  <2>2. CASE ledger'[j].id = ledger[j].id BY <1>3, <2>1, <2>2
  <2>3. CASE ledger'[j].id = j /\ Accepted(j)
    <3>1. ASSUME NEW o \in Mails \ {j} PROVE ledger[o].id # j
      <4>1. CASE o \in Reminders
        BY <2>1, <3>1, <4>1, NoMailAssumption
        DEF LedgerInv, ReminderRowsNameThemselves
      <4>2. CASE o \in Invites
        <5>1. j.kind = "reminder" /\ o.kind = "invite"
          BY <2>1, <3>1, <4>2, MailFields
        <5> QED BY <2>1, <3>1, <5>1 DEF LedgerInv, RowsAreEvidence
      <4> QED BY <3>1, <4>1, <4>2 DEF Mails
    <3> HIDE DEF j
    <3> QED BY <1>4, <2>1, <2>3, <3>1
  <2> QED BY <1>6, <2>2, <2>3, ReminderResult
<1> QED BY <1>1, <1>3, <1>5, <1>6, IdsAreKept

(* The delivery ledger is evidence: every provider message it names was    *)
(* accepted for that very supplier, no message is named twice, and no      *)
(* dispatch names one the ledger does not, whatever the number of server   *)
(* actions, retries, recoveries and faults.                                *)
THEOREM TheLedgerIsEvidence == Spec => []LedgerIsEvidence
<1>1. Init => LedgerInv BY LedgerInvHoldsAtStart
<1>2. LedgerInv /\ [Next]_vars => LedgerInv'
  BY NextTyped, RowsKept, DispatchesKept, TokensKept DEF LedgerInv
<1>3. LedgerInv => LedgerIsEvidence
  BY DEF LedgerInv, RowsAreEvidence, ProvidersAreRecorded, LedgerIsEvidence
<1> QED BY <1>1, <1>2, <1>3, PTL DEF Spec

-----------------------------------------------------------------------------
(* Reminders.  A server action reads the counter of a dispatch, sends the  *)
(* next reminder and records its number: several of them may do so at      *)
(* once, each from the counter it read, and any of them may die.  The      *)
(* strengthening says why the counter is one behind at most: no reminder   *)
(* in hand is more than one ahead of the counter, and before the launch,   *)
(* which resets the counter, nobody holds or has sent one.                 *)
InHand(w) == worker[w].todo \cup {worker[w].job}
RemindersInOrder ==
  \A s \in Suppliers, n \in 1 .. MaxReminders :
    /\ n <= dispatch[s].reminders => Accepted(Reminder(s, n))
    /\ Accepted(Reminder(s, n)) => n <= dispatch[s].reminders + 1
RemindersFollow ==
  \A w \in Workers, m \in Reminders :
    m \in InHand(w) => m.no <= dispatch[m.to].reminders + 1
NoneBeforeLaunch ==
  campaign = "draft" =>
    \A m \in Reminders : ~ Accepted(m) /\ \A w \in Workers : m \notin InHand(w)
RemindersInv ==
  LedgerInv /\ RemindersInOrder /\ RemindersFollow /\ NoneBeforeLaunch

(* A reminder is the mail of its supplier and number.                      *)
LEMMA ReminderFields ==
  /\ \A m \in Reminders : /\ m = Reminder(m.to, m.no) /\ m \in Mails
                          /\ m.to \in Suppliers /\ m.no \in 1 .. MaxReminders
  /\ \A s \in Suppliers, n \in 1 .. MaxReminders :
       /\ Reminder(s, n) \in Reminders /\ Reminder(s, n) \in Mails
       /\ Reminder(s, n).to = s /\ Reminder(s, n).no = n
       /\ Reminder(s, n).kind = "reminder"
BY DEF Reminder, Reminders, Mails

(* What a server action holds changes in four ways: not at all; it drops   *)
(* the mail in hand and perhaps the rest; it prepares a mail it had still  *)
(* to do; or it starts, with the next number of each dispatch it read.     *)
StartsWith(w) ==
  \/ /\ Launch(w) /\ worker'[w].op = "launch"
     /\ worker'[w].todo = {Invite(s, 1) : s \in Suppliers}
  \/ /\ StartRetry(w) /\ worker'[w].op = "retry"
     /\ \A m \in worker'[w].todo :
          m.kind = "invite" /\ m.no = dispatch[m.to].attempts + 1
  \/ /\ StartRemind(w) /\ worker'[w].op = "remind"
     /\ \A m \in worker'[w].todo :
          m.kind = "reminder" /\ m.no = dispatch[m.to].reminders + 1
HandMoves(w) ==
  \/ /\ worker'[w].op = worker[w].op
     /\ worker'[w].todo = worker[w].todo /\ worker'[w].job = worker[w].job
  \/ /\ worker'[w].op \in {worker[w].op, "idle"}
     /\ worker'[w].todo \subseteq worker[w].todo /\ worker'[w].job = NoMail
  \/ /\ Prepare(w) /\ worker'[w].op = worker[w].op
     /\ worker'[w].job \in worker[w].todo
     /\ worker'[w].todo = worker[w].todo \ {worker'[w].job}
  \/ StartsWith(w) /\ worker'[w].job = NoMail

LEMMA HandsMove ==
  ASSUME TypeOK, [Next]_vars, NEW w \in Workers
  PROVE  HandMoves(w)
<1>1. worker \in [Workers -> WorkerStates] /\ \A v \in Workers : worker[v] \in WorkerStates
  BY DEF TypeOK
<1>2. CASE worker'[w] = worker[w] BY <1>2 DEF HandMoves
<1>3. ASSUME NEW v \in Workers, NEW wk, worker' = [worker EXCEPT ![v] = wk]
      PROVE  w # v => HandMoves(w)
  BY <1>1, <1>2, <1>3
<1>4. ASSUME NEW wk, worker' = [worker EXCEPT ![w] = wk]
      PROVE  worker'[w] = wk
  BY <1>1, <1>4
<1>5. ASSUME NEW wk \in WorkerStates
      PROVE  /\ Continue(wk).op \in {wk.op, "idle"}
             /\ Continue(wk).todo \subseteq wk.todo
             /\ Continue(wk).job = NoMail
  BY DEF Continue, Idle, WorkerStates
<1>6. ASSUME NEW op, NEW todo
      PROVE  LET wk == [Idle EXCEPT !.op = op, !.todo = todo]
             IN  wk.op = op /\ wk.todo = todo /\ wk.job = NoMail
  BY DEF Idle
<1>7. ASSUME NEW v \in Workers, Launch(v) PROVE HandMoves(w)
  <2> DEFINE todo == {Invite(s, 1) : s \in Suppliers}
             wk == [Idle EXCEPT !.op = "launch", !.todo = todo]
  <2>1. worker' = [worker EXCEPT ![v] = wk] BY <1>7 DEF Launch
  <2>2. wk.op = "launch" /\ wk.todo = todo /\ wk.job = NoMail BY <1>6
  <2> HIDE DEF wk
  <2> QED BY <1>3, <1>4, <1>7, <2>1, <2>2 DEF HandMoves, StartsWith
<1>8. ASSUME NEW v \in Workers, StartRetry(v) PROVE HandMoves(w)
  <2> DEFINE failed == {s \in Suppliers : /\ dispatch[s].status = "failed"
                                          /\ dispatch[s].attempts < MaxVersion}
             todo == {Invite(s, NextAttempt(s)) : s \in failed}
             wk == [Idle EXCEPT !.op = "retry", !.todo = todo]
  <2>1. worker' = [worker EXCEPT ![v] = wk] BY <1>8 DEF StartRetry
  <2>2. wk.op = "retry" /\ wk.todo = todo /\ wk.job = NoMail BY <1>6
  <2>3. \A m \in todo : m.kind = "invite" /\ m.no = dispatch[m.to].attempts + 1
    BY DEF Invite, NextAttempt
  <2> HIDE DEF wk, todo
  <2> QED BY <1>3, <1>4, <1>8, <2>1, <2>2, <2>3 DEF HandMoves, StartsWith
<1>9. ASSUME NEW v \in Workers, StartRemind(v) PROVE HandMoves(w)
  <2> DEFINE due == {s \in Suppliers : dispatch[s].reminders < MaxReminders}
             todo == {Reminder(s, dispatch[s].reminders + 1) : s \in due}
             wk == [Idle EXCEPT !.op = "remind", !.todo = todo]
  <2>1. worker' = [worker EXCEPT ![v] = wk] BY <1>9 DEF StartRemind
  <2>2. wk.op = "remind" /\ wk.todo = todo /\ wk.job = NoMail BY <1>6
  <2>3. \A m \in todo : m.kind = "reminder" /\ m.no = dispatch[m.to].reminders + 1
    BY DEF Reminder
  <2> HIDE DEF wk, todo
  <2> QED BY <1>3, <1>4, <1>9, <2>1, <2>2, <2>3 DEF HandMoves, StartsWith
<1>10. ASSUME NEW v \in Workers, Prepare(v) PROVE HandMoves(w)
  <2>1. PICK o \in worker[v].todo : Skip(v, o) \/ \E n : Take(v, o, n)
    BY <1>10 DEF Prepare, TakeInvitation, PrepareRetry, PrepareReminder
  <2> DEFINE less == [worker[v] EXCEPT !.todo = worker[v].todo \ {o}]
  <2>2. /\ less \in WorkerStates /\ less.op = worker[v].op
        /\ less.todo = worker[v].todo \ {o}
    <3>1. worker[v] \in WorkerStates BY <1>1
    <3>2. less \in WorkerStates BY <3>1, WorkerUpdates
    <3> QED BY <3>1, <3>2 DEF WorkerStates
  <2>3. CASE Skip(v, o)
    <3>1. worker' = [worker EXCEPT ![v] = Continue(less)] BY <2>3 DEF Skip
    <3> HIDE DEF less
    <3>2. w = v => worker'[w] = Continue(less) BY <1>4, <3>1
    <3> QED BY <1>3, <1>5, <2>2, <3>1, <3>2 DEF HandMoves
  <2>4. ASSUME NEW n, Take(v, o, n) PROVE HandMoves(w)
    <3> DEFINE wk == [worker[v] EXCEPT !.todo = worker[v].todo \ {o},
                                       !.job = o, !.token = n]
    <3>1. worker' = [worker EXCEPT ![v] = wk] BY <2>4 DEF Take
    <3>2. wk.op = worker[v].op /\ wk.job = o /\ wk.todo = worker[v].todo \ {o}
      BY <1>1 DEF WorkerStates
    <3> HIDE DEF wk
    <3>3. w = v => worker'[w] = wk BY <1>4, <3>1
    <3> QED BY <1>3, <1>10, <3>1, <3>2, <3>3 DEF HandMoves
  <2> QED BY <2>1, <2>3, <2>4
<1>11. ASSUME NEW v \in Workers, Send(v) PROVE HandMoves(w)
  <2>1. PICK r : worker' = [worker EXCEPT ![v] = [worker[v] EXCEPT !.result = r]]
    BY <1>11 DEF Send
  <2> DEFINE wk == [worker[v] EXCEPT !.result = r]
  <2>2. wk.op = worker[v].op /\ wk.job = worker[v].job /\ wk.todo = worker[v].todo
    BY <1>1 DEF WorkerStates
  <2>3. worker' = [worker EXCEPT ![v] = wk] BY <2>1
  <2> HIDE DEF wk
  <2> QED BY <1>3, <1>4, <2>2, <2>3 DEF HandMoves
<1>12. ASSUME NEW v \in Workers, MarkInvitation(v) \/ MarkReminder(v) \/ LoseMark(v)
       PROVE  HandMoves(w)
  <2>1. worker' = [worker EXCEPT ![v] = Continue(worker[v])]
    BY <1>12 DEF MarkInvitation, MarkReminder, LoseMark
  <2>2. w = v => worker'[w] = Continue(worker[w]) BY <1>4, <2>1
  <2> QED BY <1>1, <1>3, <1>5, <2>1, <2>2 DEF HandMoves
<1>13. ASSUME NEW v \in Workers, Crash(v) PROVE HandMoves(w)
  <2>1. Idle.op = "idle" /\ Idle.job = NoMail /\ Idle.todo = {} BY DEF Idle
  <2>2. w = v => worker'[w] = Idle BY <1>4, <1>13 DEF Crash
  <2> QED BY <1>3, <1>13, <2>1, <2>2 DEF Crash, HandMoves
<1>14. ASSUME NEW s \in Suppliers,
              Recover(s) \/ Portal(s) \/ Time(s) \/ SuppressElsewhere(s)
       PROVE  UNCHANGED worker
  BY <1>14 DEF Recover, Portal, OpenInvite, StartDraft, SubmitQuote, Decline,
               StartRevision, Answer, OptOut, Time, Age, CooldownEnds,
               SuppressElsewhere
<1> QED
  BY <1>2, <1>7, <1>8, <1>9, <1>10, <1>11, <1>12, <1>13, <1>14
  DEF Next, Start, Step, Fault, Award, DeadlinePasses, Emit, Ingest, vars

(* So a mail new in its hands has the next number of its dispatch.         *)
LEMMA NewInHand ==
  ASSUME TypeOK, [Next]_vars, NEW w \in Workers, NEW m \in Mails,
         m \in InHand(w)', m \notin InHand(w)
  PROVE  \/ Launch(w) /\ m.kind = "invite" /\ m.no = 1
         \/ /\ StartRetry(w) /\ m.kind = "invite"
            /\ m.no = dispatch[m.to].attempts + 1
         \/ /\ StartRemind(w) /\ m.kind = "reminder"
            /\ m.no = dispatch[m.to].reminders + 1
<1>1. HandMoves(w) BY HandsMove
<1>2. m # NoMail OBVIOUS
<1>3. StartsWith(w) /\ m \in worker'[w].todo BY <1>1, <1>2 DEF HandMoves, InHand
<1>4. \A s : Invite(s, 1).kind = "invite" /\ Invite(s, 1).no = 1 BY DEF Invite
<1> QED BY <1>3, <1>4 DEF StartsWith

(* What the provider has changes by sending the mail in hand only, so it   *)
(* accepts a mail only from a server action that holds it.                 *)
LEMMA OnlyJobsAreSent ==
  ASSUME TypeOK, [Next]_vars, NEW m \in Mails
  PROVE  mail'[m] = mail[m] \/ \E w \in Workers : Send(w) /\ m = worker[w].job
<1>1. CASE UNCHANGED mail BY <1>1
<1>2. ASSUME NEW w \in Workers, Send(w)
      PROVE  mail'[m] = mail[m] \/ m = worker[w].job
  <2>1. mail' = mail \/ mail' = [mail EXCEPT ![worker[w].job] = worker[w].token]
    BY <1>2 DEF Send
  <2>2. mail \in [Mails -> Nat] BY DEF TypeOK
  <2> QED BY <2>1, <2>2
<1> QED
  BY <1>1, <1>2
  DEF Next, vars, stores, Start, Launch, StartRetry, StartRemind, Step, Prepare,
      MarkInvitation, MarkReminder, Fault, LoseMark, Crash, Recover, Portal,
      OpenInvite, StartDraft, SubmitQuote, Decline, StartRevision, Answer,
      OptOut, Time, Age, CooldownEnds, SuppressElsewhere, Award,
      DeadlinePasses, Emit, Ingest

LEMMA OnlyHeldIsAccepted ==
  ASSUME TypeOK, [Next]_vars, NEW m \in Mails, Accepted(m)'
  PROVE  Accepted(m) \/ \E w \in Workers : m \in InHand(w)
BY OnlyJobsAreSent DEF Accepted, InHand

(* The result of an invitation leaves reminders and link alone.            *)
LEMMA InvitationKeeps ==
  ASSUME TypeOK, NEW w \in Workers, MarkInvitation(w), NEW s \in Suppliers
  PROVE  /\ dispatch'[s].reminders = dispatch[s].reminders
         /\ dispatch'[s].version = dispatch[s].version
<1> DEFINE t == worker[w].job.to
           d == dispatch[t]
           n == d.attempts + 1
           c == d.cooling \/ ~ d.sent
           j == worker[w].job
           ok == [[d EXCEPT !.status = "sent", !.attempts = n, !.aged = FALSE]
                    EXCEPT !.provider = j, !.sent = TRUE, !.cooling = c]
           ko == [d EXCEPT !.status = "failed", !.attempts = n, !.aged = FALSE]
<1>1. dispatch \in [Suppliers -> Dispatches] /\ dispatch[s] \in Dispatches
  BY DEF TypeOK
<1>2. \/ dispatch' = [dispatch EXCEPT ![t] = ok]
      \/ dispatch' = [dispatch EXCEPT ![t] = ko]
      \/ dispatch' = dispatch
  BY Zenon DEF MarkInvitation
<1>3. t = s => /\ ok.reminders = d.reminders /\ ko.reminders = d.reminders
               /\ ok.version = d.version /\ ko.version = d.version
  <2> HIDE DEF n, c, j
  <2> QED BY <1>1 DEF Dispatches
<1> HIDE DEF ok, ko
<1> QED BY <1>1, <1>2, <1>3

(* After the launch the counter only moves to the number of a reminder     *)
(* whose success is recorded.                                              *)
LEMMA CounterMoves ==
  ASSUME TypeOK, [Next]_vars, ~ \E w \in Workers : Launch(w),
         NEW s \in Suppliers
  PROVE  \/ dispatch'[s].reminders = dispatch[s].reminders
         \/ \E w \in Workers :
              LET j == worker[w].job IN
              /\ j \in Reminders /\ worker[w].result = "ok" /\ j.to = s
              /\ j.no > dispatch[s].reminders
              /\ dispatch'[s].reminders = j.no
<1>1. dispatch \in [Suppliers -> Dispatches] /\ dispatch[s] \in Dispatches
  BY DEF TypeOK
<1>2. ASSUME NEW w \in Workers, MarkInvitation(w)
      PROVE  dispatch'[s].reminders = dispatch[s].reminders
  BY <1>2, InvitationKeeps
<1>3. ASSUME NEW w \in Workers, MarkReminder(w)
      PROVE  \/ dispatch'[s].reminders = dispatch[s].reminders
             \/ LET j == worker[w].job IN
                /\ j \in Reminders /\ worker[w].result = "ok" /\ j.to = s
                /\ j.no > dispatch[s].reminders
                /\ dispatch'[s].reminders = j.no
  <2> DEFINE wk == worker[w]
             t == wk.job.to
             d == dispatch[t]
             n == RemindersAfter(d.reminders, wk)
             c == d.cooling \/ wk.result = "ok"
             after == [d EXCEPT !.reminders = n, !.cooling = c]
  <2>1. dispatch' = [dispatch EXCEPT ![t] = after]
    BY <1>3, Zenon DEF MarkReminder
  <2>2. worker[w] \in WorkerStates BY DEF TypeOK
  <2>3. wk.job \in Reminders /\ wk.job.kind = "reminder"
    <3>1. wk.job # NoMail /\ wk.job.kind = "reminder"
      BY <1>3, Zenon DEF MarkReminder
    <3> QED BY <2>2, <3>1, WorkerMails, MailFields
  <2>4. t \in Suppliers BY <2>3, ReminderFields
  <2>5. t # s => dispatch'[s] = dispatch[s] BY <1>1, <2>1
  <2>6. dispatch'[t].reminders = n
    <3>1. dispatch'[t] = after BY <1>1, <2>1, <2>4
    <3>2. d \in Dispatches BY <1>1, <2>4
    <3> HIDE DEF n, c, d
    <3> QED BY <3>1, <3>2 DEF Dispatches
  <2>7. \/ n = d.reminders
        \/ n = wk.job.no /\ wk.job.no > d.reminders /\ wk.result = "ok"
    BY DEF RemindersAfter
  <2> QED BY <2>3, <2>5, <2>6, <2>7
<1> QED BY <1>2, <1>3, AttemptsAreKept

(* Nobody returns to the draft, so the launch happens once.                *)
LEMMA DraftIsLeft ==
  ASSUME [Next]_vars, campaign' = "draft"
  PROVE  /\ campaign = "draft"
         /\ \A w \in Workers : ~ Launch(w) /\ ~ StartRemind(w)
<1> DEFINE Left == \/ UNCHANGED campaign
                   \/ campaign' \in {"launched", "collecting", "awarded"}
                   \/ campaign' = AfterFirstSend(campaign)
<1>1. \A w \in Workers : Start(w) => Left
  BY DEF Start, Launch, StartRetry, StartRemind, stores
<1>2. \A w \in Workers : Prepare(w) => Left
  BY DEF Prepare, TakeInvitation, PrepareRetry, PrepareReminder, Skip, stores
<1>3. \A w \in Workers : Send(w) \/ MarkInvitation(w) \/ MarkReminder(w) => Left
  BY DEF Send, MarkInvitation, MarkReminder, stores
<1>4. \A w \in Workers : Fault(w) => Left
  BY DEF Fault, LoseMark, Crash, stores
<1>5. \A s \in Suppliers : Portal(s) => Left
  BY DEF Portal, OpenInvite, StartDraft, SubmitQuote, Decline, StartRevision, Answer,
      OptOut, stores
<1>6. \A s \in Suppliers : Recover(s) \/ Time(s) \/ SuppressElsewhere(s) => Left
  BY DEF Recover, Time, Age, CooldownEnds, SuppressElsewhere, stores
<1>7. /\ \A W : Award(W) => Left
      /\ DeadlinePasses => Left
  BY DEF Award, DeadlinePasses
<1>8. /\ \A m, t : Emit(m, t) => Left
      /\ \A e : Ingest(e) => Left
  BY DEF Emit, Ingest, stores
<1>9. UNCHANGED vars => Left
  BY DEF vars, stores
<1> HIDE DEF Left
<1>10. Left
  BY <1>1, <1>2, <1>3, <1>4, <1>5, <1>6, <1>7, <1>8, <1>9 DEF Next, Step
<1>11. campaign = "draft" BY <1>10 DEF AfterFirstSend, Left
<1> QED BY <1>11 DEF Launch, StartRemind, OpenCampaign

LEMMA RemindersInvIsKept == RemindersInv /\ [Next]_vars => RemindersInv'
<1> SUFFICES ASSUME RemindersInv, [Next]_vars PROVE RemindersInv' OBVIOUS
<1>1. TypeOK /\ LedgerInv BY DEF RemindersInv, LedgerInv
<1>2. TypeOK' /\ LedgerInv'
  BY <1>1, NextTyped, RowsKept, DispatchesKept, TokensKept DEF LedgerInv
<1>3. /\ \A s \in Suppliers : dispatch[s].reminders \in 0 .. MaxReminders
      /\ \A s \in Suppliers : dispatch'[s].reminders \in 0 .. MaxReminders
  BY <1>1, <1>2 DEF TypeOK, Dispatches
<1>4. \A m \in Mails : Accepted(m) => Accepted(m)' BY <1>1, AcceptedStays
<1>5. NoneBeforeLaunch'
  <2> SUFFICES ASSUME campaign' = "draft", NEW m \in Reminders
               PROVE  ~ Accepted(m)' /\ \A w \in Workers : m \notin InHand(w)'
    BY DEF NoneBeforeLaunch
  <2>1. /\ campaign = "draft"
        /\ \A w \in Workers : ~ StartRemind(w)
    BY DraftIsLeft
  <2>2. ~ Accepted(m) /\ \A w \in Workers : m \notin InHand(w)
    BY <2>1 DEF RemindersInv, NoneBeforeLaunch
  <2>3. ~ Accepted(m)' BY <1>1, <2>2, ReminderFields, OnlyHeldIsAccepted
  <2>4. \A w \in Workers : m \notin InHand(w)'
    BY <1>1, <2>1, <2>2, NewInHand, ReminderFields, DraftIsLeft
  <2> QED BY <2>3, <2>4
<1>6. ASSUME NEW w \in Workers, Launch(w)
      PROVE  RemindersInOrder' /\ RemindersFollow'
  <2>1. /\ campaign = "draft" /\ UNCHANGED mail
        /\ \A v \in Workers : ~ StartRemind(v)
    BY <1>6 DEF Launch, StartRemind, OpenCampaign
  <2>2. \A m \in Reminders : ~ Accepted(m) /\ \A v \in Workers : m \notin InHand(v)
    BY <2>1 DEF RemindersInv, NoneBeforeLaunch
  <2>3. \A s \in Suppliers : dispatch'[s].reminders = 0
    BY <1>6 DEF Launch, NewDispatch
  <2>4. RemindersInOrder'
    BY <2>1, <2>2, <2>3, ReminderFields DEF RemindersInOrder, Accepted
  <2>5. ASSUME NEW v \in Workers, NEW m \in Reminders PROVE m \notin InHand(v)'
    <3>1. m \in Mails /\ m.kind = "reminder" BY ReminderFields, MailFields
    <3> QED BY <1>1, <2>1, <2>2, <3>1, NewInHand
  <2> QED BY <2>4, <2>5 DEF RemindersFollow
<1>7. ASSUME \A w \in Workers : ~ Launch(w)
      PROVE  RemindersInOrder' /\ RemindersFollow'
  <2>1. ASSUME NEW s \in Suppliers
        PROVE  \/ dispatch'[s].reminders = dispatch[s].reminders
               \/ \E n \in 1 .. MaxReminders :
                    /\ dispatch'[s].reminders = n
                    /\ n = dispatch[s].reminders + 1
                    /\ Accepted(Reminder(s, n))'
    <3>1. CASE dispatch'[s].reminders # dispatch[s].reminders
      <4>1. PICK w \in Workers :
              /\ worker[w].job \in Reminders /\ worker[w].result = "ok"
              /\ worker[w].job.to = s
              /\ worker[w].job.no > dispatch[s].reminders
              /\ dispatch'[s].reminders = worker[w].job.no
        BY <1>1, <1>7, <3>1, CounterMoves
      <4>2. PICK j : j = worker[w].job OBVIOUS
      <4>3. j.no <= dispatch[s].reminders + 1
        BY <4>1, <4>2 DEF RemindersInv, RemindersFollow, InHand
      <4>4. j.no \in 1 .. MaxReminders /\ j = Reminder(s, j.no) /\ j \in Mails
        BY <4>1, <4>2, ReminderFields
      <4>5. Accepted(j)
        BY <1>1, <4>1, <4>2 DEF LedgerInv, JobsHaveTokens
      <4>6. Accepted(j)' BY <1>4, <4>4, <4>5
      <4>7. j.no = dispatch[s].reminders + 1 BY <1>3, <4>1, <4>2, <4>3, <4>4
      <4>8. dispatch'[s].reminders = j.no BY <4>1, <4>2
      <4>9. PICK n \in 1 .. MaxReminders : n = j.no /\ j = Reminder(s, n) BY <4>4
      <4>10. Accepted(Reminder(s, n))' BY <4>6, <4>9
      <4> QED BY <4>7, <4>8, <4>9, <4>10
    <3> QED BY <3>1
  <2>2. ASSUME NEW s \in Suppliers, NEW n \in 1 .. MaxReminders
        PROVE  /\ n <= dispatch'[s].reminders => Accepted(Reminder(s, n))'
               /\ Accepted(Reminder(s, n))' => n <= dispatch'[s].reminders + 1
    <3> DEFINE m == Reminder(s, n)
               k == dispatch[s].reminders
               l == dispatch'[s].reminders
    <3>1. m \in Reminders /\ m \in Mails /\ m.no = n /\ m.to = s
      BY ReminderFields
    <3>2. (n <= k => Accepted(m)) /\ (Accepted(m) => n <= k + 1)
      BY DEF RemindersInv, RemindersInOrder
    <3>3. l = k \/ (l = k + 1 /\ (n = l => Accepted(m)')) BY <2>1
    <3>4. k \in Nat /\ l \in Nat BY <1>3
    <3>5. n <= l => Accepted(m)'
      <4>1. CASE n <= k BY <1>4, <3>1, <3>2, <4>1
      <4> HIDE DEF m, k, l
      <4> QED BY <3>3, <3>4, <4>1
    <3>6. Accepted(m)' => n <= k + 1
      <4>1. ASSUME Accepted(m)', NEW w \in Workers, m \in InHand(w)
            PROVE  n <= k + 1
        BY <3>1, <4>1 DEF RemindersInv, RemindersFollow
      <4> QED BY <1>1, <3>1, <3>2, <4>1, OnlyHeldIsAccepted
    <3> HIDE DEF m, k, l
    <3>7. Accepted(m)' => n <= l + 1 BY <3>3, <3>4, <3>6
    <3> QED BY <3>5, <3>7 DEF m, l
  <2>3. RemindersInOrder' BY <2>2 DEF RemindersInOrder
  <2>4. ASSUME NEW w \in Workers, NEW m \in Reminders, m \in InHand(w)'
        PROVE  m.no <= dispatch'[m.to].reminders + 1
    <3>1. m.to \in Suppliers /\ m.no \in 1 .. MaxReminders BY ReminderFields
    <3>2. m.no <= dispatch[m.to].reminders + 1
      <4>1. CASE m \in InHand(w) BY <4>1 DEF RemindersInv, RemindersFollow
      <4>2. m \in Mails /\ m.kind = "reminder" BY ReminderFields, MailFields
      <4>3. CASE m \notin InHand(w)
        <5>1. m.no = dispatch[m.to].reminders + 1
          BY <1>1, <2>4, <4>2, <4>3, NewInHand
        <5> QED BY <1>3, <3>1, <5>1
      <4> QED BY <4>1, <4>3
    <3> QED BY <1>3, <2>1, <3>1, <3>2
  <2>5. RemindersFollow' BY <2>4 DEF RemindersFollow
  <2> QED BY <2>3, <2>5
<1> QED BY <1>2, <1>5, <1>6, <1>7 DEF RemindersInv

(* The first k reminders of a supplier are k mails.                        *)
LEMMA FirstReminders ==
  ASSUME NEW s \in Suppliers, NEW k \in 0 .. MaxReminders
  PROVE  Cardinality({Reminder(s, n) : n \in 1 .. k}) = k
<1> DEFINE S == 1 .. k
           T == {Reminder(s, n) : n \in S}
           f == [n \in S |-> Reminder(s, n)]
<1>1. IsFiniteSet(S) /\ Cardinality(S) = k BY FS_Interval
<1>2. f \in Bijection(S, T)
  <2>1. \A n \in S : f[n] = Reminder(s, n) /\ f[n].no = n BY DEF Reminder
  <2>2. f \in [S -> T] OBVIOUS
  <2>3. \A t \in T : \E n \in S : f[n] = t OBVIOUS
  <2>4. \A a, b \in S : f[a] = f[b] => a = b BY <2>1
  <2> HIDE DEF S, T, f
  <2> QED BY <2>2, <2>3, <2>4 DEF Bijection, Injection, Surjection, IsInjective
<1>3. ExistsBijection(S, T) BY <1>2 DEF ExistsBijection
<1> HIDE DEF S, T
<1>4. Cardinality(T) = k BY <1>1, <1>3, FS_Bijection
<1> QED BY <1>4 DEF S, T

(* The reminder counter agrees with the provider: the reminders a supplier *)
(* received are those the counter counts, and at most one more, whatever   *)
(* server actions remind at the same time, die or lose their results       *)
(* (rfqh3_prepare_reminder, rfqh3_mark_reminder_result).                   *)
THEOREM RemindersAreAccounted == Spec => []RemindersAccounted
<1>1. Init => RemindersInv
  <2> SUFFICES ASSUME Init PROVE RemindersInv OBVIOUS
  <2>1. LedgerInv BY LedgerInvHoldsAtStart
  <2>2. \A m \in Reminders : ~ Accepted(m)
    BY ReminderFields DEF Init, Accepted
  <2>3. \A w \in Workers, m \in Reminders : m \notin InHand(w)
    BY ReminderFields DEF Init, Idle, InHand
  <2>4. \A s \in Suppliers : dispatch[s].reminders = 0 BY DEF Init, NewDispatch
  <2>5. RemindersInOrder BY <2>2, <2>4, ReminderFields DEF RemindersInOrder
  <2> QED BY <2>1, <2>2, <2>3, <2>5
          DEF RemindersInv, RemindersFollow, NoneBeforeLaunch
<1>2. RemindersInv => RemindersAccounted
  <2> SUFFICES ASSUME RemindersInv, NEW s \in Suppliers
               PROVE  LET received == {m \in Mails : /\ m.to = s
                                                     /\ m.kind = "reminder"
                                                     /\ Accepted(m)}
                      IN  Cardinality(received) \in
                            {dispatch[s].reminders, dispatch[s].reminders + 1}
    BY DEF RemindersAccounted
  <2> DEFINE k == dispatch[s].reminders
             received == {m \in Mails : /\ m.to = s /\ m.kind = "reminder"
                                        /\ Accepted(m)}
             First(i) == {Reminder(s, n) : n \in 1 .. i}
  <2>1. k \in 0 .. MaxReminders
    BY DEF RemindersInv, LedgerInv, TypeOK, Dispatches
  <2>2. received = {Reminder(s, n) : n \in {i \in 1 .. MaxReminders :
                                              Accepted(Reminder(s, i))}}
    <3>1. \A m \in received : /\ m = Reminder(s, m.no)
                              /\ m.no \in 1 .. MaxReminders /\ Accepted(m)
      BY MailFields, ReminderFields
    <3>2. \A i \in 1 .. MaxReminders :
            Accepted(Reminder(s, i)) => Reminder(s, i) \in received
      BY ReminderFields
    <3>3. \A m \in received : m \in {Reminder(s, n) : n \in {i \in 1 .. MaxReminders :
                                              Accepted(Reminder(s, i))}}
      <4> HIDE DEF received
      <4> QED BY <3>1
    <3> HIDE DEF received
    <3> QED BY <3>2, <3>3
  <2>3. \A i \in 1 .. MaxReminders :
          /\ i <= k => Accepted(Reminder(s, i))
          /\ Accepted(Reminder(s, i)) => i <= k + 1
    BY DEF RemindersInv, RemindersInOrder
  <2> DEFINE got == {i \in 1 .. MaxReminders : Accepted(Reminder(s, i))}
  <2>4. got = 1 .. k \/ (k + 1 \in 1 .. MaxReminders /\ got = 1 .. (k + 1))
    <3> HIDE DEF k
    <3>1. CASE k + 1 \in got BY <2>1, <2>3, <3>1
    <3>2. CASE k + 1 \notin got BY <2>1, <2>3, <3>2
    <3> QED BY <3>1, <3>2
  <2>5. received = {Reminder(s, n) : n \in got} BY <2>2
  <2> HIDE DEF received, got, k
  <2>6. received = First(k) \/ (k + 1 \in 1 .. MaxReminders /\ received = First(k + 1))
    BY <2>4, <2>5
  <2>7. Cardinality(First(k)) = k BY <2>1, FirstReminders
  <2>8. k + 1 \in 1 .. MaxReminders => Cardinality(First(k + 1)) = k + 1
    BY <2>1, FirstReminders
  <2> HIDE DEF First
  <2>9. Cardinality(received) \in {k, k + 1} BY <2>6, <2>7, <2>8
  <2> QED BY <2>9 DEF received, k
<1> QED BY <1>1, <1>2, RemindersInvIsKept, PTL DEF Spec

-----------------------------------------------------------------------------
(* Invitations nobody recorded.  Server actions that overlap may leave     *)
(* several, as two of them may prepare the same dispatch under different   *)
(* keys.  One that works alone leaves at most one, whatever faults strike  *)
(* it: what it holds is always the next attempt, under the dispatch's own  *)
(* key, so the lost mail's key is the one the next attempt repeats.        *)
OneAtATime ==
  \A v, w \in Workers : worker[v] # Idle /\ worker[w] # Idle => v = w

DraftIsQuiet ==
  campaign = "draft" =>
    /\ \A w \in Workers : worker[w] = Idle
    /\ \A m \in Mails : ~ Accepted(m)
    /\ \A s \in Suppliers : dispatch[s].status = "none"
HeldIsNext ==
  \A w \in Workers, m \in Invites : m \in InHand(w) =>
    /\ m.no = dispatch[m.to].attempts + 1
    /\ worker[w].op = "launch" \/ m = worker[w].job =>
         m.no = dispatch[m.to].version
JobIsTaken == \A w \in Workers : worker[w].job \notin worker[w].todo
UnrecordedIsNext ==
  \A m \in Invites : Accepted(m) /\ ledger[m] = NoRow =>
    m.no = dispatch[m.to].attempts + 1
LoneInv == /\ LedgerInv /\ DraftIsQuiet /\ HeldIsNext /\ JobIsTaken
           /\ UnrecordedIsNext

LEMMA InviteFields ==
  /\ \A m \in Invites : /\ m = Invite(m.to, m.no) /\ m \in Mails
                        /\ m.kind = "invite" /\ m \notin Reminders
                        /\ m.to \in Suppliers /\ m.no \in 1 .. MaxVersion
  /\ \A s, n : Invite(s, n).to = s /\ Invite(s, n).no = n
BY DEF Invite, Invites, Reminders, Mails

(* A row of the ledger is never emptied.                                   *)
LEMMA RowsStay ==
  ASSUME TypeOK, [Next]_vars, NEW m \in Mails, ledger[m] # NoRow
  PROVE  ledger'[m] # NoRow
<1>1. ledger \in [Mails -> Rows] /\ ledger[m] \in Rows BY DEF TypeOK
<1>2. CASE UNCHANGED ledger BY <1>2
<1>3. ASSUME NEW o \in Mails, NEW st \in MessageStatus \ {"none"},
             \/ ledger' = [ledger EXCEPT ![o].status = st]
             \/ \E i : ledger' = [ledger EXCEPT ![o] = [status |-> st, id |-> i]]
      PROVE  ledger'[m] # NoRow
  <2>1. CASE ledger' = [ledger EXCEPT ![o].status = st]
    <3>1. m = o => ledger'[m].status = st BY <1>1, <2>1 DEF Rows
    <3> QED BY <1>1, <2>1, <3>1 DEF NoRow
  <2>2. ASSUME NEW i, ledger' = [ledger EXCEPT ![o] = [status |-> st, id |-> i]]
        PROVE  ledger'[m] # NoRow
    BY <1>1, <2>2 DEF NoRow
  <2> QED BY <1>3, <2>1, <2>2
<1>4. {"queued", "sent", "failed"} \subseteq MessageStatus \ {"none"}
  BY DEF MessageStatus
<1>5. ASSUME NEW w \in Workers, Prepare(w) PROVE ledger'[m] # NoRow
  <2>1. PICK o \in worker[w].todo :
          TakeInvitation(w, o) \/ PrepareRetry(w, o) \/ PrepareReminder(w, o)
    BY <1>5 DEF Prepare
  <2>2. worker[w] \in WorkerStates BY DEF TypeOK
  <2>3. o \in Mails BY <2>2, WorkerMails
  <2> DEFINE st == IF ledger[o].status \in {"none", "failed"} THEN "queued"
                   ELSE ledger[o].status
  <2>4. UNCHANGED ledger \/ ledger' = [ledger EXCEPT ![o].status = st]
    BY <2>1 DEF TakeInvitation, PrepareRetry, PrepareReminder, Skip, stores
  <2>5. st \in MessageStatus \ {"none"} BY <1>1, <1>4, <2>3 DEF Rows
  <2> HIDE DEF st
  <2> QED BY <1>2, <1>3, <2>3, <2>4, <2>5
<1>6. ASSUME NEW w \in Workers, MarkInvitation(w) PROVE ledger'[m] # NoRow
  <2> DEFINE j == worker[w].job
             o == Invite(j.to, dispatch[j.to].version)
  <2>1. worker[w] \in WorkerStates BY DEF TypeOK
  <2>2. j.to \in Suppliers BY <1>6, <2>1, WorkerMails, MailFields DEF MarkInvitation
  <2>3. dispatch[j.to] \in Dispatches BY <2>2 DEF TypeOK
  <2>4. o \in Mails BY <2>2, <2>3, KeysAreMails DEF Dispatches, Mails
  <2>5. \/ UNCHANGED ledger
        \/ ledger' = [ledger EXCEPT ![o].status = "failed"]
        \/ ledger' = [ledger EXCEPT ![o] = [status |-> "sent", id |-> j]]
    BY <1>6 DEF MarkInvitation
  <2> HIDE DEF o, j
  <2> QED BY <1>2, <1>3, <1>4, <2>4, <2>5
<1>7. ASSUME NEW w \in Workers, MarkReminder(w) PROVE ledger'[m] # NoRow
  <2> DEFINE j == worker[w].job
  <2>1. worker[w] \in WorkerStates BY DEF TypeOK
  <2>2. j \in Mails BY <1>7, <2>1, WorkerMails DEF MarkReminder
  <2>3. \/ ledger' = [ledger EXCEPT ![j].status = "failed"]
        \/ ledger' = [ledger EXCEPT ![j] = [status |-> "sent", id |-> j]]
    BY <1>7 DEF MarkReminder
  <2> HIDE DEF j
  <2> QED BY <1>3, <1>4, <2>2, <2>3
<1>8. ASSUME NEW e \in Events, Ingest(e) PROVE ledger'[m] # NoRow
  <2> DEFINE rows == {o \in Mails : ledger[o].id = e.mail}
  <2>1. e.type # "none" BY DEF Events, EventType
  <2>2. \/ UNCHANGED ledger
        \/ ledger'[m] = IF m \in rows THEN [ledger[m] EXCEPT !.status = e.type]
                        ELSE ledger[m]
    BY <1>8 DEF Ingest
  <2>3. [ledger[m] EXCEPT !.status = e.type].status = e.type BY <1>1 DEF Rows
  <2> HIDE DEF rows
  <2> QED BY <2>1, <2>2, <2>3 DEF NoRow
<1> QED
  BY <1>2, <1>5, <1>6, <1>7, <1>8
  DEF Next, vars, stores, Start, Launch, StartRetry, StartRemind, Step, Send,
      Fault, LoseMark, Crash, Recover, Portal, OpenInvite, StartDraft,
      SubmitQuote, Decline, StartRevision, Answer, OptOut, Time, Age,
      CooldownEnds, SuppressElsewhere, Award, DeadlinePasses, Emit

(* Before the launch nothing happens but suppression elsewhere.            *)
LEMMA QuietDraft ==
  ASSUME LedgerInv, DraftIsQuiet, [Next]_vars, campaign = "draft"
  PROVE  \/ \E w \in Workers : Launch(w)
         \/ UNCHANGED <<worker, mail>> /\ \A s \in Suppliers :
                                            dispatch'[s].status = "none"
<1> DEFINE Quiet == UNCHANGED <<worker, mail>> /\ \A s \in Suppliers :
                                                    dispatch'[s].status = "none"
<1>1. /\ \A w \in Workers : worker[w] = Idle
      /\ \A m \in Mails : ~ Accepted(m)
      /\ \A s \in Suppliers : dispatch[s].status = "none"
  BY DEF DraftIsQuiet
<1>2. TypeOK BY DEF LedgerInv
<1>3. ASSUME NEW w \in Workers
      PROVE  /\ ~ StartRetry(w) /\ ~ StartRemind(w) /\ ~ Step(w) /\ ~ Fault(w)
  <2>1. worker[w].op = "idle" /\ worker[w].job = NoMail /\ worker[w].result = "none"
    BY <1>1 DEF Idle
  <2> QED BY <1>1, <2>1
          DEF StartRetry, StartRemind, OpenCampaign, Step, Prepare, Send,
              MarkInvitation, MarkReminder, Fault, LoseMark, Crash
<1>4. ASSUME NEW s \in Suppliers
      PROVE  ~ HasLink(s) /\ ~ Recover(s) /\ ~ Age(s)
  BY <1>1 DEF HasLink, Recover, Age
<1>5. ASSUME NEW s \in Suppliers PROVE ~ Portal(s)
  BY <1>4 DEF Portal, OpenInvite, StartDraft, SubmitQuote, Decline,
              StartRevision, OptOut
<1>6. ASSUME NEW s \in Suppliers, CooldownEnds(s) PROVE Quiet
  <2>1. dispatch \in [Suppliers -> Dispatches] BY <1>2 DEF TypeOK
  <2>2. dispatch' = [dispatch EXCEPT ![s] = [dispatch[s] EXCEPT !.cooling = FALSE]]
    BY <1>6 DEF CooldownEnds
  <2>3. [dispatch[s] EXCEPT !.cooling = FALSE].status = dispatch[s].status
    BY <2>1 DEF Dispatches
  <2>4. \A t \in Suppliers : dispatch'[t].status = dispatch[t].status
    BY <2>1, <2>2, <2>3
  <2> QED BY <1>1, <1>6, <2>4 DEF CooldownEnds
<1>7. ASSUME NEW m \in Mails, NEW t \in EventType PROVE ~ Emit(m, t)
  BY <1>1 DEF Emit
<1>8. ASSUME NEW e \in Events, Ingest(e) PROVE Quiet
  <2>1. e.mail \in Mails BY DEF Events
  <2>2. {o \in Mails : ledger[o].id = e.mail} = {}
    BY <1>1, <2>1 DEF LedgerInv, RowsAreEvidence
  <2> QED BY <1>1, <1>8, <2>2 DEF Ingest
<1>9. CASE UNCHANGED <<worker, mail, dispatch>> BY <1>1, <1>9
<1> QED
  BY <1>3, <1>4, <1>5, <1>6, <1>7, <1>8, <1>9
  DEF Next, Start, Time, SuppressElsewhere, Award, DeadlinePasses, vars, stores

LEMMA LoneInvIsKept == LoneInv /\ OneAtATime /\ [Next]_vars => LoneInv'
<1> SUFFICES ASSUME LoneInv, OneAtATime, [Next]_vars PROVE LoneInv' OBVIOUS
<1>1. TypeOK /\ LedgerInv BY DEF LoneInv, LedgerInv
<1>2. TypeOK' /\ LedgerInv'
  BY <1>1, NextTyped, RowsKept, DispatchesKept, TokensKept DEF LedgerInv
<1>3. \A w \in Workers : /\ worker[w] \in WorkerStates /\ HandMoves(w)
                         /\ NoMail \notin worker[w].todo
  <2>1. \A w \in Workers : worker[w] \in WorkerStates BY <1>1 DEF TypeOK
  <2>2. \A w \in Workers : worker[w].todo \subseteq Mails BY <2>1, WorkerMails
  <2> QED BY <1>1, <2>1, <2>2, HandsMove
<1>4. \A w \in Workers, m \in Mails : m \in InHand(w) => worker[w] # Idle
  BY DEF InHand, Idle
<1>5. DraftIsQuiet'
  <2> SUFFICES ASSUME campaign' = "draft"
               PROVE  /\ \A w \in Workers : worker'[w] = Idle
                      /\ \A m \in Mails : mail'[m] = 0
                      /\ \A s \in Suppliers : dispatch'[s].status = "none"
    BY DEF DraftIsQuiet, Accepted
  <2>1. campaign = "draft" /\ \A w \in Workers : ~ Launch(w) BY DraftIsLeft
  <2>2. UNCHANGED <<worker, mail>> /\ \A s \in Suppliers :
                                        dispatch'[s].status = "none"
    BY <1>1, <2>1, QuietDraft DEF LoneInv
  <2> QED BY <2>1, <2>2 DEF LoneInv, DraftIsQuiet, Accepted
<1>6. JobIsTaken'
  <2> SUFFICES ASSUME NEW w \in Workers
               PROVE  worker'[w].job \notin worker'[w].todo
    BY DEF JobIsTaken
  <2>1. worker'[w].todo \subseteq Mails /\ NoMail \notin worker'[w].todo
    <3>1. worker'[w] \in WorkerStates BY <1>2 DEF TypeOK
    <3> QED BY <3>1, WorkerMails
  <2>2. worker[w].job \notin worker[w].todo BY DEF LoneInv, JobIsTaken
  <2> QED BY <1>3, <2>1, <2>2 DEF HandMoves
<1>7. ASSUME NEW w \in Workers, Launch(w)
      PROVE  HeldIsNext' /\ UnrecordedIsNext'
  <2>1. campaign = "draft" /\ UNCHANGED mail /\ \A s \in Suppliers :
          dispatch'[s].attempts = 0 /\ dispatch'[s].version = 1
    BY <1>7 DEF Launch, NewDispatch
  <2>2. /\ \A v \in Workers : worker[v] = Idle
        /\ \A m \in Mails : ~ Accepted(m)
        /\ \A s \in Suppliers : dispatch[s].status = "none"
    BY <2>1 DEF LoneInv, DraftIsQuiet
  <2>3. UnrecordedIsNext'
    BY <2>1, <2>2, InviteFields DEF UnrecordedIsNext, Accepted
  <2>4. ASSUME NEW v \in Workers, NEW m \in Invites, m \in InHand(v)'
        PROVE  m.no = dispatch'[m.to].attempts + 1 /\ m.no = dispatch'[m.to].version
    <3>1. m \in Mails /\ m.kind = "invite" /\ m.to \in Suppliers
      BY InviteFields
    <3>2. m \notin InHand(v) BY <1>4, <2>2, <3>1
    <3>3. ~ StartRetry(v) BY <2>2 DEF StartRetry
    <3>4. m.no = 1 BY <1>1, <2>4, <3>1, <3>2, <3>3, NewInHand
    <3> QED BY <2>1, <3>1, <3>4
  <2> QED BY <2>3, <2>4 DEF HeldIsNext
<1>8. ASSUME \A w \in Workers : ~ Launch(w) /\ ~ MarkInvitation(w)
      PROVE  HeldIsNext' /\ UnrecordedIsNext'
  <2>1. \A s \in Suppliers : dispatch'[s].attempts = dispatch[s].attempts
    BY <1>1, <1>8, AttemptsAreKept
  <2>2. ASSUME NEW m \in Invites, Accepted(m)', ledger'[m] = NoRow
        PROVE  m.no = dispatch'[m.to].attempts + 1
    <3>1. m \in Mails /\ m.to \in Suppliers BY InviteFields
    <3>2. ledger[m] = NoRow BY <1>1, <2>2, <3>1, RowsStay
    <3>3. Accepted(m) \/ \E w \in Workers : m \in InHand(w)
      BY <1>1, <2>2, <3>1, OnlyHeldIsAccepted
    <3>4. m.no = dispatch[m.to].attempts + 1
      BY <3>2, <3>3 DEF LoneInv, UnrecordedIsNext, HeldIsNext
    <3> QED BY <2>1, <3>1, <3>4
  <2>3. ASSUME NEW w \in Workers, NEW m \in Invites, m \in InHand(w)'
        PROVE  m.no = dispatch'[m.to].attempts + 1
    <3>1. m \in Mails /\ m.to \in Suppliers /\ m.kind = "invite"
      BY InviteFields
    <3>2. m.no = dispatch[m.to].attempts + 1
      <4>1. CASE m \in InHand(w) BY <4>1 DEF LoneInv, HeldIsNext
      <4>2. CASE m \notin InHand(w)
        BY <1>1, <1>8, <2>3, <3>1, <4>2, NewInHand
      <4> QED BY <4>1, <4>2
    <3> QED BY <2>1, <3>1, <3>2
  <2>4. ASSUME NEW w \in Workers, NEW m \in Invites, m \in InHand(w)',
               worker'[w].op = "launch" \/ m = worker'[w].job
        PROVE  m.no = dispatch'[m.to].version
    <3>1. /\ m \in Mails /\ m.to \in Suppliers /\ m.kind = "invite"
          /\ m # NoMail
      BY InviteFields
    <3>2. m \in InHand(w)
      <4>1. ~ (StartsWith(w) /\ worker'[w].job = NoMail)
        BY <1>8, <2>4, <3>1 DEF StartsWith
      <4> QED BY <1>3, <2>4, <3>1, <4>1 DEF HandMoves, InHand
    <3>3. CASE \E v \in Workers : Prepare(v)
      <4>1. PICK v \in Workers : Prepare(v) BY <3>3
      <4>2. worker[v] # Idle BY <4>1 DEF Prepare, Idle
      <4>3. v = w BY <1>4, <3>1, <3>2, <4>2 DEF OneAtATime
      <4>4. PICK o \in worker[w].todo :
              TakeInvitation(w, o) \/ PrepareRetry(w, o) \/ PrepareReminder(w, o)
        BY <4>1, <4>3 DEF Prepare
      <4>5. worker[w].job = NoMail BY <4>1, <4>3 DEF Prepare
      <4>6. CASE worker[w].op = "launch" /\ UNCHANGED dispatch
        BY <3>2, <4>6 DEF LoneInv, HeldIsNext
      <4>7. worker'[w].op = "launch" => worker[w].op = "launch"
        BY <1>3, <1>8, <3>1, <2>4 DEF HandMoves, StartsWith
      <4>8. CASE worker[w].op # "launch"
        <5>1. m = worker'[w].job BY <2>4, <4>7, <4>8
        <5>2. ~ Skip(w, o)
          <6>1. [worker[w] EXCEPT !.todo = worker[w].todo \ {o}] \in WorkerStates
            BY <1>3, WorkerUpdates
          <6>2. Continue([worker[w] EXCEPT !.todo = worker[w].todo \ {o}]).job = NoMail
            BY <6>1 DEF Continue, Idle, WorkerStates
          <6>3. worker \in [Workers -> WorkerStates] BY <1>1 DEF TypeOK
          <6> QED BY <3>1, <5>1, <6>2, <6>3 DEF Skip
        <5>3. \E n : Take(w, o, n)
          BY <4>4, <4>8, <5>2 DEF TakeInvitation, PrepareRetry, PrepareReminder
        <5>4. m = o
          BY <1>1, <1>3, <5>1, <5>3 DEF Take, TypeOK, WorkerStates
        <5>5. worker[w].op # "remind"
          <6>1. m \notin Reminders BY InviteFields
          <6> QED BY <1>3, <4>4, <5>4, <6>1, WorkerMails
        <5>6. PrepareRetry(w, m) /\ ~ Skip(w, m)
          BY <4>4, <4>8, <5>2, <5>4, <5>5 DEF TakeInvitation, PrepareReminder
        <5> DEFINE a == dispatch[m.to].aged /\ dispatch[m.to].attempts > 0
        <5>7. dispatch' = [dispatch EXCEPT ![m.to] =
                [dispatch[m.to] EXCEPT !.status = "queued", !.version = m.no,
                                       !.aged = a]]
          BY <5>6, Zenon DEF PrepareRetry
        <5> HIDE DEF a
        <5> QED BY <1>1, <3>1, <5>7 DEF TypeOK, Dispatches
      <4> QED BY <4>4, <4>6, <4>8
              DEF TakeInvitation, PrepareRetry, PrepareReminder, Skip, stores
    <3>4. CASE \A v \in Workers : ~ Prepare(v)
      <4>1. dispatch'[m.to].version = dispatch[m.to].version
        BY <1>1, <1>8, <3>1, <3>4, AttemptsAreKept
      <4>2. worker'[w].op = "launch" => worker[w].op = "launch"
        BY <1>3, <1>8, <3>1, <2>4 DEF HandMoves, StartsWith
      <4>3. m = worker'[w].job => m = worker[w].job
        BY <1>3, <3>1, <3>4 DEF HandMoves
      <4> QED BY <2>4, <3>2, <4>1, <4>2, <4>3 DEF LoneInv, HeldIsNext
    <3> QED BY <3>3, <3>4
  <2> QED BY <2>2, <2>3, <2>4 DEF HeldIsNext, UnrecordedIsNext

<1>9. ASSUME NEW w \in Workers, MarkInvitation(w), \A v \in Workers : ~ Launch(v)
      PROVE  HeldIsNext' /\ UnrecordedIsNext'
  <2>1. PICK j : j = worker[w].job OBVIOUS
  <2>2. j \in Invites /\ j \in Mails /\ j.to \in Suppliers
    BY <1>1, <1>9, <2>1, InvitationResult, InviteFields
  <2>3. j \in InHand(w) /\ worker[w] # Idle
    BY <1>4, <2>1, <2>2 DEF InHand
  <2>4. j.no = dispatch[j.to].attempts + 1 /\ j.no = dispatch[j.to].version
    BY <2>1, <2>2, <2>3 DEF LoneInv, HeldIsNext
  <2>5. j = Invite(j.to, dispatch[j.to].version) BY <2>2, <2>4, InviteFields
  <2>6. \A s \in Suppliers : dispatch'[s].version = dispatch[s].version
    BY <1>1, <1>9, InvitationKeeps
  <2>7. ASSUME NEW s \in Suppliers \ {j.to}
        PROVE  dispatch'[s].attempts = dispatch[s].attempts
    BY <1>1, <1>9, <2>1, <2>7 DEF MarkInvitation, TypeOK
  <2>8. worker' = [worker EXCEPT ![w] = Continue(worker[w])] /\ UNCHANGED mail
    BY <1>9 DEF MarkInvitation
  <2>9. worker \in [Workers -> WorkerStates] BY <1>1 DEF TypeOK
  <2>10. ASSUME NEW v \in Workers, NEW m \in Mails, m \in InHand(v)'
         PROVE  v = w /\ m \in worker[w].todo /\ m # worker'[w].job
    <3>1. m # NoMail OBVIOUS
    <3>2. /\ Continue(worker[w]).todo \subseteq worker[w].todo
          /\ Continue(worker[w]).job = NoMail
      BY <1>3 DEF Continue, Idle, WorkerStates
    <3>3. v # w => worker'[v] = worker[v] BY <2>8, <2>9
    <3>4. v = w BY <1>4, <2>3, <2>10, <3>3 DEF OneAtATime, InHand
    <3>5. worker'[w] = Continue(worker[w]) BY <2>8, <2>9
    <3> QED BY <2>10, <3>1, <3>2, <3>4, <3>5 DEF InHand
  <2>11. ASSUME NEW v \in Workers, NEW m \in Invites, m \in InHand(v)'
         PROVE  /\ m.no = dispatch'[m.to].attempts + 1
                /\ worker'[v].op = "launch" \/ m = worker'[v].job =>
                     m.no = dispatch'[m.to].version
    <3>1. m \in Mails /\ m.to \in Suppliers /\ m # NoMail BY InviteFields
    <3>2. v = w /\ m \in worker[w].todo /\ m # worker'[w].job
      BY <2>10, <2>11, <3>1
    <3>3. m \in InHand(w) BY <3>2 DEF InHand
    <3>4. m.no = dispatch[m.to].attempts + 1 BY <3>3 DEF LoneInv, HeldIsNext
    <3>5. m.to # j.to
      <4>1. m # j BY <2>1, <3>2 DEF LoneInv, JobIsTaken
      <4>2. m = Invite(m.to, m.no) /\ j = Invite(j.to, j.no)
        BY <2>2, InviteFields
      <4> QED BY <2>4, <3>4, <4>1, <4>2
    <3>6. worker'[w].op = "launch" => worker[w].op = "launch"
      BY <2>8, <2>9 DEF Continue, Idle, WorkerStates
    <3>7. worker'[w].op = "launch" => m.no = dispatch[m.to].version
      BY <3>3, <3>6 DEF LoneInv, HeldIsNext
    <3> QED BY <2>6, <2>7, <3>1, <3>2, <3>4, <3>5, <3>7
  <2>12. ASSUME NEW m \in Invites, Accepted(m)', ledger'[m] = NoRow
         PROVE  m.no = dispatch'[m.to].attempts + 1
    <3>1. m \in Mails /\ m.to \in Suppliers /\ m = Invite(m.to, m.no)
      BY InviteFields
    <3>2. ledger[m] = NoRow BY <1>1, <2>12, <3>1, RowsStay
    <3>3. m.no = dispatch[m.to].attempts + 1
      BY <2>8, <2>12, <3>2 DEF LoneInv, UnrecordedIsNext, Accepted
    <3>4. CASE m.to # j.to BY <2>7, <3>1, <3>3, <3>4
    <3>5. CASE m.to = j.to
      <4>1. m = j
        <5>1. j = Invite(j.to, j.no) BY <2>2, InviteFields
        <5> QED BY <2>4, <3>1, <3>3, <3>5, <5>1
      <4>2. ledger \in [Mails -> Rows] /\ ledger[j] \in Rows
        BY <1>1, <2>2 DEF TypeOK
      <4>3. \/ ledger' = [ledger EXCEPT ![j] = [status |-> "sent", id |-> j]]
            \/ ledger' = [ledger EXCEPT ![j].status = "failed"]
            \/ UNCHANGED dispatch
        BY <1>9, <2>1, <2>5 DEF MarkInvitation
      <4>4. ledger' # [ledger EXCEPT ![j] = [status |-> "sent", id |-> j]]
        BY <2>2, <2>12, <4>1, <4>2 DEF NoRow
      <4>5. ledger' # [ledger EXCEPT ![j].status = "failed"]
        <5>1. [ledger[j] EXCEPT !.status = "failed"].status = "failed"
          BY <4>2 DEF Rows
        <5> QED BY <2>2, <2>12, <4>1, <4>2, <5>1 DEF NoRow
      <4> QED BY <3>3, <4>3, <4>4, <4>5
    <3> QED BY <3>4, <3>5
  <2> QED BY <2>11, <2>12 DEF HeldIsNext, UnrecordedIsNext
<1> QED BY <1>2, <1>5, <1>6, <1>7, <1>8, <1>9 DEF LoneInv

LEMMA LoneInvHoldsAtStart == Init => LoneInv
<1> SUFFICES ASSUME Init PROVE LoneInv OBVIOUS
<1>1. LedgerInv BY LedgerInvHoldsAtStart
<1>2. /\ \A w \in Workers : worker[w] = Idle
      /\ \A m \in Mails : ~ Accepted(m)
      /\ \A s \in Suppliers : dispatch[s].status = "none"
  BY DEF Init, Accepted, NewDispatch
<1>3. \A w \in Workers, m \in Invites : m \notin InHand(w)
  BY <1>2, InviteFields DEF Idle, InHand
<1>4. JobIsTaken BY <1>2 DEF JobIsTaken, Idle
<1> QED BY <1>1, <1>2, <1>3, <1>4, InviteFields
        DEF LoneInv, DraftIsQuiet, HeldIsNext, UnrecordedIsNext

(* While server actions do not overlap, crashes, lost results, lost        *)
(* replies, refusals and recoveries leave a supplier at most one           *)
(* invitation that nobody recorded: the one the next attempt repeats       *)
(* (retryFailedBuyerRfq, rfqh3_prepare_retry, rfqh3_mark_dispatch_result). *)
THEOREM LoneRetriesRepeatTheLostKey ==
  Spec /\ []OneAtATime => []OneUnrecordedInvitation
<1>1. Init => LoneInv BY LoneInvHoldsAtStart
<1>2. LoneInv => OneUnrecordedInvitation
  <2> SUFFICES ASSUME LoneInv, NEW s \in Suppliers
               PROVE  Cardinality({m \in Mails :
                                     /\ m.to = s /\ m.kind = "invite"
                                     /\ Accepted(m) /\ ledger[m] = NoRow}) <= 1
    BY DEF OneUnrecordedInvitation
  <2> DEFINE lost == {m \in Mails : /\ m.to = s /\ m.kind = "invite"
                                    /\ Accepted(m) /\ ledger[m] = NoRow}
  <2>1. \A m \in lost : m = Invite(s, dispatch[s].attempts + 1)
    <3>1. \A m \in lost : m \in Invites BY MailFields
    <3> QED BY <3>1, InviteFields DEF LoneInv, UnrecordedIsNext
  <2> HIDE DEF lost
  <2>2. lost = {} \/ \E m : lost = {m} BY <2>1
  <2>3. Cardinality(lost) <= 1 BY <2>2, FS_EmptySet, FS_Singleton
  <2> QED BY <2>3 DEF lost
<1> QED BY <1>1, <1>2, LoneInvIsKept, PTL DEF Spec
-----------------------------------------------------------------------------
(* Links.  A reminder carries the link of the last attempt that was        *)
(* recorded, the dispatch accepts that of the last one prepared.  Where    *)
(* server actions do not overlap the two agree whenever the supplier's row *)
(* says that an invitation went out.                                       *)
Linked == {"sent", "delivered", "opened"}

LinkIsCurrent ==
  \A s \in Suppliers :
    supplier[s] \in Linked => dispatch[s].version = dispatch[s].attempts

(* A retry closes the row whose link it renews; only the result of an      *)
(* invitation opens it again.                                              *)
LEMMA RetriesUnlink ==
  ASSUME TypeOK, NEW s \in Suppliers, NEW w \in Workers, Prepare(w),
         supplier'[s] \in Linked
  PROVE  supplier[s] \in Linked /\ dispatch'[s].version = dispatch[s].version
<1>1. /\ worker[w] \in WorkerStates
      /\ supplier \in [Suppliers -> SupplierStatus]
      /\ dispatch \in [Suppliers -> Dispatches]
  BY DEF TypeOK
<1>2. CASE UNCHANGED <<supplier, dispatch>>
  BY <1>2
<1>3. ASSUME NEW m \in worker[w].todo, PrepareRetry(w, m), MayRetry(m.to)
      PROVE  supplier[s] \in Linked /\ dispatch'[s] = dispatch[s]
  <2>1. m.to \in Suppliers
    BY <1>1, WorkerMails, MailFields
  <2> DEFINE a == dispatch[m.to].aged /\ dispatch[m.to].attempts > 0
             d == [dispatch[m.to] EXCEPT !.status = "queued", !.version = m.no,
                                         !.aged = a]
  <2>2. /\ supplier' = [supplier EXCEPT ![m.to] = "queued"]
        /\ dispatch' = [dispatch EXCEPT ![m.to] = d]
    BY <1>3, Zenon DEF PrepareRetry
  <2> HIDE DEF d
  <2>3. s # m.to
    BY <1>1, <2>1, <2>2 DEF Linked
  <2> QED BY <1>1, <2>2, <2>3
<1> QED
  BY <1>2, <1>3
  DEF Prepare, TakeInvitation, PrepareRetry, PrepareReminder, Skip, stores

LEMMA OnlyResultsLink ==
  ASSUME TypeOK, [Next]_vars, NEW s \in Suppliers, supplier'[s] \in Linked,
         ~ \E w \in Workers : MarkInvitation(w)
  PROVE  supplier[s] \in Linked
<1>1. supplier \in [Suppliers -> SupplierStatus]
  BY DEF TypeOK
<1>2. CASE UNCHANGED supplier
  BY <1>2
<1>3. ASSUME NEW t \in Suppliers, NEW st, st \in Linked => supplier[t] \in Linked,
             supplier' = [supplier EXCEPT ![t] = st]
      PROVE  supplier[s] \in Linked
  BY <1>1, <1>3
<1>4. ASSUME NEW w \in Workers, Launch(w)
      PROVE  FALSE
  BY <1>4 DEF Launch, Linked
<1>5. ASSUME NEW t \in Suppliers, Recover(t) \/ OpenInvite(t)
      PROVE  supplier[s] \in Linked
  <2>1. \/ supplier' = [supplier EXCEPT ![t] =
                          IF supplier[t] \in {"draft", "queued"} THEN "failed"
                          ELSE supplier[t]]
        \/ supplier' = [supplier EXCEPT ![t] =
                          IF supplier[t] \in {"sent", "delivered"} THEN "opened"
                          ELSE supplier[t]]
    BY <1>5 DEF Recover, OpenInvite
  <2> QED BY <1>3, <2>1 DEF Linked
<1>6. ASSUME NEW t \in Suppliers, SubmitQuote(t) \/ Decline(t)
      PROVE  supplier[s] \in Linked
  <2>1. \/ supplier' = [supplier EXCEPT ![t] = "responded"]
        \/ supplier' = [supplier EXCEPT ![t] = "declined"]
    BY <1>6 DEF SubmitQuote, Decline, Answer
  <2> QED BY <1>3, <2>1 DEF Linked
<1>7. ASSUME NEW W \in (SUBSET Suppliers) \ {{}}, Award(W)
      PROVE  supplier[s] \in Linked
  BY <1>7 DEF Award, Linked
<1>8. ASSUME NEW e \in Events, Ingest(e)
      PROVE  supplier[s] \in Linked
  <2>1. e.mail \in Mails /\ e.type \in EventType
    BY DEF Events
  <2>2. e.mail.to \in Suppliers
    BY <2>1, MailFields
  <2>3. SupplierAfter(e.mail, e.type) \in Linked => supplier[e.mail.to] \in Linked
    BY <2>1 DEF SupplierAfter, EventType, Linked
  <2>4. \/ UNCHANGED supplier
        \/ supplier' = [supplier EXCEPT ![e.mail.to] = SupplierAfter(e.mail, e.type)]
    BY <1>8 DEF Ingest
  <2> QED BY <1>2, <1>3, <2>2, <2>3, <2>4
<1>9. ASSUME NEW w \in Workers, Prepare(w)
      PROVE  supplier[s] \in Linked
  BY <1>9, RetriesUnlink
<1>10. \/ UNCHANGED supplier
       \/ \E w \in Workers : Launch(w) \/ Prepare(w)
       \/ \E t \in Suppliers :
            Recover(t) \/ OpenInvite(t) \/ SubmitQuote(t) \/ Decline(t)
       \/ \E W \in (SUBSET Suppliers) \ {{}} : Award(W)
       \/ \E e \in Events : Ingest(e)
  BY DEF Next, vars, stores, Start, StartRetry, StartRemind, Step, Send,
         MarkReminder, Fault, LoseMark, Crash, Portal, StartDraft, StartRevision,
         OptOut, Time, Age, CooldownEnds, SuppressElsewhere, DeadlinePasses, Emit
<1> QED BY <1>2, <1>4, <1>5, <1>6, <1>7, <1>8, <1>9, <1>10

(* Where server actions do not overlap, a result is that of the link the   *)
(* dispatch accepts.                                                       *)
LEMMA ResultsAreOfTheLink ==
  ASSUME LoneInv, LinkIsCurrent, NEW w \in Workers, MarkInvitation(w),
         NEW s \in Suppliers, supplier'[s] \in Linked
  PROVE  dispatch'[s].version = dispatch'[s].attempts
<1>1. /\ LedgerInv /\ TypeOK /\ dispatch \in [Suppliers -> Dispatches]
      /\ supplier \in [Suppliers -> SupplierStatus]
  BY DEF LoneInv, LedgerInv, TypeOK
<1>2. PICK j : j = worker[w].job
  OBVIOUS
<1>3. j \in Invites /\ j \in Mails /\ j.to \in Suppliers
  BY <1>1, <1>2, InvitationResult, InviteFields
<1>4. j.no = dispatch[j.to].attempts + 1 /\ j.no = dispatch[j.to].version
  <2>1. j \in InHand(w)
    BY <1>2, <1>3 DEF InHand
  <2> QED BY <1>2, <1>3, <2>1 DEF LoneInv, HeldIsNext
<1>5. dispatch'[s].version = dispatch[s].version
  BY <1>1, InvitationKeeps
<1>6. CASE UNCHANGED <<supplier, dispatch>>
  BY <1>6 DEF LinkIsCurrent
<1>7. CASE s # j.to
  <2>1. dispatch'[s] = dispatch[s] /\ supplier'[s] = supplier[s]
    BY <1>1, <1>2, <1>7 DEF MarkInvitation
  <2> QED BY <2>1 DEF LinkIsCurrent
<1> DEFINE Recorded ==
      /\ worker[w].result = "ok"
      /\ ~ RecordedElsewhere(j, Invite(j.to, dispatch[j.to].version))
<1>8. s = j.to => worker[w].result # "error"
  <2>1. worker[w].result = "error" => supplier' = [supplier EXCEPT ![j.to] = "failed"]
    BY <1>2 DEF MarkInvitation
  <2> QED BY <1>1, <2>1 DEF Linked
<1>9. CASE s = j.to /\ Recorded
  <2> DEFINE d == dispatch[s]
             n == d.attempts + 1
             cool == d.cooling \/ ~ d.sent
             ok == [[d EXCEPT !.status = "sent", !.attempts = n, !.aged = FALSE]
                      EXCEPT !.provider = j, !.sent = TRUE, !.cooling = cool]
  <2>1. dispatch' = [dispatch EXCEPT ![s] = ok]
    BY <1>2, <1>9, Zenon DEF MarkInvitation
  <2>2. ok.attempts = n
    <3> HIDE DEF n, cool
    <3> QED BY <1>1 DEF Dispatches
  <2> HIDE DEF ok
  <2>3. dispatch'[s].attempts = n
    BY <1>1, <2>1, <2>2
  <2> QED BY <1>4, <1>5, <1>9, <2>3
<1>10. CASE s = j.to /\ ~ Recorded
  <2>1. dispatch' = dispatch
    BY <1>2, <1>8, <1>10 DEF MarkInvitation
  <2>2. supplier' = supplier
    BY <1>2, <1>8, <1>10 DEF MarkInvitation
  <2> QED BY <1>6, <2>1, <2>2
<1> QED BY <1>7, <1>9, <1>10

LEMMA LinksStayCurrent ==
  ASSUME LoneInv, LinkIsCurrent, [Next]_vars
  PROVE  LinkIsCurrent'
<1> SUFFICES ASSUME NEW s \in Suppliers, supplier'[s] \in Linked
             PROVE  dispatch'[s].version = dispatch'[s].attempts
  BY DEF LinkIsCurrent
<1>1. TypeOK
  BY DEF LoneInv, LedgerInv
<1>2. CASE \E w \in Workers : MarkInvitation(w)
  BY <1>2, ResultsAreOfTheLink
<1>3. CASE ~ \E w \in Workers : MarkInvitation(w)
  <2>1. ~ \E w \in Workers : Launch(w)
    BY DEF Launch, Linked
  <2>2. supplier[s] \in Linked
    BY <1>1, <1>3, OnlyResultsLink
  <2>3. /\ dispatch'[s].attempts = dispatch[s].attempts
        /\ dispatch'[s].version = dispatch[s].version
    BY <1>1, <1>3, <2>1, AttemptsAreKept, RetriesUnlink
  <2> QED BY <2>2, <2>3 DEF LinkIsCurrent
<1> QED BY <1>2, <1>3

(* While server actions do not overlap, every reminder carries the link    *)
(* its dispatch accepts, whatever crashes, lost results, webhook events    *)
(* and recoveries came before (rfqh3_prepare_reminder,                     *)
(* rfqh3_mark_dispatch_result, sendBuyerRfqReminders).                     *)
THEOREM LoneRemindersCarryTheLink ==
  Spec /\ []OneAtATime => RemindersCarryTheLink
<1> DEFINE A == \A w \in Workers :
                  /\ worker[w].job = NoMail /\ worker'[w].job # NoMail
                  /\ worker[w].op = "remind"
                  => worker'[w].token = dispatch[worker'[w].job.to].version
<1>1. Init => LoneInv /\ LinkIsCurrent
  BY LoneInvHoldsAtStart DEF Init, LinkIsCurrent, Linked
<1>2. LoneInv /\ LinkIsCurrent /\ OneAtATime /\ [Next]_vars
        => LoneInv' /\ LinkIsCurrent'
  BY LoneInvIsKept, LinksStayCurrent
<1>3. ASSUME LoneInv, LinkIsCurrent, [Next]_vars PROVE A
  <2> SUFFICES ASSUME NEW w \in Workers, worker[w].job = NoMail,
                      worker'[w].job # NoMail, worker[w].op = "remind"
               PROVE  worker'[w].token = dispatch[worker'[w].job.to].version
    OBVIOUS
  <2>1. /\ TypeOK /\ worker[w] \in WorkerStates
        /\ worker \in [Workers -> WorkerStates]
    BY <1>3 DEF LoneInv, LedgerInv, TypeOK
  <2>2. PICK m \in worker[w].todo : PrepareReminder(w, m)
    BY <1>3, <2>1, OnlyPreparedIsTaken
    DEF Prepare, TakeInvitation, PrepareRetry
  <2>3. ~ Skip(w, m)
    <3>1. [worker[w] EXCEPT !.todo = worker[w].todo \ {m}] \in WorkerStates
      BY <2>1, WorkerUpdates
    <3>2. Continue([worker[w] EXCEPT !.todo = worker[w].todo \ {m}]).job = NoMail
      BY <3>1 DEF Continue, Idle, WorkerStates
    <3> QED BY <2>1, <3>2 DEF Skip
  <2>4. MayRemind(m.to) /\ Take(w, m, dispatch[m.to].attempts)
    BY <2>2, <2>3 DEF PrepareReminder
  <2>5. worker'[w].job = m /\ worker'[w].token = dispatch[m.to].attempts
    BY <2>1, <2>4 DEF Take, WorkerStates
  <2>6. m.to \in Suppliers
    BY <2>1, WorkerMails, MailFields
  <2>7. supplier[m.to] \in Linked
    BY <2>4 DEF MayRemind, Linked
  <2> QED BY <1>3, <2>5, <2>6, <2>7 DEF LinkIsCurrent
<1>4. LoneInv /\ LinkIsCurrent /\ [Next]_vars => [A]_vars BY <1>3
<1> QED BY <1>1, <1>2, <1>4, PTL DEF Spec, RemindersCarryTheLink

-----------------------------------------------------------------------------
(* Suppression.  Nothing ever lifts one.                                   *)
LEMMA SuppressedStay ==
  ASSUME [Next]_vars
  PROVE  suppressed \subseteq suppressed'
<1> DEFINE Stay == suppressed \subseteq suppressed'
<1>1. \A w \in Workers : Start(w) => Stay
  BY DEF Start, Launch, StartRetry, StartRemind, stores
<1>2. \A w \in Workers : Prepare(w) => Stay
  BY DEF Prepare, TakeInvitation, PrepareRetry, PrepareReminder, Skip, stores
<1>3. \A w \in Workers : Send(w) \/ MarkInvitation(w) \/ MarkReminder(w) => Stay
  BY DEF Send, MarkInvitation, MarkReminder, stores
<1>4. \A w \in Workers : Fault(w) => Stay
  BY DEF Fault, LoseMark, Crash, stores
<1>5. \A s \in Suppliers : Portal(s) => Stay
  BY DEF Portal, OpenInvite, StartDraft, SubmitQuote, Decline, StartRevision, Answer,
      OptOut
<1>6. \A s \in Suppliers : Recover(s) \/ Time(s) \/ SuppressElsewhere(s) => Stay
  BY DEF Recover, Time, Age, CooldownEnds, SuppressElsewhere
<1>7. /\ \A W : Award(W) => Stay
      /\ DeadlinePasses => Stay
  BY DEF Award, DeadlinePasses
<1>8. /\ \A m, t : Emit(m, t) => Stay
      /\ \A e : Ingest(e) => Stay
  BY DEF Emit, Ingest, stores
<1>9. UNCHANGED vars => Stay
  BY DEF vars, stores
<1> HIDE DEF Stay
<1>10. Stay
  BY <1>1, <1>2, <1>3, <1>4, <1>5, <1>6, <1>7, <1>8, <1>9 DEF Next, Step
<1> QED BY <1>10 DEF Stay

(* A mail to s waits to be sent: it was prepared, or a launch that runs    *)
(* still has to come to it.                                                *)
WaitsFor(s) ==
  \E w \in Workers, m \in Mails :
    /\ m.to = s
    /\ m = worker[w].job \/ (worker[w].op = "launch" /\ m \in worker[w].todo)
LeftAlone(s) == s \in suppressed /\ ~ WaitsFor(s)

(* What still leaves for a suppressed address was prepared before: once it *)
(* is sent or given up, no launch, retry or reminder mails the address     *)
(* again, however many run (rfqh3_launch_campaign, rfqh3_prepare_retry,    *)
(* rfqh3_prepare_reminder).                                                *)
THEOREM SuppressedAreLeftAlone ==
  Spec => [][\A s \in Suppliers : LeftAlone(s) =>
               /\ LeftAlone(s)'
               /\ \A m \in Mails : m.to = s => mail'[m] = mail[m]]_vars
<1> DEFINE A == \A s \in Suppliers : LeftAlone(s) =>
                  /\ LeftAlone(s)'
                  /\ \A m \in Mails : m.to = s => mail'[m] = mail[m]
<1>1. ASSUME TypeOK, [Next]_vars PROVE A
  <2> SUFFICES ASSUME NEW s \in Suppliers, LeftAlone(s)
               PROVE  /\ LeftAlone(s)'
                      /\ \A m \in Mails : m.to = s => mail'[m] = mail[m]
    OBVIOUS
  <2>1. s \in suppressed /\ s \in suppressed'
    BY <1>1, SuppressedStay DEF LeftAlone
  <2>2. ASSUME NEW w \in Workers, NEW m \in Mails, m.to = s
        PROVE  /\ m # worker[w].job
               /\ worker[w].op = "launch" => m \notin worker[w].todo
    BY <2>2 DEF LeftAlone, WaitsFor
  <2>3. ASSUME NEW w \in Workers, NEW m \in Mails, m.to = s
        PROVE  /\ m # worker'[w].job
               /\ worker'[w].op = "launch" => m \notin worker'[w].todo
    <3>1. HandMoves(w) /\ m # NoMail BY <1>1, HandsMove
    <3>2. CASE worker'[w].job = NoMail /\ ~ StartsWith(w)
      BY <2>2, <2>3, <3>1, <3>2 DEF HandMoves
    <3>3. CASE StartsWith(w) /\ worker'[w].job = NoMail
      <4>1. ~ Launch(w) BY <2>1 DEF Launch
      <4> QED BY <3>1, <3>3, <4>1 DEF StartsWith
    <3>4. CASE Prepare(w) /\ worker'[w].job # NoMail
      <4>1. worker[w].job = NoMail BY <3>4 DEF Prepare
      <4>2. worker[w].op # "launch" => m # worker'[w].job
        BY <1>1, <2>1, <2>3, <3>4, <4>1, SuppressedAreNotPrepared
      <4> QED BY <2>2, <2>3, <3>1, <3>4, <4>1, <4>2 DEF HandMoves
    <3> QED BY <2>2, <2>3, <3>1, <3>2, <3>3, <3>4 DEF HandMoves
  <2>4. LeftAlone(s)' BY <2>1, <2>3 DEF LeftAlone, WaitsFor
  <2>5. ASSUME NEW m \in Mails, m.to = s PROVE mail'[m] = mail[m]
    BY <1>1, <2>2, <2>5, OnlyJobsAreSent
  <2> QED BY <2>4, <2>5
<1>2. TypeOK /\ [Next]_vars => [A]_vars BY <1>1
<1> QED BY <1>2, TypeCorrect, PTL DEF Spec

-----------------------------------------------------------------------------
(* Bounces.  While server actions do not overlap and nothing is lost, what *)
(* the provider accepted is named by its own ledger row, or its result is  *)
(* still in a server action's hand.                                        *)
RowsNameThemselves == \A m \in Mails : ledger[m].id \in {NoMail, m}
ResultInHand(m) ==
  \E w \in Workers : worker[w].job = m /\ worker[w].result = "ok"
NoneIsLost ==
  \A m \in Mails : Accepted(m) => ledger[m].id = m \/ ResultInHand(m)
EventsAreOfMails == \A e \in emitted : Accepted(e.mail)
BounceInv == /\ LoneInv /\ RowsNameThemselves /\ NoneIsLost
             /\ EventsAreOfMails

(* The webhook's event comes after the server action recorded the result.  *)
EventsWait == \A e \in ingested' \ ingested : ~ ResultInHand(e.mail)

(* A lone server action records a result under the mail's own key.         *)
LEMMA ResultsAreRecorded ==
  ASSUME LoneInv, RowsNameThemselves, NEW w \in Workers,
         MarkInvitation(w) \/ MarkReminder(w)
  PROVE  /\ \A m \in Mails : ledger'[m].id \in {ledger[m].id, m}
         /\ worker[w].result = "ok" => ledger'[worker[w].job].id = worker[w].job
<1> DEFINE j == worker[w].job
<1>1. TypeOK /\ LedgerInv BY DEF LoneInv, LedgerInv
<1>2. ledger \in [Mails -> Rows] /\ \A m \in Mails : ledger[m] \in Rows
  BY <1>1 DEF TypeOK
<1>3. ASSUME NEW m \in Mails, m = j,
             \/ /\ worker[w].result = "ok"
                /\ ledger' = [ledger EXCEPT ![m] = [status |-> "sent", id |-> m]]
             \/ /\ worker[w].result = "error"
                /\ ledger' = [ledger EXCEPT ![m].status = "failed"]
      PROVE  /\ \A o \in Mails : ledger'[o].id \in {ledger[o].id, o}
             /\ worker[w].result = "ok" => ledger'[m].id = m
  <2>1. [ledger[m] EXCEPT !.status = "failed"].id = ledger[m].id BY <1>2 DEF Rows
  <2>2. \A o \in Mails \ {m} : ledger'[o].id = ledger[o].id BY <1>2, <1>3
  <2>3. CASE worker[w].result = "ok"
    <3>1. ledger' = [ledger EXCEPT ![m] = [status |-> "sent", id |-> m]]
      BY <1>3, <2>3
    <3>2. ledger'[m].id = m BY <1>2, <3>1
    <3> QED BY <2>2, <3>2
  <2>4. CASE worker[w].result # "ok"
    <3>1. ledger' = [ledger EXCEPT ![m].status = "failed"] BY <1>3, <2>4
    <3>2. ledger'[m].id = ledger[m].id BY <1>2, <2>1, <3>1
    <3> QED BY <2>2, <2>4, <3>2
  <2> QED BY <2>3, <2>4
<1>4. CASE MarkInvitation(w)
  <2>1. j \in Invites /\ j \in Mails /\ j # NoMail
    BY <1>1, <1>4, InvitationResult, InviteFields
  <2>2. j = Invite(j.to, dispatch[j.to].version)
    <3>1. j.no = dispatch[j.to].version
      BY <2>1 DEF LoneInv, HeldIsNext, InHand
    <3> QED BY <2>1, <3>1, InviteFields
  <2>3. ~ RecordedElsewhere(j, j)
    BY <2>1 DEF RecordedElsewhere, RowsNameThemselves
  <2>4. \/ /\ worker[w].result = "ok"
           /\ ledger' = [ledger EXCEPT ![j] = [status |-> "sent", id |-> j]]
        \/ /\ worker[w].result = "error"
           /\ ledger' = [ledger EXCEPT ![j].status = "failed"]
    BY <1>4, <2>2, <2>3 DEF MarkInvitation
  <2> QED BY <1>3, <2>1, <2>4
<1>5. CASE MarkReminder(w)
  <2>1. j \in Reminders /\ j \in Mails
    BY <1>1, <1>5, ReminderResult, ReminderFields
  <2>2. \/ /\ worker[w].result = "ok"
           /\ ledger' = [ledger EXCEPT ![j] = [status |-> "sent", id |-> j]]
        \/ /\ worker[w].result = "error"
           /\ ledger' = [ledger EXCEPT ![j].status = "failed"]
    BY <1>5 DEF MarkReminder
  <2> QED BY <1>3, <2>1, <2>2
<1> QED BY <1>4, <1>5

(* A result in hand stays there until it is recorded or lost.              *)
LEMMA ResultsAreHeld ==
  ASSUME TypeOK, [Next]_vars, NEW w \in Workers,
         worker[w].job # NoMail, worker[w].result = "ok"
  PROVE  \/ worker'[w] = worker[w]
         \/ MarkInvitation(w) \/ MarkReminder(w) \/ Fault(w)
<1>1. worker \in [Workers -> WorkerStates] BY DEF TypeOK
<1>2. worker[w] # Idle BY DEF Idle
<1>3. ASSUME NEW v \in Workers, Start(v) \/ Step(v) \/ Fault(v), v # w
      PROVE  worker'[w] = worker[w]
  <2>1. \E wk : worker' = [worker EXCEPT ![v] = wk]
    BY <1>3 DEF Start, Launch, StartRetry, StartRemind, Step, Prepare,
                TakeInvitation, PrepareRetry, PrepareReminder, Take, Skip, Send,
                MarkInvitation, MarkReminder, Fault, LoseMark, Crash
  <2> QED BY <1>1, <1>3, <2>1
<1>4. ~ Start(w) BY <1>2 DEF Start, Launch, StartRetry, StartRemind
<1>5. Step(w) => MarkInvitation(w) \/ MarkReminder(w) BY DEF Step, Prepare, Send
<1>6. ASSUME NEW s \in Suppliers,
             Recover(s) \/ Portal(s) \/ Time(s) \/ SuppressElsewhere(s)
      PROVE  UNCHANGED worker
  BY <1>6 DEF Recover, Portal, OpenInvite, StartDraft, SubmitQuote, Decline,
              StartRevision, Answer, OptOut, Time, Age, CooldownEnds,
              SuppressElsewhere
<1> QED
  BY <1>3, <1>4, <1>5, <1>6
  DEF Next, Award, DeadlinePasses, Emit, Ingest, vars

LEMMA BounceInvIsKept ==
  ASSUME Faults \subseteq {"refusal"}, BounceInv, OneAtATime, [Next]_vars
  PROVE  BounceInv'
<1>1. /\ TypeOK /\ LedgerInv /\ LoneInv /\ RowsNameThemselves
      /\ worker \in [Workers -> WorkerStates]
  BY DEF BounceInv, LoneInv, LedgerInv, TypeOK
<1>2. LoneInv' BY <1>1, LoneInvIsKept
<1>3. ASSUME NEW m \in Mails PROVE ledger'[m].id \in {ledger[m].id, m}
  BY <1>1, IdsAreKept, ResultsAreRecorded
<1>4. RowsNameThemselves' BY <1>1, <1>3 DEF RowsNameThemselves
<1>5. ASSUME NEW m \in Mails, Accepted(m)'
      PROVE  ledger'[m].id = m \/ ResultInHand(m)'
  <2>1. CASE Accepted(m)
    <3>1. CASE ledger[m].id = m BY <1>3, <3>1
    <3>2. ASSUME NEW w \in Workers, worker[w].job = m, worker[w].result = "ok"
          PROVE  ledger'[m].id = m \/ ResultInHand(m)'
      <4>1. ~ Fault(w) BY DEF Fault, LoseMark, Crash
      <4>2. m # NoMail OBVIOUS
      <4>3. \/ worker'[w] = worker[w]
            \/ MarkInvitation(w) \/ MarkReminder(w)
        BY <1>1, <3>2, <4>1, <4>2, ResultsAreHeld
      <4> QED BY <1>1, <3>2, <4>3, ResultsAreRecorded DEF ResultInHand
    <3> QED BY <2>1, <3>1, <3>2 DEF BounceInv, NoneIsLost, ResultInHand
  <2>2. CASE ~ Accepted(m)
    <3>1. PICK w \in Workers : Send(w) /\ m = worker[w].job
      BY <1>1, <1>5, <2>2, OnlyJobsAreSent DEF Accepted
    <3>2. mail' # mail BY <1>5, <2>2 DEF Accepted
    <3>3. worker' = [worker EXCEPT ![w].result = "ok"]
      BY <3>1, <3>2 DEF Send
    <3>4. worker'[w].job = m /\ worker'[w].result = "ok"
      BY <1>1, <3>1, <3>3 DEF WorkerStates
    <3> QED BY <3>4 DEF ResultInHand
  <2> QED BY <2>1, <2>2
<1>6. NoneIsLost' BY <1>5 DEF NoneIsLost
<1>7. EventsAreOfMails'
  <2> SUFFICES ASSUME NEW e \in emitted' PROVE Accepted(e.mail)'
    BY DEF EventsAreOfMails
  <2>1. e.mail \in Mails
    <3>1. TypeOK' BY <1>2 DEF LoneInv, LedgerInv
    <3> QED BY <3>1 DEF TypeOK, Events
  <2>2. Accepted(e.mail)
    <3>1. CASE e \in emitted BY <3>1 DEF BounceInv, EventsAreOfMails
    <3>2. CASE e \notin emitted
      <4>1. PICK m \in Mails, t \in EventType : Emit(m, t)
        BY <3>2
        DEF Next, vars, stores, Start, Launch, StartRetry, StartRemind, Step,
            Prepare, Send, MarkInvitation, MarkReminder, Fault, LoseMark, Crash,
            Recover, Portal, OpenInvite, StartDraft, SubmitQuote, Decline,
            StartRevision, Answer, OptOut, Time, Age, CooldownEnds,
            SuppressElsewhere, Award, DeadlinePasses, Ingest
      <4> QED BY <3>2, <4>1 DEF Emit
    <3> QED BY <3>1, <3>2
  <2> QED BY <1>1, <2>1, <2>2, AcceptedStays
<1> QED BY <1>2, <1>4, <1>6, <1>7 DEF BounceInv

(* Where server actions neither overlap nor die, no result and no reply is *)
(* lost, and an event comes after the server action recorded its mail,     *)
(* every bounce and every complaint suppresses its address for good        *)
(* (rfqh3_ingest_resend_event, rfqh3_mark_dispatch_result).                *)
THEOREM TimelyBouncesSuppress ==
  ASSUME Faults \subseteq {"refusal"}
  PROVE  Spec /\ []OneAtATime /\ [][EventsWait]_vars => []BouncesSuppress
<1>1. Init => BounceInv /\ BouncesSuppress
  <2> SUFFICES ASSUME Init PROVE BounceInv /\ BouncesSuppress OBVIOUS
  <2>1. \A m \in Mails : ledger[m].id = NoMail /\ ~ Accepted(m)
    BY DEF Init, NoRow, Accepted
  <2>2. emitted = {} /\ ingested = {} BY DEF Init
  <2> QED BY <2>1, <2>2, LoneInvHoldsAtStart
          DEF BounceInv, RowsNameThemselves, NoneIsLost, EventsAreOfMails,
              BouncesSuppress
<1>2. BounceInv /\ OneAtATime /\ [Next]_vars => BounceInv' BY BounceInvIsKept
<1>3. BounceInv /\ BouncesSuppress /\ [Next]_vars /\ [EventsWait]_vars
        => BouncesSuppress'
  <2> SUFFICES ASSUME BounceInv, BouncesSuppress, [Next]_vars, [EventsWait]_vars,
                      NEW e \in ingested', e.type \in {"bounced", "complained"}
               PROVE  e.mail.to \in suppressed'
    BY DEF BouncesSuppress
  <2>1. CASE e \in ingested
    BY <2>1, SuppressedStay DEF BouncesSuppress
  <2>2. CASE e \notin ingested
    <3>1. PICK f \in Events : Ingest(f)
      BY <2>2
      DEF Next, vars, stores, Start, Launch, StartRetry, StartRemind, Step,
          Prepare, Send, MarkInvitation, MarkReminder, Fault, LoseMark, Crash,
          Recover, Portal, OpenInvite, StartDraft, SubmitQuote, Decline,
          StartRevision, Answer, OptOut, Time, Age, CooldownEnds,
          SuppressElsewhere, Award, DeadlinePasses, Emit
    <3>2. e = f /\ e \in emitted BY <2>2, <3>1 DEF Ingest
    <3>3. e.mail \in Mails /\ Accepted(e.mail)
      BY <3>1, <3>2 DEF BounceInv, EventsAreOfMails, Events
    <3>4. ~ ResultInHand(e.mail) BY <2>2 DEF EventsWait, vars
    <3>5. ledger[e.mail].id = e.mail
      BY <3>3, <3>4 DEF BounceInv, NoneIsLost
    <3> QED BY <3>1, <3>2, <3>3, <3>5 DEF Ingest
  <2> QED BY <2>1, <2>2
<1> QED BY <1>1, <1>2, <1>3, PTL DEF Spec
===============================================================================
