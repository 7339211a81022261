-------------------------- MODULE RfqDeliveryProofs --------------------------
(* Theorems about RfqDelivery, for any suppliers, server actions, bounds   *)
(* and faults.                                                             *)
EXTENDS RfqDelivery, TLAPS

USE DeliveryAssumptions, NoMailAssumption DEF DeliveryAssumptions, NoMailAssumption

-----------------------------------------------------------------------------
(* Facts about the rows the actions write.                                 *)

(* The key of an invitation, or of a reminder, within its bound is a mail. *)
LEMMA KeysAreMails ==
  ASSUME NEW s \in Suppliers
  PROVE  /\ \A n \in 1 .. MaxVersion : Invite(s, n) \in Invites
         /\ \A n \in 1 .. MaxReminders : Reminder(s, n) \in Reminders
BY DEF Invite, Reminder, Invites, Reminders

(* What an event makes of a status is a status.                            *)
LEMMA StatusAfter ==
  ASSUME TypeOK, NEW m \in Mails, NEW t \in EventType
  PROVE  /\ DispatchAfter(m, t) \in DispatchStatus
         /\ SupplierAfter(m, t) \in SupplierStatus
<1>1. m.to \in Suppliers BY DEF Mails, Invites, Reminders
<1>2. dispatch[m.to].status \in DispatchStatus /\ supplier[m.to] \in SupplierStatus
  BY <1>1 DEF TypeOK, Dispatches
<1>3. DispatchAfter(m, t) \in DispatchStatus
  BY <1>2 DEF DispatchAfter, DispatchStatus, EventType
<1>4. SupplierAfter(m, t) \in SupplierStatus
  BY <1>2 DEF SupplierAfter, SupplierStatus, EventType
<1> QED BY <1>3, <1>4

(* A server action that has finished a row is still a server action.       *)
LEMMA ContinueIsTyped ==
  ASSUME NEW wk \in WorkerStates
  PROVE  Continue(wk) \in WorkerStates
BY DEF Continue, WorkerStates, Idle

(* So is one that takes a row, passes over a row or gets an answer.         *)
LEMMA WorkerUpdates ==
  ASSUME NEW wk \in WorkerStates
  PROVE  /\ \A m \in wk.todo, n \in Nat :
              [wk EXCEPT !.todo = wk.todo \ {m}, !.job = m, !.token = n]
                \in WorkerStates
         /\ \A m \in wk.todo : [wk EXCEPT !.todo = wk.todo \ {m}] \in WorkerStates
         /\ \A r \in {"ok", "error"} : [wk EXCEPT !.result = r] \in WorkerStates
BY DEF WorkerStates

(* A mail in a server action's hands is of the kind the action sends.      *)
LEMMA WorkerMails ==
  ASSUME NEW wk \in WorkerStates
  PROVE  /\ wk.op \in {"launch", "retry"} =>
              wk.todo \subseteq Invites /\ wk.job \in Invites \cup {NoMail}
         /\ wk.op = "remind" =>
              wk.todo \subseteq Reminders /\ wk.job \in Reminders \cup {NoMail}
         /\ wk.todo \subseteq Mails /\ wk.job \in Mails \cup {NoMail}
         /\ wk.token \in Nat
BY DEF WorkerStates, Mails

(* A mail is addressed to a supplier and is of one kind.                   *)
LEMMA MailFields ==
  ASSUME NEW m \in Mails
  PROVE  /\ m.to \in Suppliers
         /\ m.kind = "invite" => m \in Invites
         /\ m.kind = "reminder" => m \in Reminders
         /\ m \in Invites => m.no \in 1 .. MaxVersion /\ m.kind = "invite"
         /\ m \in Reminders => m.no \in 1 .. MaxReminders /\ m.kind = "reminder"
BY DEF Mails, Invites, Reminders

(* An update that keeps every column in its domain keeps the row's type.   *)
LEMMA UpdateDispatch ==
  ASSUME NEW d \in Dispatches
  PROVE  /\ \A st \in DispatchStatus : [d EXCEPT !.status = st] \in Dispatches
         /\ \A st \in DispatchStatus :
              [d EXCEPT !.status = st, !.opened = TRUE] \in Dispatches
         /\ \A st \in DispatchStatus, n \in 1 .. MaxVersion, a \in BOOLEAN :
              [d EXCEPT !.status = st, !.version = n, !.aged = a] \in Dispatches
BY DEF Dispatches

(* The rows a launch writes, and the ones before it, are dispatch rows.     *)
LEMMA NewDispatchIsTyped ==
  /\ NewDispatch \in Dispatches
  /\ [NewDispatch EXCEPT !.status = "none"] \in Dispatches
<1>1. "queued" \in DispatchStatus /\ "none" \in DispatchStatus
  BY DEF DispatchStatus
<1>2. 1 \in 1 .. MaxVersion /\ 0 \in 0 .. MaxReminders OBVIOUS
<1>3. FALSE \in BOOLEAN /\ NoMail \in Invites \cup {NoMail} OBVIOUS
<1>4. NewDispatch \in Dispatches
  BY <1>1, <1>2, <1>3, Zenon DEF NewDispatch, Dispatches
<1> QED BY <1>1, <1>4, UpdateDispatch

LEMMA InitTyped == Init => TypeOK
<1> SUFFICES ASSUME Init PROVE TypeOK OBVIOUS
<1>1. worker \in [Workers -> WorkerStates] BY DEF Init, Idle, WorkerStates
<1>2. dispatch \in [Suppliers -> Dispatches]
  BY NewDispatchIsTyped DEF Init
<1>3. ledger \in [Mails -> Rows] BY DEF Init, NoRow, Rows, MessageStatus
<1>4. quotes \in [Suppliers -> Seq(QuoteStatus)] BY DEF Init
<1>5. supplier \in [Suppliers -> SupplierStatus] BY DEF Init, SupplierStatus
<1> QED BY <1>1, <1>2, <1>3, <1>4, <1>5 DEF Init, TypeOK

-----------------------------------------------------------------------------
(* Type correctness.                                                       *)
LEMMA StartTyped ==
  ASSUME TypeOK, NEW w \in Workers, Start(w)
  PROVE  TypeOK'
<1>1. CASE Launch(w)
  <2>1. supplier' \in [Suppliers -> SupplierStatus]
    BY <1>1 DEF Launch, SupplierStatus
  <2>2. dispatch' \in [Suppliers -> Dispatches]
    BY <1>1, NewDispatchIsTyped DEF Launch
  <2>3. [Idle EXCEPT !.op = "launch", !.todo = {Invite(s, 1) : s \in Suppliers}]
          \in WorkerStates
    <3>1. {Invite(s, 1) : s \in Suppliers} \subseteq Invites
      BY KeysAreMails
    <3> QED BY <3>1 DEF Idle, WorkerStates
  <2> QED BY <1>1, <2>1, <2>2, <2>3 DEF Launch, TypeOK
<1>2. CASE StartRetry(w)
  <2> DEFINE failed == {s \in Suppliers : /\ dispatch[s].status = "failed"
                                          /\ dispatch[s].attempts < MaxVersion}
             wk == [Idle EXCEPT !.op = "retry",
                       !.todo = {Invite(s, NextAttempt(s)) : s \in failed}]
  <2>1. ASSUME NEW s \in failed
        PROVE  Invite(s, NextAttempt(s)) \in Invites
    <3>1. dispatch[s].attempts \in Nat BY DEF TypeOK, Dispatches
    <3>2. NextAttempt(s) \in 1 .. MaxVersion BY <3>1 DEF NextAttempt
    <3> QED BY <3>2, KeysAreMails
  <2>2. {Invite(s, NextAttempt(s)) : s \in failed} \subseteq Invites BY <2>1
  <2>3. wk \in WorkerStates BY <2>2 DEF Idle, WorkerStates
  <2>4. worker' = [worker EXCEPT ![w] = wk] BY <1>2 DEF StartRetry
  <2>5. worker' \in [Workers -> WorkerStates] BY <2>3, <2>4 DEF TypeOK
  <2> QED BY <1>2, <2>5 DEF StartRetry, TypeOK, stores
<1>3. CASE StartRemind(w)
  <2> DEFINE due == {s \in Suppliers : dispatch[s].reminders < MaxReminders}
             wk == [Idle EXCEPT !.op = "remind",
                       !.todo = {Reminder(s, dispatch[s].reminders + 1) : s \in due}]
  <2>1. ASSUME NEW s \in due
        PROVE  Reminder(s, dispatch[s].reminders + 1) \in Reminders
    <3>1. dispatch[s].reminders \in 0 .. MaxReminders BY DEF TypeOK, Dispatches
    <3>2. dispatch[s].reminders + 1 \in 1 .. MaxReminders BY <3>1
    <3> QED BY <3>2, KeysAreMails
  <2>2. {Reminder(s, dispatch[s].reminders + 1) : s \in due} \subseteq Reminders
    BY <2>1
  <2>3. wk \in WorkerStates BY <2>2 DEF Idle, WorkerStates
  <2>4. worker' = [worker EXCEPT ![w] = wk] BY <1>3 DEF StartRemind
  <2>5. worker' \in [Workers -> WorkerStates] BY <2>3, <2>4 DEF TypeOK
  <2> QED BY <1>3, <2>5 DEF StartRemind, TypeOK, stores
<1> QED BY <1>1, <1>2, <1>3 DEF Start

(* A server action that passes over a row changes only itself.             *)
LEMMA SkipTyped ==
  ASSUME TypeOK, NEW w \in Workers, NEW m \in worker[w].todo, Skip(w, m),
         UNCHANGED <<mail, emitted, ingested>>
  PROVE  TypeOK'
<1>1. worker[w] \in WorkerStates BY DEF TypeOK
<1>2. Continue([worker[w] EXCEPT !.todo = worker[w].todo \ {m}]) \in WorkerStates
  BY <1>1, WorkerUpdates, ContinueIsTyped
<1>3. worker' \in [Workers -> WorkerStates] BY <1>2 DEF Skip, TypeOK
<1> QED BY <1>3 DEF Skip, TypeOK, stores

(* One that takes a row has that row's mail in hand.                       *)
LEMMA TakeTyped ==
  ASSUME TypeOK, NEW w \in Workers, NEW m \in worker[w].todo, NEW n \in Nat,
         Take(w, m, n)
  PROVE  worker' \in [Workers -> WorkerStates]
<1>1. worker[w] \in WorkerStates BY DEF TypeOK
<1>2. [worker[w] EXCEPT !.todo = worker[w].todo \ {m}, !.job = m, !.token = n] \in WorkerStates
  BY <1>1, WorkerUpdates
<1> QED BY <1>2 DEF Take, TypeOK

LEMMA PrepareTyped ==
  ASSUME TypeOK, NEW w \in Workers, Prepare(w)
  PROVE  TypeOK'
<1>1. PICK m \in worker[w].todo :
        TakeInvitation(w, m) \/ PrepareRetry(w, m) \/ PrepareReminder(w, m)
  BY DEF Prepare
<1>2. UNCHANGED <<mail, emitted, ingested>> BY DEF Prepare
<1>3. worker[w] \in WorkerStates BY DEF TypeOK
<1>4. m \in Mails /\ m.to \in Suppliers BY <1>3, WorkerMails, MailFields
<1>5. dispatch[m.to] \in Dispatches BY <1>4 DEF TypeOK
<1>6. CASE TakeInvitation(w, m)
  <2>1. m.no \in Nat BY <1>3, <1>4, <1>6, WorkerMails, MailFields DEF TakeInvitation
  <2>2. worker' \in [Workers -> WorkerStates]
    BY <1>6, <2>1, TakeTyped DEF TakeInvitation
  <2> QED BY <1>2, <1>6, <2>2 DEF TakeInvitation, TypeOK, stores
<1>7. CASE PrepareRetry(w, m) /\ MayRetry(m.to)
  <2>1. m.no \in 1 .. MaxVersion
    BY <1>3, <1>4, <1>7, WorkerMails, MailFields DEF PrepareRetry
  <2>2. Take(w, m, m.no) BY <1>7 DEF PrepareRetry
  <2>3. worker' \in [Workers -> WorkerStates] BY <2>1, <2>2, TakeTyped
  <2> DEFINE a == dispatch[m.to].aged /\ dispatch[m.to].attempts > 0
             d == [dispatch[m.to] EXCEPT !.status = "queued", !.version = m.no,
                                         !.aged = a]
  <2>4. d \in Dispatches
    <3>1. a \in BOOLEAN OBVIOUS
    <3>2. "queued" \in DispatchStatus BY DEF DispatchStatus
    <3> QED BY <1>5, <2>1, <3>1, <3>2, UpdateDispatch
  <2>5. dispatch' = [dispatch EXCEPT ![m.to] = d] BY <1>7, Zenon DEF PrepareRetry
  <2>6. dispatch' \in [Suppliers -> Dispatches] BY <2>4, <2>5 DEF TypeOK
  <2>7. supplier' \in [Suppliers -> SupplierStatus]
    BY <1>7 DEF PrepareRetry, TypeOK, SupplierStatus
  <2>8. UNCHANGED <<campaign, overdue, ledger, quotes, winners, suppressed>>
    BY <1>7 DEF PrepareRetry
  <2> QED BY <1>2, <2>3, <2>6, <2>7, <2>8 DEF TypeOK
<1>8. CASE PrepareReminder(w, m) /\ MayRemind(m.to)
  <2>1. Take(w, m, dispatch[m.to].attempts) BY <1>8 DEF PrepareReminder
  <2>2. dispatch[m.to].attempts \in Nat BY <1>5 DEF Dispatches
  <2>3. worker' \in [Workers -> WorkerStates] BY <2>1, <2>2, TakeTyped
  <2> DEFINE st == IF ledger[m].status \in {"none", "failed"} THEN "queued"
                   ELSE ledger[m].status
  <2>4. ledger' \in [Mails -> Rows]
    <3>1. ledger[m] \in Rows BY <1>4 DEF TypeOK
    <3>2. st \in MessageStatus BY <3>1 DEF Rows, MessageStatus
    <3>3. [ledger[m] EXCEPT !.status = st] \in Rows BY <3>1, <3>2 DEF Rows
    <3>4. ledger' = [ledger EXCEPT ![m].status = st] BY <1>8 DEF PrepareReminder
    <3> QED BY <3>3, <3>4 DEF TypeOK
  <2>5. UNCHANGED <<campaign, overdue, supplier, dispatch, quotes, winners,
                    suppressed>>
    BY <1>8 DEF PrepareReminder
  <2> QED BY <1>2, <2>3, <2>4, <2>5 DEF TypeOK
<1>9. CASE Skip(w, m) BY <1>2, <1>9, SkipTyped
<1> QED BY <1>1, <1>6, <1>7, <1>8, <1>9 DEF PrepareRetry, PrepareReminder

LEMMA SendTyped ==
  ASSUME TypeOK, NEW w \in Workers, Send(w)
  PROVE  TypeOK'
<1>1. worker[w] \in WorkerStates BY DEF TypeOK
<1>2. worker[w].token \in Nat BY <1>1, WorkerMails
<1>3. mail' \in [Mails -> Nat] BY <1>2 DEF Send, TypeOK
<1>4. PICK r \in {"ok", "error"} : worker' = [worker EXCEPT ![w].result = r]
  BY DEF Send
<1>5. worker' \in [Workers -> WorkerStates] BY <1>1, <1>4, WorkerUpdates DEF TypeOK
<1> QED BY <1>3, <1>5 DEF Send, TypeOK, stores

(* The row an attempt leaves, in any status, is a dispatch row.            *)
LEMMA AttemptIsTyped ==
  ASSUME NEW d \in Dispatches, NEW st \in DispatchStatus, NEW n \in Nat,
         NEW c \in BOOLEAN, NEW m \in Invites
  PROVE  /\ [d EXCEPT !.status = st, !.attempts = n, !.aged = FALSE] \in Dispatches
         /\ [[d EXCEPT !.status = st, !.attempts = n, !.aged = FALSE]
               EXCEPT !.provider = m, !.sent = TRUE, !.cooling = c] \in Dispatches
BY DEF Dispatches

LEMMA MarkInvitationTyped ==
  ASSUME TypeOK, NEW w \in Workers, MarkInvitation(w)
  PROVE  TypeOK'
<1> DEFINE wk == worker[w]
           s == wk.job.to
           d == dispatch[s]
           m == Invite(s, d.version)
           c == d.cooling \/ ~ d.sent
<1>1. wk \in WorkerStates BY DEF TypeOK
<1>2. wk.job \in Mails /\ wk.job.kind = "invite"
  BY <1>1, WorkerMails DEF MarkInvitation
<1>3. s \in Suppliers /\ wk.job \in Invites BY <1>2, MailFields
<1>4. d \in Dispatches BY <1>3 DEF TypeOK
<1>5. d.version \in 1 .. MaxVersion /\ d.attempts + 1 \in Nat BY <1>4 DEF Dispatches
<1>6. m \in Mails BY <1>3, <1>5, KeysAreMails DEF Mails
<1>7. ledger[m] \in Rows BY <1>6 DEF TypeOK
<1>8. worker' \in [Workers -> WorkerStates]
  BY <1>1, ContinueIsTyped DEF MarkInvitation, TypeOK
<1>9. "sent" \in DispatchStatus /\ "failed" \in DispatchStatus
  BY DEF DispatchStatus
<1>10. supplier' \in [Suppliers -> SupplierStatus]
  BY <1>3 DEF MarkInvitation, TypeOK, SupplierStatus
<1>11. campaign' \in {"draft", "launched", "collecting", "awarded"}
  BY DEF MarkInvitation, TypeOK, AfterFirstSend
<1>12. ledger' \in [Mails -> Rows]
  <2>1. [status |-> "sent", id |-> wk.job] \in Rows
    BY <1>2 DEF Rows, MessageStatus
  <2>2. [ledger[m] EXCEPT !.status = "failed"] \in Rows
    BY <1>7 DEF Rows, MessageStatus
  <2>3. \/ ledger' = [ledger EXCEPT ![m] = [status |-> "sent", id |-> wk.job]]
        \/ ledger' = [ledger EXCEPT ![m].status = "failed"]
        \/ ledger' = ledger
    BY DEF MarkInvitation
  <2> QED BY <1>6, <2>1, <2>2, <2>3 DEF TypeOK
<1>13. dispatch' \in [Suppliers -> Dispatches]
  <2> DEFINE ok == [[d EXCEPT !.status = "sent", !.attempts = d.attempts + 1,
                              !.aged = FALSE]
                      EXCEPT !.provider = wk.job, !.sent = TRUE, !.cooling = c]
             ko == [d EXCEPT !.status = "failed", !.attempts = d.attempts + 1,
                             !.aged = FALSE]
  <2>1. c \in BOOLEAN OBVIOUS
  <2>2. ok \in Dispatches BY <1>3, <1>4, <1>5, <1>9, <2>1, AttemptIsTyped
  <2>3. ko \in Dispatches BY <1>3, <1>4, <1>5, <1>9, <2>1, AttemptIsTyped
  <2>4. \/ dispatch' = [dispatch EXCEPT ![s] = ok]
        \/ dispatch' = [dispatch EXCEPT ![s] = ko]
        \/ dispatch' = dispatch
    BY Zenon DEF MarkInvitation
  <2> QED BY <1>3, <2>2, <2>3, <2>4 DEF TypeOK
<1> QED BY <1>8, <1>10, <1>11, <1>12, <1>13 DEF MarkInvitation, TypeOK

LEMMA MarkReminderTyped ==
  ASSUME TypeOK, NEW w \in Workers, MarkReminder(w)
  PROVE  TypeOK'
<1> DEFINE wk == worker[w]
           m == wk.job
           d == dispatch[m.to]
           n == RemindersAfter(d.reminders, wk)
           c == d.cooling \/ wk.result = "ok"
<1>1. wk \in WorkerStates BY DEF TypeOK
<1>2. m \in Mails /\ m.kind = "reminder" BY <1>1, WorkerMails DEF MarkReminder
<1>3. m.to \in Suppliers /\ m.no \in 1 .. MaxReminders BY <1>2, MailFields
<1>4. d \in Dispatches BY <1>3 DEF TypeOK
<1>5. worker' \in [Workers -> WorkerStates]
  BY <1>1, ContinueIsTyped DEF MarkReminder, TypeOK
<1>6. ledger' \in [Mails -> Rows]
  <2>1. [status |-> "sent", id |-> m] \in Rows BY <1>2 DEF Rows, MessageStatus
  <2>2. ledger[m] \in Rows BY <1>2 DEF TypeOK
  <2>3. [ledger[m] EXCEPT !.status = "failed"] \in Rows
    BY <2>2 DEF Rows, MessageStatus
  <2>4. \/ ledger' = [ledger EXCEPT ![m] = [status |-> "sent", id |-> m]]
        \/ ledger' = [ledger EXCEPT ![m].status = "failed"]
    BY DEF MarkReminder
  <2> QED BY <1>2, <2>1, <2>3, <2>4 DEF TypeOK
<1>7. dispatch' \in [Suppliers -> Dispatches]
  <2>1. n \in 0 .. MaxReminders BY <1>3, <1>4 DEF RemindersAfter, Dispatches
  <2>2. c \in BOOLEAN OBVIOUS
  <2>3. [d EXCEPT !.reminders = n, !.cooling = c] \in Dispatches
    BY <1>4, <2>1, <2>2 DEF Dispatches
  <2>4. dispatch' = [dispatch EXCEPT ![m.to] =
                       [d EXCEPT !.reminders = n, !.cooling = c]]
    BY Zenon DEF MarkReminder
  <2> QED BY <1>3, <2>3, <2>4 DEF TypeOK
<1> QED BY <1>5, <1>6, <1>7 DEF MarkReminder, TypeOK

LEMMA FaultTyped ==
  ASSUME TypeOK, NEW w \in Workers, Fault(w)
  PROVE  TypeOK'
<1>1. worker[w] \in WorkerStates BY DEF TypeOK
<1>2. Idle \in WorkerStates BY DEF Idle, WorkerStates
<1>3. worker' \in [Workers -> WorkerStates]
  BY <1>1, <1>2, ContinueIsTyped DEF Fault, LoseMark, Crash, TypeOK
<1> QED BY <1>3 DEF Fault, LoseMark, Crash, TypeOK, stores

(* Recovery and the passing of time.                                       *)
LEMMA RecoverTyped ==
  ASSUME TypeOK, NEW s \in Suppliers, Recover(s)
  PROVE  TypeOK'
<1>1. dispatch[s] \in Dispatches /\ "failed" \in DispatchStatus
  BY DEF TypeOK, DispatchStatus
<1>2. [dispatch[s] EXCEPT !.status = "failed"] \in Dispatches
  BY <1>1, UpdateDispatch
<1>3. dispatch' \in [Suppliers -> Dispatches] BY <1>2 DEF Recover, TypeOK
<1> DEFINE st == IF supplier[s] \in {"draft", "queued"} THEN "failed"
                 ELSE supplier[s]
<1>4. st \in SupplierStatus BY DEF TypeOK, SupplierStatus
<1>5. supplier' = [supplier EXCEPT ![s] = st] BY DEF Recover
<1>6. supplier' \in [Suppliers -> SupplierStatus] BY <1>4, <1>5 DEF TypeOK
<1> QED BY <1>3, <1>6 DEF Recover, TypeOK

LEMMA TimeTyped ==
  ASSUME TypeOK, NEW s \in Suppliers, Time(s)
  PROVE  TypeOK'
<1>1. dispatch[s] \in Dispatches BY DEF TypeOK
<1>2. /\ [dispatch[s] EXCEPT !.aged = TRUE] \in Dispatches
      /\ [dispatch[s] EXCEPT !.cooling = FALSE] \in Dispatches
  BY <1>1 DEF Dispatches
<1>3. dispatch' \in [Suppliers -> Dispatches]
  BY <1>2 DEF Time, Age, CooldownEnds, TypeOK
<1> QED BY <1>3 DEF Time, Age, CooldownEnds, TypeOK

LEMMA AnswerTyped ==
  ASSUME TypeOK, NEW s \in Suppliers, NEW st \in {"responded", "declined"},
         Answer(s, st)
  PROVE  /\ supplier' \in [Suppliers -> SupplierStatus]
         /\ dispatch' \in [Suppliers -> Dispatches]
<1>1. st \in DispatchStatus /\ st \in SupplierStatus
  BY DEF DispatchStatus, SupplierStatus
<1>2. dispatch[s] \in Dispatches BY DEF TypeOK
<1>3. [dispatch[s] EXCEPT !.status = st] \in Dispatches BY <1>1, <1>2, UpdateDispatch
<1> QED BY <1>1, <1>3 DEF Answer, TypeOK

(* A quote's history stays a sequence of statuses.                         *)
LEMMA QuoteUpdates ==
  ASSUME NEW q \in Seq(QuoteStatus), NEW st \in QuoteStatus
  PROVE  /\ Append(q, st) \in Seq(QuoteStatus)
         /\ <<st>> \in Seq(QuoteStatus)
         /\ Len(q) > 0 => [q EXCEPT ![Len(q)] = st] \in Seq(QuoteStatus)
         /\ Len(q) > 0 => Revised(q) \in Seq(QuoteStatus)
<1>1. "superseded" \in QuoteStatus /\ "draft" \in QuoteStatus
  BY DEF QuoteStatus
<1>2. ASSUME Len(q) > 0, NEW t \in QuoteStatus
      PROVE  [q EXCEPT ![Len(q)] = t] \in Seq(QuoteStatus)
  BY <1>2
<1>3. Len(q) > 0 => Revised(q) \in Seq(QuoteStatus)
  BY <1>1, <1>2 DEF Revised
<1> QED BY <1>2, <1>3

LEMMA PortalTyped ==
  ASSUME TypeOK, NEW s \in Suppliers, Portal(s)
  PROVE  TypeOK'
<1>1. quotes[s] \in Seq(QuoteStatus) /\ dispatch[s] \in Dispatches BY DEF TypeOK
<1>2. Latest(s) # "none" => Len(quotes[s]) > 0 BY <1>1 DEF Latest
<1>3. {"draft", "submitted", "declined"} \subseteq QuoteStatus BY DEF QuoteStatus
<1>4. CASE OpenInvite(s)
  <2>1. "opened" \in DispatchStatus BY DEF DispatchStatus
  <2>2. [dispatch[s] EXCEPT !.status = "opened", !.opened = TRUE] \in Dispatches
    BY <1>1, <2>1, UpdateDispatch
  <2>3. dispatch' \in [Suppliers -> Dispatches] BY <1>4, <2>2 DEF OpenInvite, TypeOK
  <2> DEFINE st == IF supplier[s] \in {"sent", "delivered"} THEN "opened"
                   ELSE supplier[s]
  <2>4. st \in SupplierStatus BY DEF TypeOK, SupplierStatus
  <2>5. supplier' = [supplier EXCEPT ![s] = st] BY <1>4 DEF OpenInvite
  <2>6. supplier' \in [Suppliers -> SupplierStatus] BY <2>4, <2>5 DEF TypeOK
  <2> QED BY <1>4, <2>3, <2>6 DEF OpenInvite, TypeOK
<1>5. CASE StartDraft(s)
  <2>1. quotes' \in [Suppliers -> Seq(QuoteStatus)]
    BY <1>1, <1>3, <1>5, QuoteUpdates DEF StartDraft, TypeOK
  <2> QED BY <1>5, <2>1 DEF StartDraft, TypeOK
<1>6. CASE SubmitQuote(s)
  <2>1. Len(quotes[s]) > 0 BY <1>2, <1>6 DEF SubmitQuote
  <2>2. quotes' = [quotes EXCEPT ![s] =
                     [quotes[s] EXCEPT ![Len(quotes[s])] = "submitted"]]
    BY <1>6 DEF SubmitQuote
  <2>3. quotes' \in [Suppliers -> Seq(QuoteStatus)]
    BY <1>1, <1>3, <2>1, <2>2, QuoteUpdates DEF TypeOK
  <2> QED BY <1>6, <2>3, AnswerTyped DEF SubmitQuote, Answer, TypeOK
<1>7. CASE Decline(s)
  <2>1. quotes' \in [Suppliers -> Seq(QuoteStatus)]
    <3>1. CASE quotes' = [quotes EXCEPT ![s] = <<"declined">>]
      BY <1>1, <1>3, <3>1, QuoteUpdates DEF TypeOK
    <3>2. CASE Latest(s) = "draft" /\ quotes' = [quotes EXCEPT ![s] =
                 [quotes[s] EXCEPT ![Len(quotes[s])] = "declined"]]
      BY <1>1, <1>2, <1>3, <3>2, QuoteUpdates DEF TypeOK
    <3> QED BY <1>7, <3>1, <3>2 DEF Decline
  <2> QED BY <1>7, <2>1, AnswerTyped DEF Decline, Answer, TypeOK
<1>8. CASE StartRevision(s)
  <2>1. Len(quotes[s]) > 0 BY <1>2, <1>8 DEF StartRevision
  <2>2. quotes' \in [Suppliers -> Seq(QuoteStatus)]
    BY <1>1, <1>3, <1>8, <2>1, QuoteUpdates DEF StartRevision, TypeOK
  <2> QED BY <1>8, <2>2 DEF StartRevision, TypeOK
<1>9. CASE OptOut(s) BY <1>9 DEF OptOut, TypeOK
<1> QED BY <1>4, <1>5, <1>6, <1>7, <1>8, <1>9 DEF Portal

LEMMA IngestTyped ==
  ASSUME TypeOK, NEW e \in Events, Ingest(e)
  PROVE  TypeOK'
<1>1. e.mail \in Mails /\ e.type \in EventType BY DEF Events
<1>2. e.mail.to \in Suppliers BY <1>1, MailFields
<1> DEFINE s == e.mail.to
           d == DispatchAfter(e.mail, e.type)
           rows == {m \in Mails : ledger[m].id = e.mail}
<1>3. d \in DispatchStatus /\ SupplierAfter(e.mail, e.type) \in SupplierStatus
  BY <1>1, StatusAfter
<1>4. ingested' \subseteq Events BY DEF Ingest, TypeOK
<1>5. suppressed' \subseteq Suppliers BY <1>2 DEF Ingest, TypeOK
<1>6. supplier' \in [Suppliers -> SupplierStatus] BY <1>2, <1>3 DEF Ingest, TypeOK
<1>7. dispatch' \in [Suppliers -> Dispatches]
  <2>1. dispatch[s] \in Dispatches BY <1>2 DEF TypeOK
  <2>2. [dispatch[s] EXCEPT !.status = d] \in Dispatches
    BY <1>3, <2>1, UpdateDispatch
  <2>3. dispatch' = dispatch \/ dispatch' = [dispatch EXCEPT ![s].status = d]
    BY DEF Ingest
  <2> QED BY <1>2, <2>2, <2>3 DEF TypeOK
<1>8. ledger' \in [Mails -> Rows]
  <2>1. ASSUME NEW m \in Mails
        PROVE  [ledger[m] EXCEPT !.status = e.type] \in Rows
    <3>1. ledger[m] \in Rows BY DEF TypeOK
    <3>2. e.type \in MessageStatus BY <1>1 DEF EventType, MessageStatus
    <3> QED BY <3>1, <3>2 DEF Rows
  <2>2. \/ ledger' = ledger
        \/ ledger' = [m \in Mails |->
             IF m \in rows THEN [ledger[m] EXCEPT !.status = e.type]
             ELSE ledger[m]]
    BY DEF Ingest
  <2>3. \A m \in Mails : ledger[m] \in Rows BY DEF TypeOK
  <2> HIDE DEF rows
  <2>4. CASE ledger' = ledger BY <2>4 DEF TypeOK
  <2>5. CASE ledger' = [m \in Mails |->
               IF m \in rows THEN [ledger[m] EXCEPT !.status = e.type]
               ELSE ledger[m]]
    BY <2>1, <2>3, <2>5, Zenon
  <2> QED BY <2>2, <2>4, <2>5
<1> QED BY <1>4, <1>5, <1>6, <1>7, <1>8 DEF Ingest, TypeOK

LEMMA NextTyped == TypeOK /\ [Next]_vars => TypeOK'
<1> SUFFICES ASSUME TypeOK, [Next]_vars PROVE TypeOK' OBVIOUS
<1>1. ASSUME NEW w \in Workers, Start(w) PROVE TypeOK' BY <1>1, StartTyped
<1>2. ASSUME NEW w \in Workers, Step(w) PROVE TypeOK'
  BY <1>2, PrepareTyped, SendTyped, MarkInvitationTyped, MarkReminderTyped DEF Step
<1>3. ASSUME NEW w \in Workers, Fault(w) PROVE TypeOK' BY <1>3, FaultTyped
<1>4. ASSUME NEW s \in Suppliers, Recover(s) PROVE TypeOK' BY <1>4, RecoverTyped
<1>5. ASSUME NEW s \in Suppliers, Portal(s) PROVE TypeOK' BY <1>5, PortalTyped
<1>6. ASSUME NEW s \in Suppliers, Time(s) PROVE TypeOK' BY <1>6, TimeTyped
<1>7. ASSUME NEW s \in Suppliers, SuppressElsewhere(s) PROVE TypeOK'
  BY <1>7 DEF SuppressElsewhere, TypeOK
<1>8. ASSUME NEW W \in SUBSET Suppliers, Award(W) PROVE TypeOK'
  BY <1>8 DEF Award, TypeOK, SupplierStatus
<1>9. CASE DeadlinePasses BY <1>9 DEF DeadlinePasses, TypeOK
<1>10. ASSUME NEW m \in Mails, NEW t \in EventType, Emit(m, t) PROVE TypeOK'
  BY <1>10 DEF Emit, TypeOK, Events, stores
<1>11. ASSUME NEW e \in Events, Ingest(e) PROVE TypeOK' BY <1>11, IngestTyped
<1>12. CASE UNCHANGED vars BY <1>12 DEF vars, stores, TypeOK
<1> QED
  BY <1>1, <1>2, <1>3, <1>4, <1>5, <1>6, <1>7, <1>8, <1>9, <1>10, <1>11, <1>12
  DEF Next

(* Whatever the number of suppliers and server actions, the bounds and the *)
(* faults: every status column keeps to its check constraint, every        *)
(* invitation in flight to its version bound and every reminder to the     *)
(* limit of reminders.                                                     *)
THEOREM TypeCorrect == Spec => []TypeOK
<1>1. Init => TypeOK BY InitTyped
<1>2. TypeOK /\ [Next]_vars => TypeOK' BY NextTyped
<1> QED BY <1>1, <1>2, PTL DEF Spec

-----------------------------------------------------------------------------
(* Quotes and awards.  Only the supplier's answers touch a quote and only  *)
(* the award chooses winners; both need an open campaign.                  *)

Answers(s) == StartDraft(s) \/ SubmitQuote(s) \/ Decline(s) \/ StartRevision(s)

(* A step is an answer, an award, or leaves quotes and winners alone and   *)
(* neither makes nor unmakes an award.                                     *)
LEMMA AnswerAwardOrNeither ==
  ASSUME [Next]_vars
  PROVE  \/ \E s \in Suppliers : Answers(s)
         \/ \E W \in (SUBSET Suppliers) \ {{}} : Award(W)
         \/ /\ UNCHANGED <<quotes, winners>>
            /\ (campaign = "awarded") <=> (campaign' = "awarded")
<1> DEFINE Neither == /\ UNCHANGED <<quotes, winners>>
                      /\ (campaign = "awarded") <=> (campaign' = "awarded")
<1>1. ASSUME NEW w \in Workers, Start(w) PROVE Neither
  BY <1>1 DEF Start, Launch, StartRetry, StartRemind, stores
<1>2. ASSUME NEW w \in Workers, Prepare(w) PROVE Neither
  BY <1>2 DEF Prepare, TakeInvitation, PrepareRetry, PrepareReminder, Skip, stores
<1>3. ASSUME NEW w \in Workers, Send(w) PROVE Neither
  BY <1>3 DEF Send, stores
<1>4. ASSUME NEW w \in Workers, MarkInvitation(w) PROVE Neither
  BY <1>4 DEF MarkInvitation, AfterFirstSend
<1>5. ASSUME NEW w \in Workers, MarkReminder(w) PROVE Neither
  BY <1>5 DEF MarkReminder
<1>6. ASSUME NEW w \in Workers, Fault(w) PROVE Neither
  BY <1>6 DEF Fault, LoseMark, Crash, stores
<1>7. ASSUME NEW s \in Suppliers, Recover(s) \/ Time(s) \/ SuppressElsewhere(s)
      PROVE Neither
  BY <1>7 DEF Recover, Time, Age, CooldownEnds, SuppressElsewhere
<1>8. ASSUME NEW s \in Suppliers, OpenInvite(s) \/ OptOut(s) PROVE Neither
  BY <1>8 DEF OpenInvite, OptOut
<1>9. CASE DeadlinePasses BY <1>9 DEF DeadlinePasses
<1>10. ASSUME NEW m \in Mails, NEW t \in EventType, Emit(m, t) PROVE Neither
  BY <1>10 DEF Emit, stores
<1>11. ASSUME NEW e \in Events, Ingest(e) PROVE Neither BY <1>11 DEF Ingest
<1>12. CASE UNCHANGED vars BY <1>12 DEF vars, stores
<1> QED
  BY <1>1, <1>2, <1>3, <1>4, <1>5, <1>6, <1>7, <1>8, <1>9, <1>10, <1>11, <1>12
  DEF Next, Step, Portal, Answers

LEMMA AnswersNeedAnOpenCampaign ==
  ASSUME NEW s \in Suppliers, Answers(s)
  PROVE  /\ campaign \in OpenCampaign /\ campaign' \in OpenCampaign
         /\ UNCHANGED winners
BY DEF Answers, StartDraft, SubmitQuote, Decline, StartRevision, Answer,
       OpenForAnswers, OpenCampaign

(* The award is final: no late send result, webhook event, recovery or     *)
(* portal call reopens the campaign, replaces its winners or changes a     *)
(* quote, in any interleaving and under every fault.                       *)
THEOREM AwardsAreFinal == Spec => AwardIsFinal
<1>1. ASSUME [Next]_vars, campaign = "awarded"
      PROVE  UNCHANGED <<campaign, winners, quotes>>
  <2>1. \A s \in Suppliers : ~ Answers(s)
    BY <1>1, AnswersNeedAnOpenCampaign DEF OpenCampaign
  <2>2. \A W \in SUBSET Suppliers : ~ Award(W) BY <1>1 DEF Award, OpenCampaign
  <2> QED BY <1>1, <2>1, <2>2, AnswerAwardOrNeither
<1>2. [Next]_vars => [campaign = "awarded" => UNCHANGED <<campaign, winners, quotes>>]_vars
  BY <1>1
<1> QED BY <1>2, PTL DEF Spec, AwardIsFinal

(* Winners are suppliers whose latest revision was submitted, and stays    *)
(* submitted: an award and a supplier's revision exclude each other.       *)
THEOREM WinnersStaySubmitted == Spec => []WinnersSubmitted
<1>1. Init => WinnersSubmitted BY DEF Init, WinnersSubmitted
<1>2. ASSUME TypeOK, WinnersSubmitted, [Next]_vars PROVE WinnersSubmitted'
  <2>1. CASE \E s \in Suppliers : Answers(s)
    <3>1. campaign # "awarded" /\ campaign' # "awarded" /\ winners' = winners
      BY <2>1, AnswersNeedAnOpenCampaign DEF OpenCampaign
    <3> QED BY <1>2, <3>1 DEF WinnersSubmitted
  <2>2. ASSUME NEW W \in (SUBSET Suppliers) \ {{}}, Award(W)
        PROVE  WinnersSubmitted'
    <3>1. campaign' = "awarded" /\ winners' = W /\ W # {} /\ quotes' = quotes
      BY <2>2 DEF Award
    <3>2. \A s \in W : Latest(s) = "submitted" BY <2>2 DEF Award, MayWin
    <3>3. \A s \in Suppliers : Latest(s)' = Latest(s) BY <3>1 DEF Latest
    <3>4. \A s \in winners' : Latest(s)' = "submitted" BY <3>1, <3>2, <3>3
    <3> QED BY <3>1, <3>4 DEF WinnersSubmitted
  <2>3. CASE /\ UNCHANGED <<quotes, winners>>
             /\ (campaign = "awarded") <=> (campaign' = "awarded")
    BY <1>2, <2>3 DEF WinnersSubmitted, Latest
  <2> QED BY <1>2, <2>1, <2>2, <2>3, AnswerAwardOrNeither
<1> QED BY <1>1, <1>2, TypeCorrect, PTL DEF Spec

(* A quote whose last revision, and only that, is current.                 *)
LastIsCurrent(q) ==
  \A i \in 1 .. Len(q) : (q[i] = "superseded") <=> (i < Len(q))

(* Each answer leaves one current revision.                                *)
LEMMA AnswersKeepOneCurrent ==
  ASSUME NEW q \in Seq(QuoteStatus), LastIsCurrent(q)
  PROVE  /\ q = <<>> => LastIsCurrent(Append(q, "draft"))
         /\ LastIsCurrent(<<"declined">>)
         /\ q # <<>> => \A st \in {"submitted", "declined"} :
              LastIsCurrent([q EXCEPT ![Len(q)] = st])
         /\ q # <<>> => LastIsCurrent(Revised(q))
<1>1. q = <<>> => LastIsCurrent(Append(q, "draft")) BY DEF LastIsCurrent
<1>2. LastIsCurrent(<<"declined">>) BY DEF LastIsCurrent
<1>3. ASSUME q # <<>>, NEW st \in {"submitted", "declined"}
      PROVE  LastIsCurrent([q EXCEPT ![Len(q)] = st])
  BY <1>3 DEF LastIsCurrent
<1>4. ASSUME q # <<>> PROVE LastIsCurrent(Revised(q))
  <2> DEFINE r == [q EXCEPT ![Len(q)] = "superseded"]
  <2>1. r \in Seq(QuoteStatus) /\ Len(r) = Len(q) BY <1>4 DEF QuoteStatus
  <2>2. \A i \in 1 .. Len(q) : r[i] = "superseded" BY <1>4 DEF LastIsCurrent
  <2>3. Revised(q) = Append(r, "draft") BY DEF Revised
  <2> HIDE DEF r
  <2>4. Len(Revised(q)) = Len(q) + 1 BY <2>1, <2>3
  <2>5. \A i \in 1 .. Len(q) : Revised(q)[i] = "superseded"
    BY <2>1, <2>2, <2>3
  <2>6. Revised(q)[Len(q) + 1] = "draft" BY <2>1, <2>3
  <2> QED BY <2>4, <2>5, <2>6 DEF LastIsCurrent
<1> QED BY <1>1, <1>2, <1>3, <1>4

(* A supplier's quote has one current revision, its last, whatever the     *)
(* number of revisions and in any interleaving of answers with sends,      *)
(* webhook events and the award.                                           *)
THEOREM QuotesHaveOneCurrent == Spec => []OneCurrentQuote
<1>1. Init => OneCurrentQuote BY DEF Init, OneCurrentQuote
<1>2. ASSUME TypeOK, OneCurrentQuote, [Next]_vars PROVE OneCurrentQuote'
  <2>1. ASSUME NEW s \in Suppliers, Answers(s) PROVE OneCurrentQuote'
    <3> DEFINE q == quotes[s]
    <3>1. q \in Seq(QuoteStatus) /\ LastIsCurrent(q)
      BY <1>2 DEF TypeOK, OneCurrentQuote, LastIsCurrent
    <3>2. (Latest(s) = "none") <=> (q = <<>>)
      BY <3>1 DEF Latest, QuoteStatus
    <3>3. PICK r : quotes' = [quotes EXCEPT ![s] = r] /\ LastIsCurrent(r)
      <4>1. CASE StartDraft(s)
        BY <3>1, <3>2, <4>1, AnswersKeepOneCurrent DEF StartDraft, MayStartDraft
      <4>2. CASE SubmitQuote(s)
        <5>1. quotes' = [quotes EXCEPT ![s] = [q EXCEPT ![Len(q)] = "submitted"]]
          BY <4>2 DEF SubmitQuote
        <5>2. q # <<>> BY <3>2, <4>2 DEF SubmitQuote
        <5> QED BY <3>1, <5>1, <5>2, AnswersKeepOneCurrent
      <4>3. CASE Decline(s)
        <5>1. CASE quotes' = [quotes EXCEPT ![s] = <<"declined">>]
          BY <3>1, <5>1, AnswersKeepOneCurrent
        <5>2. CASE /\ Latest(s) = "draft"
                   /\ quotes' = [quotes EXCEPT ![s] =
                                   [q EXCEPT ![Len(q)] = "declined"]]
          BY <3>1, <3>2, <5>2, AnswersKeepOneCurrent
        <5> QED BY <4>3, <5>1, <5>2 DEF Decline
      <4>4. CASE StartRevision(s)
        BY <3>1, <3>2, <4>4, AnswersKeepOneCurrent DEF StartRevision
      <4> QED BY <2>1, <4>1, <4>2, <4>3, <4>4 DEF Answers
    <3>4. \A t \in Suppliers : LastIsCurrent(quotes'[t])
      BY <1>2, <3>3 DEF TypeOK, OneCurrentQuote, LastIsCurrent
    <3> QED BY <3>4 DEF OneCurrentQuote, LastIsCurrent
  <2>2. CASE UNCHANGED quotes BY <1>2, <2>2 DEF OneCurrentQuote
  <2> QED BY <1>2, <2>1, <2>2, AnswerAwardOrNeither DEF Award
<1> QED BY <1>1, <1>2, TypeCorrect, PTL DEF Spec

-----------------------------------------------------------------------------
(* What a supplier's row says of its answer.                               *)

Told == {"responded", "declined", "awarded"}

(* No send, webhook event or recovery makes a row say that its supplier    *)
(* answered, or won.                                                       *)
LEMMA OnlyAnswersTell ==
  ASSUME TypeOK, [Next]_vars, NEW s \in Suppliers
  PROVE  \/ \E t \in Suppliers : Answers(t)
         \/ \E W \in (SUBSET Suppliers) \ {{}} : Award(W)
         \/ supplier'[s] \in Told => supplier'[s] = supplier[s]
<1> DEFINE Quiet == supplier'[s] \in Told => supplier'[s] = supplier[s]
<1>1. supplier \in [Suppliers -> SupplierStatus] BY DEF TypeOK
<1>2. CASE UNCHANGED supplier BY <1>2
<1>3. ASSUME NEW t \in Suppliers, NEW st, st \in Told => st = supplier[t],
             supplier' = [supplier EXCEPT ![t] = st]
      PROVE  Quiet
  BY <1>1, <1>3
<1>4. ASSUME NEW w \in Workers, Start(w) PROVE Quiet
  BY <1>2, <1>4 DEF Start, Launch, StartRetry, StartRemind, stores, Told
<1>5. ASSUME NEW w \in Workers, Prepare(w) PROVE Quiet
  <2>1. ASSUME NEW m \in worker[w].todo, PrepareRetry(w, m), ~ UNCHANGED supplier
        PROVE  Quiet
    <3>1. worker[w] \in WorkerStates BY DEF TypeOK
    <3>2. m.to \in Suppliers BY <3>1, WorkerMails, MailFields
    <3>3. supplier' = [supplier EXCEPT ![m.to] = "queued"]
      BY <2>1 DEF PrepareRetry, Skip, stores
    <3> QED BY <1>3, <3>2, <3>3 DEF Told
  <2> QED
    BY <1>2, <1>5, <2>1
    DEF Prepare, TakeInvitation, PrepareReminder, Skip, stores
<1>6. ASSUME NEW w \in Workers, MarkInvitation(w) PROVE Quiet
  <2>1. worker[w] \in WorkerStates BY DEF TypeOK
  <2>2. worker[w].job.to \in Suppliers
    BY <1>6, <2>1, WorkerMails, MailFields DEF MarkInvitation
  <2>3. \/ supplier' = [supplier EXCEPT ![worker[w].job.to] = "sent"]
        \/ supplier' = [supplier EXCEPT ![worker[w].job.to] = "failed"]
        \/ UNCHANGED supplier
    BY <1>6 DEF MarkInvitation
  <2> QED BY <1>2, <1>3, <2>2, <2>3 DEF Told
<1>7. ASSUME NEW w \in Workers, Send(w) \/ MarkReminder(w) \/ Fault(w) PROVE Quiet
  BY <1>2, <1>7 DEF Send, MarkReminder, Fault, LoseMark, Crash, stores
<1>8. ASSUME NEW t \in Suppliers, Recover(t) \/ OpenInvite(t) PROVE Quiet
  <2>1. \/ supplier' = [supplier EXCEPT ![t] =
                          IF supplier[t] \in {"draft", "queued"} THEN "failed"
                          ELSE supplier[t]]
        \/ supplier' = [supplier EXCEPT ![t] =
                          IF supplier[t] \in {"sent", "delivered"} THEN "opened"
                          ELSE supplier[t]]
    BY <1>8 DEF Recover, OpenInvite
  <2> QED BY <1>3, <2>1 DEF Told
<1>9. ASSUME NEW t \in Suppliers, OptOut(t) \/ Time(t) \/ SuppressElsewhere(t)
      PROVE  Quiet
  BY <1>2, <1>9 DEF OptOut, Time, Age, CooldownEnds, SuppressElsewhere
<1>10. ASSUME NEW e \in Events, Ingest(e) PROVE Quiet
  <2>1. e.mail \in Mails /\ e.type \in EventType BY DEF Events
  <2>2. e.mail.to \in Suppliers BY <2>1, MailFields
  <2>3. SupplierAfter(e.mail, e.type) \in Told =>
          SupplierAfter(e.mail, e.type) = supplier[e.mail.to]
    BY <2>1 DEF SupplierAfter, EventType, Told
  <2>4. \/ UNCHANGED supplier
        \/ supplier' = [supplier EXCEPT ![e.mail.to] = SupplierAfter(e.mail, e.type)]
    BY <1>10 DEF Ingest
  <2> QED BY <1>2, <1>3, <2>2, <2>3, <2>4
<1>11. ASSUME \/ DeadlinePasses
              \/ \E m \in Mails, t \in EventType : Emit(m, t)
              \/ UNCHANGED vars
       PROVE  Quiet
  BY <1>2, <1>11 DEF DeadlinePasses, Emit, vars, stores
<1> HIDE DEF Quiet
<1>12. \/ \E t \in Suppliers : Answers(t)
       \/ \E W \in (SUBSET Suppliers) \ {{}} : Award(W)
       \/ Quiet
  BY <1>4, <1>5, <1>6, <1>7, <1>8, <1>9, <1>10, <1>11
  DEF Next, Step, Portal, Answers
<1> QED BY <1>12 DEF Quiet

(* What supplier s answers, its row says.                                  *)
LEMMA AnswersAreTold ==
  ASSUME TypeOK, StatusHasAnswer, NEW s \in Suppliers, Answers(s)
  PROVE  StatusHasAnswer'
<1> DEFINE q == quotes[s]
<1>1. /\ q \in Seq(QuoteStatus) /\ quotes \in [Suppliers -> Seq(QuoteStatus)]
      /\ supplier \in [Suppliers -> SupplierStatus]
  BY DEF TypeOK
<1>2. (Latest(s) = "none") <=> (q = <<>>)
  BY <1>1 DEF Latest, QuoteStatus
<1>3. /\ supplier[s] = "declined" => Latest(s) = "declined"
      /\ supplier[s] = "awarded" => s \in winners
      /\ supplier[s] = "responded" =>
           Latest(s) = "submitted" \/ (Latest(s) = "draft" /\ Len(q) > 1)
  BY DEF StatusHasAnswer
<1>4. winners' = winners BY AnswersNeedAnOpenCampaign
<1>5. ASSUME NEW r \in Seq(QuoteStatus), NEW st \in SupplierStatus, r # <<>>,
             quotes' = [quotes EXCEPT ![s] = r],
             supplier' = [supplier EXCEPT ![s] = st],
             st = "declined" => r[Len(r)] = "declined",
             st = "awarded" => s \in winners,
             st = "responded" =>
               r[Len(r)] = "submitted" \/ (r[Len(r)] = "draft" /\ Len(r) > 1)
      PROVE  StatusHasAnswer'
  <2>1. /\ quotes'[s] = r /\ supplier'[s] = st
        /\ \A t \in Suppliers :
             t # s => quotes'[t] = quotes[t] /\ supplier'[t] = supplier[t]
    BY <1>1, <1>5
  <2>2. Latest(s)' = r[Len(r)] BY <1>5, <2>1 DEF Latest
  <2>3. \A t \in Suppliers : t # s => Latest(t)' = Latest(t)
    BY <2>1 DEF Latest
  <2> QED BY <1>4, <1>5, <2>1, <2>2, <2>3 DEF StatusHasAnswer
<1>6. ASSUME NEW st \in {"submitted", "declined"}, q # <<>>
      PROVE  /\ [q EXCEPT ![Len(q)] = st] \in Seq(QuoteStatus)
             /\ [q EXCEPT ![Len(q)] = st] # <<>>
             /\ Len([q EXCEPT ![Len(q)] = st]) = Len(q)
             /\ [q EXCEPT ![Len(q)] = st][Len(q)] = st
  BY <1>1, <1>6 DEF QuoteStatus
<1>7. CASE StartDraft(s)
  <2>1. /\ quotes' = [quotes EXCEPT ![s] = Append(q, "draft")] /\ q = <<>>
        /\ supplier' = [supplier EXCEPT ![s] = supplier[s]]
    BY <1>1, <1>2, <1>7 DEF StartDraft, MayStartDraft
  <2>2. Append(q, "draft") \in Seq(QuoteStatus) /\ Append(q, "draft") # <<>>
    BY <1>1 DEF QuoteStatus
  <2>3. supplier[s] \notin {"declined", "responded"}
    BY <1>2, <1>3, <2>1
  <2> QED BY <1>1, <1>3, <1>5, <2>1, <2>2, <2>3
<1>8. CASE SubmitQuote(s)
  <2>1. /\ quotes' = [quotes EXCEPT ![s] = [q EXCEPT ![Len(q)] = "submitted"]]
        /\ supplier' = [supplier EXCEPT ![s] = "responded"] /\ q # <<>>
    BY <1>2, <1>8 DEF SubmitQuote, Answer
  <2>2. "responded" \in SupplierStatus BY DEF SupplierStatus
  <2> QED BY <1>5, <1>6, <2>1, <2>2
<1>9. CASE Decline(s)
  <2>1. supplier' = [supplier EXCEPT ![s] = "declined"]
    BY <1>9 DEF Decline, Answer
  <2>2. "declined" \in SupplierStatus /\ <<"declined">> \in Seq(QuoteStatus)
    BY DEF SupplierStatus, QuoteStatus
  <2>3. CASE quotes' = [quotes EXCEPT ![s] = <<"declined">>]
    BY <1>5, <2>1, <2>2, <2>3
  <2>4. CASE /\ quotes' = [quotes EXCEPT ![s] = [q EXCEPT ![Len(q)] = "declined"]]
             /\ q # <<>>
    BY <1>5, <1>6, <2>1, <2>2, <2>4
  <2> QED BY <1>2, <1>9, <2>3, <2>4 DEF Decline
<1>10. CASE StartRevision(s)
  <2>1. /\ quotes' = [quotes EXCEPT ![s] = Revised(q)] /\ q # <<>>
        /\ Latest(s) = "submitted"
        /\ supplier' = [supplier EXCEPT ![s] = supplier[s]]
    BY <1>1, <1>2, <1>10 DEF StartRevision
  <2>2. /\ Revised(q) \in Seq(QuoteStatus) /\ Len(Revised(q)) = Len(q) + 1
        /\ Revised(q)[Len(q) + 1] = "draft"
    <3> DEFINE p == [q EXCEPT ![Len(q)] = "superseded"]
    <3>1. p \in Seq(QuoteStatus) /\ Len(p) = Len(q)
      BY <1>1, <2>1 DEF QuoteStatus
    <3>2. Revised(q) = Append(p, "draft") BY DEF Revised
    <3> HIDE DEF p
    <3> QED BY <3>1, <3>2 DEF QuoteStatus
  <2>3. Len(q) \in Nat /\ Len(q) > 0 BY <1>1, <2>1
  <2> HIDE DEF q
  <2>4. Revised(q) # <<>> /\ Len(Revised(q)) > 1 BY <2>2, <2>3
  <2>5. supplier[s] # "declined" BY <1>3, <2>1
  <2> QED BY <1>1, <1>3, <1>5, <2>1, <2>2, <2>4, <2>5
<1> QED BY <1>7, <1>8, <1>9, <1>10 DEF Answers

(* A supplier's row says what the supplier answered, and "awarded" of      *)
(* winners alone: no late send result, no retry, no webhook event and no   *)
(* recovery says otherwise.                                                *)
THEOREM RowsSayWhatWasAnswered == Spec => []StatusHasAnswer
<1>1. Init => StatusHasAnswer BY DEF Init, StatusHasAnswer
<1>2. ASSUME TypeOK, StatusHasAnswer, [Next]_vars PROVE StatusHasAnswer'
  <2>1. ASSUME NEW W \in (SUBSET Suppliers) \ {{}}, Award(W)
        PROVE  StatusHasAnswer'
    <3>1. /\ winners' = W /\ quotes' = quotes
          /\ supplier' = [s \in Suppliers |->
               IF s \in W THEN "awarded"
               ELSE IF supplier[s] \in Closed THEN supplier[s] ELSE "not_awarded"]
      BY <2>1 DEF Award
    <3>2. \A s \in Suppliers : Latest(s)' = Latest(s) BY <3>1 DEF Latest
    <3> QED BY <1>2, <3>1, <3>2 DEF StatusHasAnswer, Closed
  <2>2. CASE /\ UNCHANGED <<quotes, winners>>
             /\ \A s \in Suppliers :
                  supplier'[s] \in Told => supplier'[s] = supplier[s]
    <3>1. \A s \in Suppliers : Latest(s)' = Latest(s) BY <2>2 DEF Latest
    <3> QED BY <1>2, <2>2, <3>1 DEF StatusHasAnswer, Told
  <2> QED
    BY <1>2, <2>1, <2>2, AnswersAreTold, OnlyAnswersTell, AnswerAwardOrNeither
<1> QED BY <1>1, <1>2, TypeCorrect, PTL DEF Spec

-----------------------------------------------------------------------------
(* Suppression.                                                            *)

(* A server action takes a mail in hand by preparing it only.              *)
LEMMA OnlyPreparedIsTaken ==
  ASSUME TypeOK, [Next]_vars, NEW w \in Workers,
         worker[w].job = NoMail, worker'[w].job # NoMail
  PROVE  Prepare(w)
<1> DEFINE Taken == worker'[w].job # NoMail => Prepare(w)
<1>1. worker \in [Workers -> WorkerStates] /\ \A v \in Workers : worker[v] \in WorkerStates
  BY DEF TypeOK
<1>2. CASE worker'[w] = worker[w] BY <1>2
<1>3. ASSUME NEW v \in Workers, NEW wk, worker' = [worker EXCEPT ![v] = wk],
             wk.job = NoMail \/ wk.job = worker[v].job \/ Prepare(v)
      PROVE  Taken
  BY <1>1, <1>3
<1>4. ASSUME NEW wk \in WorkerStates
      PROVE  Continue(wk).job = NoMail
  BY DEF Continue, Idle, WorkerStates
<1>5. ASSUME NEW v \in Workers, Start(v) PROVE Taken
  <2>1. PICK op, todo :
          worker' = [worker EXCEPT ![v] = [Idle EXCEPT !.op = op, !.todo = todo]]
    BY <1>5 DEF Start, Launch, StartRetry, StartRemind
  <2>2. [Idle EXCEPT !.op = op, !.todo = todo].job = NoMail BY DEF Idle
  <2> QED BY <1>3, <2>1, <2>2
<1>6. ASSUME NEW v \in Workers, Prepare(v) PROVE Taken
  <2>1. PICK m \in worker[v].todo : Skip(v, m) \/ \E n : Take(v, m, n)
    BY <1>6 DEF Prepare, TakeInvitation, PrepareRetry, PrepareReminder
  <2>2. CASE Skip(v, m) BY <1>3, <1>6, <2>2 DEF Skip
  <2>3. ASSUME NEW n, Take(v, m, n) PROVE Taken
    BY <1>3, <1>6, <2>3 DEF Take
  <2> QED BY <2>1, <2>2, <2>3
<1>7. ASSUME NEW v \in Workers, Send(v) PROVE Taken
  <2>1. PICK r : worker' = [worker EXCEPT ![v] = [worker[v] EXCEPT !.result = r]]
    BY <1>7 DEF Send
  <2>2. [worker[v] EXCEPT !.result = r].job = worker[v].job
    BY <1>1 DEF WorkerStates
  <2> QED BY <1>3, <2>1, <2>2
<1>8. ASSUME NEW v \in Workers, MarkInvitation(v) \/ MarkReminder(v) \/ LoseMark(v)
      PROVE  Taken
  <2>1. worker' = [worker EXCEPT ![v] = Continue(worker[v])]
    BY <1>8 DEF MarkInvitation, MarkReminder, LoseMark
  <2> QED BY <1>1, <1>3, <1>4, <2>1
<1>9. ASSUME NEW v \in Workers, Crash(v) PROVE Taken
  <2>1. Idle.job = NoMail BY DEF Idle
  <2> QED BY <1>3, <1>9, <2>1 DEF Crash
<1>10. ASSUME NEW s \in Suppliers,
              Recover(s) \/ Portal(s) \/ Time(s) \/ SuppressElsewhere(s)
       PROVE  UNCHANGED worker
  BY <1>10 DEF Recover, Portal, OpenInvite, StartDraft, SubmitQuote, Decline,
               StartRevision, Answer, OptOut, Time, Age, CooldownEnds,
               SuppressElsewhere
<1> HIDE DEF Taken
<1>11. Taken
  BY <1>2, <1>5, <1>6, <1>7, <1>8, <1>9, <1>10
  DEF Next, Step, Fault, Award, DeadlinePasses, Emit, Ingest, vars, Taken
<1> QED BY <1>11 DEF Taken

(* No retry and no reminder takes a suppressed address in hand.            *)
LEMMA SuppressedAreNotPrepared ==
  ASSUME TypeOK, [Next]_vars, NEW w \in Workers, worker[w].job = NoMail,
         worker'[w].job # NoMail, worker[w].op # "launch"
  PROVE  worker'[w].job.to \notin suppressed
<1>1. worker[w] \in WorkerStates /\ worker \in [Workers -> WorkerStates]
  BY DEF TypeOK
<1>2. PICK m \in worker[w].todo : PrepareRetry(w, m) \/ PrepareReminder(w, m)
  BY OnlyPreparedIsTaken DEF Prepare, TakeInvitation
<1>3. ~ Skip(w, m)
  <2>1. [worker[w] EXCEPT !.todo = worker[w].todo \ {m}] \in WorkerStates
    BY <1>1, WorkerUpdates
  <2>2. Continue([worker[w] EXCEPT !.todo = worker[w].todo \ {m}]).job = NoMail
    BY <2>1 DEF Continue, Idle, WorkerStates
  <2> QED BY <1>1, <2>2 DEF Skip
<1>4. m.to \notin suppressed /\ \E n : Take(w, m, n)
  BY <1>2, <1>3 DEF PrepareRetry, PrepareReminder, MayRetry, MayRemind
<1>5. worker'[w].job = m
  BY <1>1, <1>4 DEF Take, WorkerStates
<1> QED BY <1>4, <1>5
===============================================================================
