----------------------------- MODULE RfqDelivery -----------------------------
(***************************************************************************)
(* The RFQ Hub's governed dispatch engine: how the invitations of one RFQ  *)
(* campaign leave the buyer's server actions, pass through the e-mail      *)
(* provider, come back as webhook events and meet the suppliers' answers.  *)
(*                                                                         *)
(* Every database function is one transaction that locks the rows it       *)
(* reads, so it is one action.  A server action (launchBuyerRfq,           *)
(* retryFailedBuyerRfq, sendBuyerRfqReminders) is not a transaction: it    *)
(* loops over suppliers and for each of them prepares, calls the provider  *)
(* and records the result.  It is a worker that takes one step at a time   *)
(* and may be killed between any two.                                      *)
(*                                                                         *)
(* A supplier is one row of buyer_rfq_suppliers, and so one dispatch.  The *)
(* provider returns the same message identifier for the same idempotency   *)
(* key, so an identifier is written as the mail (the key) it names.        *)
(* Negotiation mails are not created in this module.                       *)
(***************************************************************************)
EXTENDS Naturals, Sequences, FiniteSets

CONSTANTS
  Suppliers,     \* the suppliers of the campaign
  Workers,       \* server actions that may run at the same time
  NoMail,        \* "no provider message"
  MaxVersion,    \* bound: versions of an invitation
  MaxReminders,  \* the code's limit of reminders per dispatch
  MaxRevisions,  \* bound: revisions of a quote, 0 for no answers
  MaxEvents,     \* bound: webhook events of the provider
  Faults         \* which faults the environment may produce

ASSUME DeliveryAssumptions ==
  /\ IsFiniteSet(Suppliers) /\ Suppliers # {}
  /\ MaxVersion \in Nat \ {0}
  /\ MaxReminders \in Nat \ {0}
  /\ MaxRevisions \in Nat
  /\ MaxEvents \in Nat
  /\ Faults \subseteq {"crash", "lostMark", "lostReply", "refusal"}

VARIABLES
  campaign,    \* status of the campaign
  overdue,     \* has the campaign's due date passed?
  supplier,    \* status of each supplier row
  dispatch,    \* the dispatch row of each supplier
  ledger,      \* buyer_rfq_dispatch_messages, one row per idempotency key
  quotes,      \* the status of each revision of each supplier's quote
  winners,     \* suppliers with an award allocation
  suppressed,  \* suppliers whose address is on the suppression list
  worker,      \* the running server actions
  mail,        \* what the provider accepted: the link version of each mail
  emitted,     \* webhook events the provider has to deliver
  ingested     \* webhook events recorded in buyer_rfq_webhook_events

stores == <<campaign, overdue, supplier, dispatch, ledger, quotes, winners,
            suppressed>>
vars == <<stores, worker, mail, emitted, ingested>>

-----------------------------------------------------------------------------
(* A mail is named by its idempotency key: dispatch, kind and number.      *)
Invites == [to : Suppliers, kind : {"invite"}, no : 1 .. MaxVersion]
Reminders == [to : Suppliers, kind : {"reminder"}, no : 1 .. MaxReminders]
Mails == Invites \cup Reminders
ASSUME NoMailAssumption == NoMail \notin Mails

Invite(s, n) == [to |-> s, kind |-> "invite", no |-> n]
Reminder(s, n) == [to |-> s, kind |-> "reminder", no |-> n]

OpenCampaign == {"launched", "collecting"}
DeadLink == {"none", "failed", "bounced", "complained"}
Remindable == {"sent", "delivered", "opened", "delayed"}
Closed == {"declined", "bounced", "complained", "failed"}

SupplierStatus == {"draft", "queued", "sent", "delivered", "opened",
                   "responded", "declined", "bounced", "complained",
                   "failed", "awarded", "not_awarded"}
DispatchStatus == {"none", "queued", "sent", "delivered", "opened", "delayed",
                   "responded", "declined", "bounced", "complained", "failed"}
MessageStatus == {"none", "queued", "sent", "delivered", "delayed", "bounced",
                  "complained", "failed"}
QuoteStatus == {"draft", "submitted", "declined", "superseded"}
EventType == {"sent", "delivered", "delayed", "bounced", "complained",
              "failed"}
Events == [mail : Mails, type : EventType]

(* version: the link and idempotency key of the invitation.  provider: the *)
(* provider message of the last successful attempt.  sent, opened: sent_at *)
(* and opened_at are set.  cooling: less than 24 hours since sent_at or    *)
(* the last reminder.  aged: more than 15 minutes since last_attempt_at,   *)
(* or since queued_at where no attempt was ever recorded.                  *)
Dispatches ==
  [status : DispatchStatus, version : 1 .. MaxVersion, attempts : Nat,
   provider : Invites \cup {NoMail}, reminders : 0 .. MaxReminders,
   sent : BOOLEAN, opened : BOOLEAN, cooling : BOOLEAN, aged : BOOLEAN]
NewDispatch ==
  [status |-> "queued", version |-> 1, attempts |-> 0, provider |-> NoMail,
   reminders |-> 0, sent |-> FALSE, opened |-> FALSE, cooling |-> FALSE,
   aged |-> FALSE]

Rows == [status : MessageStatus, id : Mails \cup {NoMail}]
NoRow == [status |-> "none", id |-> NoMail]

(* op: which server action runs.  todo: the rows it read and has not yet   *)
(* handled.  job: the mail it is working on, with link version token.      *)
(* result: what the provider call came back with.                          *)
WorkerStates ==
  LET Works(ops, mails) ==
        [op : ops, todo : SUBSET mails, job : mails \cup {NoMail},
         token : Nat, result : {"none", "ok", "error"}]
  IN  Works({"idle", "launch", "retry"}, Invites)
        \cup Works({"remind"}, Reminders)
Idle == [op |-> "idle", todo |-> {}, job |-> NoMail, token |-> 0,
         result |-> "none"]

Latest(s) == IF quotes[s] = <<>> THEN "none" ELSE quotes[s][Len(quotes[s])]
Accepted(m) == mail[m] # 0

(* A server action holds a mail of this kind to s, prepared or still to do. *)
Engaged(s, kind) ==
  \E w \in Workers, m \in Mails :
    /\ m.to = s /\ m.kind = kind
    /\ m \in worker[w].todo \cup {worker[w].job}

Init ==
  /\ campaign = "draft"
  /\ overdue = FALSE
  /\ supplier = [s \in Suppliers |-> "draft"]
  /\ dispatch = [s \in Suppliers |-> [NewDispatch EXCEPT !.status = "none"]]
  /\ ledger = [m \in Mails |-> NoRow]
  /\ quotes = [s \in Suppliers |-> <<>>]
  /\ winners = {}
  /\ suppressed = {}
  /\ worker = [w \in Workers |-> Idle]
  /\ mail = [m \in Mails |-> 0]
  /\ emitted = {}
  /\ ingested = {}

-----------------------------------------------------------------------------
(* The buyer's server actions.                                             *)

(* mutant: the first failed mail ends the loop *)
StopAtError(wk) == IF wk.todo = {} \/ wk.result = "error" THEN Idle
                   ELSE [wk EXCEPT !.job = NoMail, !.token = 0,
                                   !.result = "none"]

(* A worker that has handled all its rows is done.                         *)
Continue(wk) == IF wk.todo = {} THEN Idle
                ELSE [wk EXCEPT !.job = NoMail, !.token = 0, !.result = "none"]

Launch(w) ==
  /\ worker[w] = Idle
  /\ campaign = "draft"
  /\ \A s \in Suppliers : supplier[s] = "draft" /\ s \notin suppressed
  /\ campaign' = "launched"
  /\ supplier' = [s \in Suppliers |-> "queued"]
  /\ dispatch' = [s \in Suppliers |-> NewDispatch]
  /\ worker' = [worker EXCEPT ![w] =
       [Idle EXCEPT !.op = "launch", !.todo = {Invite(s, 1) : s \in Suppliers}]]
  /\ UNCHANGED <<overdue, ledger, quotes, winners, suppressed, mail, emitted,
                 ingested>>

(* A retry is numbered by the attempts recorded so far, not by the last    *)
(* link: an attempt nobody recorded is repeated under its own key.         *)
NextVersion(s) == dispatch[s].version + 1  \* mutant: number from the link
NextAttempt(s) == dispatch[s].attempts + 1

(* retryFailedBuyerRfq reads the failed rows once; the campaign's status   *)
(* is not looked at.                                                       *)
StartRetry(w) ==
  LET failed == {s \in Suppliers : /\ dispatch[s].status = "failed"
                                   /\ dispatch[s].attempts < MaxVersion}
  IN  /\ worker[w] = Idle
      /\ failed # {}
      /\ worker' = [worker EXCEPT ![w] =
           [Idle EXCEPT !.op = "retry",
              !.todo = {Invite(s, NextAttempt(s)) : s \in failed}]]
      /\ UNCHANGED <<stores, mail, emitted, ingested>>

(* A dispatch at its limit of reminders is passed over.                    *)
StartRemind(w) ==
  LET due == {s \in Suppliers : dispatch[s].reminders < MaxReminders} IN
  /\ worker[w] = Idle
  /\ campaign \in OpenCampaign
  /\ due # {}
  /\ worker' = [worker EXCEPT ![w] =
       [Idle EXCEPT !.op = "remind",
          !.todo = {Reminder(s, dispatch[s].reminders + 1) : s \in due}]]
  /\ UNCHANGED <<stores, mail, emitted, ingested>>

(* A row is taken in hand, or passed over.                                 *)
Take(w, m, token) ==
  LET left == worker[w].todo \ {m}
  IN  worker' = [worker EXCEPT ![w] = [@ EXCEPT !.todo = left, !.job = m,
                                                !.token = token]]

Skip(w, m) ==
  LET left == worker[w].todo \ {m}
  IN  /\ worker' = [worker EXCEPT ![w] = Continue([@ EXCEPT !.todo = left])]
      /\ UNCHANGED stores

(* The launch transaction already prepared its invitations.                *)
TakeInvitation(w, m) ==
  /\ worker[w].op = "launch"
  /\ Take(w, m, m.no)
  /\ UNCHANGED stores

MayRetry(s) == dispatch[s].status = "failed" /\ s \notin suppressed

PrepareRetry(w, m) ==
  LET s == m.to
      aged == dispatch[s].aged /\ dispatch[s].attempts > 0
  IN
  /\ worker[w].op = "retry"
  /\ \/ /\ MayRetry(s)
        /\ dispatch' = [dispatch EXCEPT ![s] =
             [@ EXCEPT !.status = "queued", !.version = m.no, !.aged = aged]]
        /\ supplier' = [supplier EXCEPT ![s] = "queued"]
        /\ Take(w, m, m.no)
        /\ UNCHANGED <<campaign, overdue, ledger, quotes, winners, suppressed>>
     \/ ~ MayRetry(s) /\ Skip(w, m)

MayRemind(s) ==
  /\ campaign \in OpenCampaign /\ ~ overdue
  /\ supplier[s] \in {"sent", "delivered", "opened"}
  /\ dispatch[s].status \in Remindable
  /\ dispatch[s].reminders < MaxReminders
  /\ dispatch[s].sent /\ ~ dispatch[s].cooling
  /\ s \notin suppressed

(* The reminder's link is rebuilt from the attempt counter.                *)
PrepareReminder(w, m) ==
  LET s == m.to IN
  /\ worker[w].op = "remind"
  /\ \/ /\ MayRemind(s)
        /\ ledger' = [ledger EXCEPT ![m].status =
             IF @ \in {"none", "failed"} THEN "queued" ELSE @]
        /\ Take(w, m, dispatch[s].attempts)
        /\ UNCHANGED <<campaign, overdue, supplier, dispatch, quotes, winners,
                       suppressed>>
     \/ ~ MayRemind(s) /\ Skip(w, m)

Prepare(w) ==
  /\ worker[w].op # "idle" /\ worker[w].job = NoMail
  /\ \E m \in worker[w].todo :
       TakeInvitation(w, m) \/ PrepareRetry(w, m) \/ PrepareReminder(w, m)
  /\ UNCHANGED <<mail, emitted, ingested>>

(* The provider answers a repeated key with the mail it already accepted,  *)
(* and refuses a repeated key with another body.                           *)
Send(w) ==
  LET wk == worker[w]
      Return(r) == worker' = [worker EXCEPT ![w].result = r]
  IN  /\ wk.job # NoMail /\ wk.result = "none"
      /\ \/ /\ mail[wk.job] \in {0, wk.token}
            /\ mail' = [mail EXCEPT ![wk.job] = wk.token]
            /\ \/ Return("ok")
               \/ "lostReply" \in Faults /\ Return("error")
         \/ /\ "refusal" \in Faults \/ mail[wk.job] \notin {0, wk.token}
            /\ Return("error")
            /\ UNCHANGED mail
      /\ UNCHANGED <<stores, emitted, ingested>>

(* provider_message_id is unique in the ledger.                            *)
NeverRecorded(id, m) == FALSE  \* mutant: no unique constraint
RecordedElsewhere(id, m) == \E o \in Mails \ {m} : ledger[o].id = id

AlwaysCollecting(c) == "collecting"  \* mutant: the status is not looked at
AfterFirstSend(c) == IF c = "launched" THEN "collecting" ELSE c

(* The result of an invitation is recorded under the dispatch's current    *)
(* key, whatever the dispatch's status is by now; a provider message that  *)
(* another row already has fails the transaction, which nobody notices.    *)
MarkInvitation(w) ==
  LET wk == worker[w]
      s == wk.job.to
      m == Invite(s, dispatch[s].version)
      taken == RecordedElsewhere(wk.job, m)
      cooling == dispatch[s].cooling \/ ~ dispatch[s].sent
      tried == dispatch[s].attempts + 1
      Attempt(st) == [dispatch[s] EXCEPT !.status = st, !.attempts = tried,
                                         !.aged = FALSE]
  IN  /\ wk.job # NoMail /\ wk.job.kind = "invite"
      /\ \/ /\ wk.result = "ok" /\ ~ taken
            /\ ledger' = [ledger EXCEPT ![m] = [status |-> "sent", id |-> wk.job]]
            /\ dispatch' = [dispatch EXCEPT ![s] =
                 [Attempt("sent") EXCEPT !.provider = wk.job, !.sent = TRUE,
                                         !.cooling = cooling]]
            /\ supplier' = [supplier EXCEPT ![s] = "sent"]
            /\ campaign' = AfterFirstSend(campaign)
         \/ /\ wk.result = "error"
            /\ ledger' = [ledger EXCEPT ![m].status = "failed"]
            /\ dispatch' = [dispatch EXCEPT ![s] = Attempt("failed")]
            /\ supplier' = [supplier EXCEPT ![s] = "failed"]
            /\ UNCHANGED campaign
         \/ /\ wk.result = "ok" /\ taken
            /\ UNCHANGED <<ledger, dispatch, supplier, campaign>>
      /\ worker' = [worker EXCEPT ![w] = Continue(@)]
      /\ UNCHANGED <<overdue, quotes, winners, suppressed, mail, emitted,
                     ingested>>

OneMore(count, wk) == count + 1  \* mutant: counts attempts
RemindersAfter(count, wk) ==
  IF wk.result = "ok" /\ wk.job.no > count THEN wk.job.no ELSE count

MarkReminder(w) ==
  LET wk == worker[w]
      s == wk.job.to
      reminders == RemindersAfter(dispatch[s].reminders, wk)
      cooling == dispatch[s].cooling \/ wk.result = "ok"
  IN  /\ wk.job # NoMail /\ wk.job.kind = "reminder"
      /\ \/ /\ wk.result = "ok"
            /\ ledger' = [ledger EXCEPT ![wk.job] =
                                          [status |-> "sent", id |-> wk.job]]
         \/ /\ wk.result = "error"
            /\ ledger' = [ledger EXCEPT ![wk.job].status = "failed"]
      /\ dispatch' = [dispatch EXCEPT ![s] =
           [@ EXCEPT !.reminders = reminders, !.cooling = cooling]]
      /\ worker' = [worker EXCEPT ![w] = Continue(@)]
      /\ UNCHANGED <<campaign, overdue, supplier, quotes, winners, suppressed,
                     mail, emitted, ingested>>

(* The call that records the result is lost; the loop goes on regardless.  *)
LoseMark(w) ==
  /\ "lostMark" \in Faults
  /\ worker[w].result # "none"
  /\ worker' = [worker EXCEPT ![w] = Continue(@)]
  /\ UNCHANGED <<stores, mail, emitted, ingested>>

(* The host ends the server action, between any two of its steps.          *)
Crash(w) ==
  /\ "crash" \in Faults
  /\ worker[w] # Idle
  /\ worker' = [worker EXCEPT ![w] = Idle]
  /\ UNCHANGED <<stores, mail, emitted, ingested>>

(* An administrator declares a stale dispatch failed.                      *)
Recover(s) ==
  /\ dispatch[s].status = "queued" /\ dispatch[s].provider = NoMail
  /\ dispatch[s].aged
  /\ dispatch' = [dispatch EXCEPT ![s].status = "failed"]
  /\ supplier' = [supplier EXCEPT ![s] =
                    IF @ \in {"draft", "queued"} THEN "failed" ELSE @]
  /\ UNCHANGED <<campaign, overdue, ledger, quotes, winners, suppressed,
                 worker, mail, emitted, ingested>>

-----------------------------------------------------------------------------
(* The passing of time.                                                    *)

(* A server action lives less than 15 minutes. A dispatch ages from its     *)
(* last recorded attempt, or from its queueing, so whoever read it before   *)
(* is gone by then.                                                         *)
ReadBefore(s) ==
  IF dispatch[s].attempts = 0 THEN Engaged(s, "invite")
  ELSE \E w \in Workers, no \in 1 .. dispatch[s].attempts :
         Invite(s, no) \in worker[w].todo \cup {worker[w].job}

Age(s) ==
  /\ dispatch[s].status \in {"queued", "failed"} /\ ~ dispatch[s].aged
  /\ ~ ReadBefore(s)
  /\ dispatch' = [dispatch EXCEPT ![s].aged = TRUE]
  /\ UNCHANGED <<campaign, overdue, supplier, ledger, quotes, winners,
                 suppressed, worker, mail, emitted, ingested>>

CooldownEnds(s) ==
  /\ dispatch[s].cooling /\ ~ Engaged(s, "reminder")
  /\ dispatch' = [dispatch EXCEPT ![s].cooling = FALSE]
  /\ UNCHANGED <<campaign, overdue, supplier, ledger, quotes, winners,
                 suppressed, worker, mail, emitted, ingested>>

DeadlinePasses ==
  /\ ~ overdue /\ campaign \in OpenCampaign
  /\ overdue' = TRUE
  /\ UNCHANGED <<campaign, supplier, dispatch, ledger, quotes, winners,
                 suppressed, worker, mail, emitted, ingested>>

-----------------------------------------------------------------------------
(* The supplier's portal.  Whoever received a mail with the dispatch's      *)
(* current token holds its link.                                           *)
HasLink(s) == \E m \in Mails : /\ m.to = s /\ Accepted(m)
                               /\ mail[m] = dispatch[s].version

OpenForAnswers == campaign \in OpenCampaign /\ ~ overdue

OpenInvite(s) ==
  /\ HasLink(s) /\ dispatch[s].status \notin DeadLink /\ ~ dispatch[s].opened
  /\ dispatch' = [dispatch EXCEPT ![s] = [@ EXCEPT !.status = "opened",
                                                   !.opened = TRUE]]
  /\ supplier' = [supplier EXCEPT ![s] =
                    IF @ \in {"sent", "delivered"} THEN "opened" ELSE @]
  /\ UNCHANGED <<campaign, overdue, ledger, quotes, winners, suppressed,
                 worker, mail, emitted, ingested>>

(* Saving a quote or preparing an attachment creates the first draft; a    *)
(* second current quote of one dispatch violates a unique index.           *)
NoDraftYet(s) == Latest(s) \notin {"draft", "submitted"}  \* mutant: no index
MayStartDraft(s) == Latest(s) = "none"

StartDraft(s) ==
  /\ HasLink(s) /\ OpenForAnswers
  /\ dispatch[s].status \notin DeadLink \cup {"declined"}
  /\ MayStartDraft(s) /\ Len(quotes[s]) < MaxRevisions
  /\ quotes' = [quotes EXCEPT ![s] = Append(@, "draft")]
  /\ UNCHANGED <<campaign, overdue, supplier, dispatch, ledger, winners,
                 suppressed, worker, mail, emitted, ingested>>

Answer(s, status) ==
  /\ supplier' = [supplier EXCEPT ![s] = status]
  /\ dispatch' = [dispatch EXCEPT ![s].status = status]
  /\ UNCHANGED <<overdue, ledger, winners, suppressed, worker, mail, emitted,
                 ingested>>

SubmitQuote(s) ==
  /\ HasLink(s) /\ OpenForAnswers
  /\ dispatch[s].status \notin DeadLink \cup {"declined"}
  /\ Latest(s) = "draft"
  /\ quotes' = [quotes EXCEPT ![s][Len(quotes[s])] = "submitted"]
  /\ campaign' = "collecting"
  /\ Answer(s, "responded")

Decline(s) ==
  /\ HasLink(s) /\ OpenForAnswers
  /\ dispatch[s].status \notin DeadLink
  /\ \/ /\ Latest(s) = "none" /\ MaxRevisions > 0
        /\ quotes' = [quotes EXCEPT ![s] = <<"declined">>]
     \/ /\ Latest(s) = "draft"
        /\ quotes' = [quotes EXCEPT ![s][Len(quotes[s])] = "declined"]
  /\ UNCHANGED campaign
  /\ Answer(s, "declined")

Appended(q) == Append(q, "draft")  \* mutant: the old revision stays current
Revised(q) == Append([q EXCEPT ![Len(q)] = "superseded"], "draft")

StartRevision(s) ==
  /\ HasLink(s) /\ OpenForAnswers
  /\ dispatch[s].status = "responded"
  /\ Latest(s) = "submitted" /\ Len(quotes[s]) < MaxRevisions
  /\ quotes' = [quotes EXCEPT ![s] = Revised(@)]
  /\ UNCHANGED <<campaign, overdue, supplier, dispatch, ledger, winners,
                 suppressed, worker, mail, emitted, ingested>>

(* Opting out needs the token only: a dead link still works here.          *)
OptOut(s) ==
  /\ HasLink(s) /\ s \notin suppressed
  /\ suppressed' = suppressed \cup {s}
  /\ UNCHANGED <<campaign, overdue, supplier, dispatch, ledger, quotes,
                 winners, worker, mail, emitted, ingested>>

(* The suppression list is the platform's: an opt-out by the link of       *)
(* another campaign, or the bounce of its mail, may add the address.       *)
SuppressElsewhere(s) ==
  /\ s \notin suppressed
  /\ suppressed' = suppressed \cup {s}
  /\ UNCHANGED <<campaign, overdue, supplier, dispatch, ledger, quotes,
                 winners, worker, mail, emitted, ingested>>

MayWinUnlessClosed(s) == supplier[s] \notin Closed  \* mutant
MayWin(s) == supplier[s] \notin Closed /\ Latest(s) = "submitted"

(* The award looks at the campaign's status and not at its due date.       *)
Award(W) ==
  /\ campaign \in OpenCampaign
  /\ \A s \in W : MayWin(s)
  /\ campaign' = "awarded"
  /\ winners' = W
  /\ supplier' = [s \in Suppliers |->
       IF s \in W THEN "awarded"
       ELSE IF supplier[s] \in Closed THEN supplier[s] ELSE "not_awarded"]
  /\ UNCHANGED <<overdue, dispatch, ledger, quotes, suppressed, worker, mail,
                 emitted, ingested>>

-----------------------------------------------------------------------------
(* The provider's webhook: one verdict for each mail, a complaint only     *)
(* about a delivered one, with any delay between emission and ingestion.   *)
Verdict(m, types) == \E t \in types : [mail |-> m, type |-> t] \in emitted

Emit(m, t) ==
  /\ Accepted(m)
  /\ Cardinality(emitted) < MaxEvents
  /\ [mail |-> m, type |-> t] \notin emitted
  /\ \/ t = "sent"
     \/ t = "delayed" /\ ~ Verdict(m, {"delivered", "bounced", "failed"})
     \/ t \in {"delivered", "complained"}
          /\ ~ Verdict(m, {"bounced", "failed"})
     \/ t \in {"bounced", "failed"}
          /\ ~ Verdict(m, {"delivered", "complained", "bounced", "failed"})
  /\ emitted' = emitted \cup {[mail |-> m, type |-> t]}
  /\ UNCHANGED <<stores, worker, mail, ingested>>

(* What an event makes of the status of its dispatch and of its supplier.  *)
DispatchAfter(m, t) ==
  LET st == dispatch[m.to].status IN
  CASE t \in {"delivered", "delayed"} -> IF st = "opened" THEN st ELSE t
    [] t \in {"bounced", "complained"} -> t
    [] t = "failed" -> IF m.kind = "invite" THEN t ELSE st
    [] t = "sent" -> st

StoredVerbatim(m, t) ==  \* mutant: the event type is stored as it came
  IF t = "sent" THEN supplier[m.to] ELSE t

SupplierAfter(m, t) ==
  LET st == supplier[m.to] IN
  CASE t = "delivered" -> IF st \in {"sent", "delivered"} THEN t ELSE st
    [] t \in {"bounced", "complained"} -> t
    [] t = "failed" -> IF m.kind = "reminder"
                          \/ st \in {"responded", "declined", "awarded"}
                       THEN st ELSE t
    [] t \in {"sent", "delayed"} -> st

(* An event is recorded once.  An event of a mail that no ledger row names *)
(* yet is recorded and never looked at again.                              *)
Ingest(e) ==
  LET rows == {m \in Mails : ledger[m].id = e.mail}
      s == e.mail.to
  IN  /\ e \in emitted \ ingested
      /\ ingested' = ingested \cup {e}
      /\ \/ /\ rows = {}
            /\ UNCHANGED <<ledger, dispatch, supplier, suppressed>>
         \/ /\ rows # {}
            /\ ledger' = [m \in Mails |->
                 IF m \in rows THEN [ledger[m] EXCEPT !.status = e.type]
                 ELSE ledger[m]]
            /\ dispatch' = [dispatch EXCEPT ![s].status =
                                              DispatchAfter(e.mail, e.type)]
            /\ supplier' = [supplier EXCEPT ![s] =
                                              SupplierAfter(e.mail, e.type)]
            /\ suppressed' = IF e.type \in {"bounced", "complained"}
                             THEN suppressed \cup {s} ELSE suppressed
      /\ UNCHANGED <<campaign, overdue, quotes, winners, worker, mail,
                     emitted>>

-----------------------------------------------------------------------------
Start(w) == Launch(w) \/ StartRetry(w) \/ StartRemind(w)
Step(w) == Prepare(w) \/ Send(w) \/ MarkInvitation(w) \/ MarkReminder(w)
Fault(w) == LoseMark(w) \/ Crash(w)
Portal(s) == \/ OpenInvite(s) \/ StartDraft(s) \/ SubmitQuote(s)
             \/ Decline(s) \/ StartRevision(s) \/ OptOut(s)
Time(s) == Age(s) \/ CooldownEnds(s)

Next ==
  \/ \E w \in Workers : Start(w) \/ Step(w) \/ Fault(w)
  \/ \E s \in Suppliers : Recover(s) \/ Portal(s) \/ Time(s)
                          \/ SuppressElsewhere(s)
  \/ \E W \in (SUBSET Suppliers) \ {{}} : Award(W)
  \/ DeadlinePasses
  \/ \E m \in Mails, t \in EventType : Emit(m, t)
  \/ \E e \in Events : Ingest(e)

Spec == Init /\ [][Next]_vars

(* A server action that was started keeps running unless it is ended.      *)
Fairness == \A w \in Workers : WF_vars(Step(w))
FairSpec == Spec /\ Fairness

-----------------------------------------------------------------------------
(* Properties.                                                             *)

(* Every row and every server action has the shape its table or its loop   *)
(* variable declares.                                                      *)
TypeOK ==
  /\ campaign \in {"draft", "launched", "collecting", "awarded"}
  /\ overdue \in BOOLEAN
  /\ supplier \in [Suppliers -> SupplierStatus]
  /\ dispatch \in [Suppliers -> Dispatches]
  /\ ledger \in [Mails -> Rows]
  /\ quotes \in [Suppliers -> Seq(QuoteStatus)]
  /\ winners \subseteq Suppliers
  /\ suppressed \subseteq Suppliers
  /\ worker \in [Workers -> WorkerStates]
  /\ mail \in [Mails -> Nat]
  /\ emitted \subseteq Events
  /\ ingested \subseteq Events

(* A supplier's quote has one current revision, the last: the earlier ones *)
(* are superseded, and nothing is current again once it is superseded.     *)
OneCurrentQuote ==
  \A s \in Suppliers : \A i \in 1 .. Len(quotes[s]) :
    (quotes[s][i] = "superseded") <=> (i < Len(quotes[s]))

(* An award goes to suppliers whose latest revision was submitted, and it  *)
(* still is: no portal call of a late supplier changes it afterwards.      *)
WinnersSubmitted ==
  /\ (campaign = "awarded") <=> (winners # {})
  /\ \A s \in winners : Latest(s) = "submitted"

(* An award is final: no late send result, webhook or answer reopens the   *)
(* campaign, replaces its winners or changes a quote.                      *)
AwardIsFinal ==
  [][campaign = "awarded" => UNCHANGED <<campaign, winners, quotes>>]_vars

(* A supplier's row says what it answered: "responded" and "awarded" only  *)
(* over a submitted revision or the draft that follows one, "declined"     *)
(* only over a declined quote, "awarded" only for a winner.                *)
StatusHasAnswer ==
  \A s \in Suppliers :
    /\ supplier[s] = "declined" => Latest(s) = "declined"
    /\ supplier[s] = "awarded" => s \in winners
    /\ supplier[s] = "responded" =>
         \/ Latest(s) = "submitted"
         \/ Latest(s) = "draft" /\ Len(quotes[s]) > 1

(* The delivery ledger is evidence: a provider message is named by at most *)
(* one row, is a mail to that row's supplier the provider did accept, and  *)
(* a dispatch never names a message the ledger does not (so the webhook    *)
(* never needs its fallback search by dispatch).                           *)
LedgerIsEvidence ==
  /\ \A m \in Mails : ledger[m].id # NoMail =>
       /\ Accepted(ledger[m].id)
       /\ ledger[m].id.to = m.to /\ ledger[m].id.kind = m.kind
       /\ \A o \in Mails : ledger[o].id = ledger[m].id => o = m
  /\ \A s \in Suppliers : dispatch[s].provider # NoMail =>
       \E m \in Mails : ledger[m].id = dispatch[s].provider

(* Retries, crashes and recovery do not fill a mailbox: while server       *)
(* actions do not overlap, at most one of the invitations a supplier       *)
(* received was never recorded, the one whose server action died, and the  *)
(* next attempt repeats its key.  Actions that overlap keep it for three   *)
(* versions, if a fault strikes only one that works alone; six break it.   *)
OneUnrecordedInvitation ==
  \A s \in Suppliers :
    Cardinality({m \in Mails : /\ m.to = s /\ m.kind = "invite"
                               /\ Accepted(m) /\ ledger[m] = NoRow}) <= 1

(* The reminder counter agrees with the provider: all it counts were       *)
(* accepted, and at most one accepted reminder is not counted yet.         *)
RemindersAccounted ==
  \A s \in Suppliers :
    LET received == {m \in Mails : /\ m.to = s /\ m.kind = "reminder"
                                   /\ Accepted(m)}
    IN  Cardinality(received) \in
          {dispatch[s].reminders, dispatch[s].reminders + 1}

(* A prepared reminder carries the link its dispatch accepts.              *)
RemindersCarryTheLink ==
  [][\A w \in Workers :
       /\ worker[w].job = NoMail /\ worker'[w].job # NoMail
       /\ worker[w].op = "remind"
       => worker'[w].token = dispatch[worker'[w].job.to].version]_vars

(* A supplier that submitted its quote can start a revision while the      *)
(* campaign is open.                                                       *)
SubmittedCanBeRevised ==
  \A s \in Suppliers :
    /\ OpenForAnswers /\ Latest(s) = "submitted"
    /\ dispatch[s].status \notin DeadLink \cup {"declined"}
    => dispatch[s].status = "responded"

(* Every bounce or complaint that was ingested suppresses the address.     *)
BouncesSuppress ==
  \A e \in ingested : e.type \in {"bounced", "complained"}
                      => e.mail.to \in suppressed

(* A queued invitation gets its result: as long as no server action dies   *)
(* and no result is lost, none stays queued.                               *)
QueuedIsSettled ==
  \A s \in Suppliers :
    dispatch[s].status = "queued" ~> dispatch[s].status # "queued"
=============================================================================
