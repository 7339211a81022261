# Verification of steel-sales-ai

TLA+ models, TLC runs and TLAPS proofs about the parts of this repository whose
difficulty is control: the RFQ Hub (which sends requests for quotation to suppliers,
negotiates, collects their quotes, awards, and turns the award into purchase orders),
the bridge that turns business events into notifications and the bell that shows them,
and the access of members to their organization. Source paths are relative to `src/`;
migrations are in `supabase/migrations/`, and a migration is named by its number and
stage where that is clear (`rfqh3`). The repository re-creates functions in later
migrations: the models follow the last definition of each.

## The system

A multi-tenant web application (Next.js, `apps/web`) over one Postgres database
whose functions hold most of the logic (472 migrations), with a Python worker
(`services/worker`), an e-mail provider (Resend) and scheduled jobs.

The pattern that makes it hard is the same everywhere. A *database function* is
a transaction that locks the rows it decides on: it is atomic. A *server action*
is not: it reads, calls one function, calls the provider, calls another
function, and its host may end it in between. Other actors (a second browser
tab, a supplier with a link in an old mail, a webhook, an administrator) run
their transactions in those gaps.

### Components

`PROJECT.json` lists all 31 with their sources. The ones with state of interest:

| component | state | operations | hard because |
|---|---|---|---|
| RFQ dispatch (rfqh3, `rfq-hub/actions.ts`) | campaign, supplier and dispatch rows, delivery ledger, suppression list | launch, retry, remind, record results, recover, open, opt out | three server actions with a provider call inside, crash, lost replies and results, parallel retries |
| Delivery webhook (`api/webhooks/resend`, rfqh6 ledger) | recorded events | ingest | events late, early or out of order |
| Supplier portal (rfqh4) | quotes and revisions | save, submit, decline, revise | races with results, webhooks, the deadline and the award |
| Award (rfqh7, bd3) | award, allocations, order drafts, campaign | confirm | reads the latest quotes; gate |
| Governance (rfqh13) | policies, team, approvals | set policy, set team, request, decide, (gate, consume), recover | policy, team and payload change between request, decision and commit |
| Purchase orders (rfqh9) | drafts, versions, links, deliveries | edit terms, issue, record delivery, supplier answer | version number read before it is used; old links; issued orders |
| Supplier's form and upload (rfqh4, `rfq-supplier-response-form.tsx`, `rfqh4-offer-upload`) | revisions, open tabs, uploads, files | save, submit, upload, replace a file | submitting is two calls; an upload is two calls around the file store |
| Negotiation (rfqh6, `negotiation-actions.ts`) | threads, messages, requests with deadlines | post, remind, reply, mail, answer by a quote | mail outside the transaction; one deadline for all suppliers; a trigger that guesses what was answered |
| Notification bridge (nc2) | queue of references, inbox rows | capture, wake, route, retry, give up | triggers that swallow faults; sources that change, end or return while they wait |
| Notification bell (nc3, `use-notification-freshness.ts`) | what one page shows, requests in flight, subscription | poll, hint, reply, render, navigate, sign in and out | late replies, lost hints, rights that end silently |
| Members and invitations (hp8, p1, `tenant_admin.py`) | memberships, invitations, requests in flight | invite, renew, deliver, undo, claim, revoke, role, suspend, close account | counts without locks; a service that works on rows it read before |
| Registration, claims (hp3, p0a, lr4, selfact1) | application, ledger of events | submit, ask, approve, reject, activate | two parties and resubmission |
| Offer reparse and recovery (`offer-reparse/actions.ts`) | runs, candidates, reingests, closures | reparse, review, adopt, quarantine, reingest, close | a chain of six stages, workers killed halfway |
| Worker jobs (worker, p1) | jobs, staging, promotion | claim, parse, promote, retry | half-done jobs |
| Everything else | — | read models, parsers, ranking, news, price lists, UI | data rather than control |

Who calls whom: the browser calls server actions; they call database functions
(RPC) and the provider; the provider calls the webhook route, which calls
`rfqh3_ingest_resend_event`; suppliers call portal functions by the hash of the
token in their link. All shared state is in the database. What couples the
components: a launch makes the *dispatch* whose *version* is the link the portal
accepts; results and webhooks write `dispatch.status` and `supplier.status`,
which the portal reads; a quote's status is what the award reads; the award
closes the campaign, which the portal, the reminders and the negotiation read,
and makes the drafts the orders start from; both commits go through the gate. A
request of the negotiation moves the campaign's deadline, which every supplier's portal
checks; a submitted quote fires a trigger that answers the request; the webhook writes
the dispatch that the portal reads. Triggers on the tables of the marketplace, the
alerts, the claims and the RFQ events fill the queue of the notification bridge, which
reads memberships to know whom to tell.

### What correct means, by component

- dispatch: nobody is mailed twice for one attempt; the ledger says *sent* only of
  what the provider accepted; reminders stay within their limit; nothing
  new is prepared for a suppressed address; what is queued gets a result; links that are
  mailed work.
- portal and award: one current quote; the row of a supplier tells its answer; a
  winner's quote is submitted and stays so; an award is final.
- governance: no commitment under a policy without the four eyes of one approval
  of exactly that payload, and one approval for one commitment.
- orders: the draft agrees with its versions; an old link never answers a new
  version; a confirmed order is what was issued and is final.
- webhook: late and duplicate events do no harm; a bounce suppresses.
- form and upload: one live revision; what was submitted stays as it was sent, file
  included.
- negotiation: a thread says what is so; who is asked for an answer can give it in time;
  an answer outlives the mails; the award ends it.
- bridge: an event is told once, to all at once, or given up; what lasts is told in the
  end. Bell: no older inbox replaces a newer one, and what it shows becomes what is so.
- members: an organization keeps an admin; an invitation is spent once.

## Modules

| module | contents |
|---|---|
| `RfqDelivery` | dispatch, webhook, portal and award as one state machine |
| `ApprovalGate` | policies, team, approvals, the gate and consumption |
| `RfqProcurement` | extends `ApprovalGate` with award, orders, issue windows and supplier answers |
| `OrderContract` | what procurement promises: abstract, implemented by `RfqProcurement` |
| `SupplierPortal` | response form, revisions and uploads of an open RFQ |
| `OfferContract` | what the portal promises both parties: abstract, implemented by `RfqNegotiation` |
| `RfqNegotiation` | extends `SupplierPortal` with threads, requests, mails, bounces and the award |
| `EventDelivery` | what the notification bridge promises: abstract, implemented by `SourceBridge` |
| `SourceBridge` | triggers, queue, batch job and router |
| `NotificationBell` | extends `SourceBridge` with the bell of one reader |
| `TeamAccess` | members, roles, closing of accounts, invitations |
| `MCRfqDelivery`, `MCRfqDeliveryScopes`, `MCRfqProcurement`, `MCRfqProcurementScopes`, `MCRfqNegotiation`, `MCNotificationBell`, `MCTeamAccess` | symmetry sets, casts and scopes of the runs |
| `RfqDeliveryProofs`, `RfqLedgerProofs` | theorems about `RfqDelivery` |
| `RfqProcurementProofs`, `RfqReviewProofs`, `RfqOrderProofs` | theorems about `RfqProcurement`: types, approvals, orders and their contract |
| `RfqNegotiationProofs` | theorems about `SupplierPortal` and `RfqNegotiation` |
| `NotificationProofs` | theorems about `SourceBridge` and `NotificationBell` |
| `TeamAccessProofs` | theorems about `TeamAccess` |

Definitions that a mutant substitutes stand before the one they replace and are
commented *mutant*; nothing else uses them.

### RfqDelivery

State: `campaign`, `overdue` (due date passed), `supplier` and `dispatch` (rows of
`buyer_rfq_suppliers` and `buyer_rfq_dispatches`, one per supplier), `ledger`
(`buyer_rfq_dispatch_messages`), `quotes` (status of each revision), `winners`,
`suppressed`; `worker`, the server actions in flight; `mail`, what the provider
accepted; `emitted` and `ingested` webhook events.

A mail is its idempotency key, `[to, kind, no]`, since the keys of the code are
derived from dispatch and number; `mail[m]` is the version of the link in it (0: not
accepted). The provider accepts a repeated key with the same link as the same mail and
refuses it with another, which is how `Send` models the provider's idempotency. A
worker holds the rows it read (`todo`), the mail in hand (`job`) and its `result`.
`Prepare`, `Send` and `MarkInvitation`/`MarkReminder` are the three steps of each turn
of its loop; `Crash` ends it, `LoseMark` loses the last step. `aged` and `cooling`
stand for the 15 minutes of stale recovery and the 24 hours between reminders. The 15
minutes run from the last recorded attempt (or the queueing), and a server action lives
less, so whoever read the dispatch before is gone when it ages (`ReadBefore`). A retry
reads it after: `last_attempt_at` is that of the previous attempt, so a dispatch may be
recovered while its retry is in flight.

The award is repeated here with what matters to delivery and portal (campaign,
winners, supplier rows); `RfqProcurement` has the rest of it.

### ApprovalGate and RfqProcurement

`required` are the two policy flags, `team` the active role of each member in the
RFQ's team, `approvals` the rows of `buyer_procurement_approvals` in order. A payload
is what the SHA-256 fingerprint covers, so equality of payloads is equality of
fingerprints (no collisions). `Gate(p)` is the set of approvals
`rfqh13_assert_*_approval` may return and `{0}` where the policy asks for none;
`Consumed(i)` is `rfqh13_consume_approval`. Both run inside the committing
transaction, so they are operators of its action. The decision on an expired
request is no action: its update is undone by the exception that follows it.

`quotes` holds the latest revision of each supplier; `drafts`, `versions` and `links`
are the purchase-order tables and the links suppliers hold. A `window` is one call of
`issuePurchaseOrder`: `ReadState` (reads the next version number and derives the
link), `PrepareIssue` (the transaction), `SendOrder`, `MarkDelivery`, and `Stop` where
it is refused or killed. `terms` are told apart by their delivery date, the field a
confirmation may contradict. A supplier answers by any link it ever got. `seen` is
history: the quote revisions at the moment an award was approved.

`confirmRfqAward` is two actions, `RequestAward` and `ConfirmAward`: nothing but the
payload passes from one call to the other, and the second checks everything again.

`OrderContract` has neither approvals, versions, links, mails nor windows: one award
opens the winners' orders, an order is offered on some terms, and the supplier agrees to
exactly these for good, or sends it back. `Order(s)` reads an order off the draft and its
last version; that an offer is the terms of the *version* and an agreement those of the
*draft* is what makes the refinement say something.

### SupplierPortal and RfqNegotiation

`quotes[s]` are a supplier's revisions; `lines` is a whole answer, a member of `Offers`,
or `Incomplete`. A `tab` that has saved and is about to submit is the gap between the two
calls of the form. An `upload` goes *put*, *record*, then *clean* (remove the file it
replaced) or *undo* (remove its own); it may end at any step. Paths are fresh, as the
function's random UUIDs are. `unsure` collects files whose recording was answered by
an error although it was done. Every database function locks dispatch and campaign and is
one action, except that `RecordAttachment` looks at neither, as in the code.

A `thread` has a status, the open request with its deadline, and the anchor of the
reminders' cooldown (`anchor < now`: a day is the 24 hours). A `window` is a server
action in flight: it has posted a message, mails it and records the result. `BuyerPost`
extends the campaign's deadline; `QuoteSubmissionSync` is the trigger and part of the
submission. `asked` is history. The portal's functions read `due`, `campaign` and
`dispatch`; delivery of the invitation itself is `RfqDelivery`'s, so `dispatch` starts
as `sent`, and of the award only what negotiation sees of it is here.

`OfferContract` has neither drafts, revision numbers, tabs, uploads, threads nor mails: while
the RFQ collects, a supplier sends an offer, takes back the one that stands, or declines; the
deadline passes or is put off; one award, of offers that stand, ends it. `Answer(s)` reads a
supplier's answer off its last revision, and `PackagesSent(s)` are its revisions up to the last
submitted one, each with its lines and its file. So a draft, an edit and an upload must be
stutters, a submission must append exactly one package, and a step that touched the lines or the
file of anything ever sent would be no step of the contract.

### SourceBridge, EventDelivery and NotificationBell

A reference is a source and its revision. Sources are of three kinds, by what the
router verifies: *records* stay true; *incidents* (alerts, claims) are settled and may be
raised again as a new revision; *matches* come and go and are told only once the
supplier's organization has unlocked them. `Queue` is a trigger's write, which may fail unnoticed;
`Woken` is the unlock's upsert. `Process` is one row of a batch: the job commits a batch as a
whole, but its rows are locked and independent, so nobody can see the difference.
`EventDelivery` has the fate of each event alone; `Fate` maps the queue's status to it.

`call` is the request in flight of the current run of the bell's effect and `orphan` one
of an earlier run (a navigation ends a run). A reply carries what the server answered when it
read the inbox. `render` is a server render under way, `timer` a hint that waits to be
followed, `applied` the history of what replies brought.

### TeamAccess

The transactions that take rights away run at READ COMMITTED, lock the row they change
and *count* rows they do not lock. So a `call` is taken apart: it asks who calls, looks
(and locks), and writes; `seen` is what it counted. Claims and revocations lock the row they
decide on and are one action. A `request` is `invite_member` of the worker service: it
checks, finds a pending invitation, renews or stores one, has it mailed and, after a
failure, withdraws what it stored; each is its own HTTP call.

## Runs

| run | question | bounds | distinct states |
|---|---|---|---|
| `delivery_faults` | which promises survive crash, lost result, lost reply, refusal, webhook, award and a second server action | 1 supplier, 2 actions, 3 versions, 1 reminder, 2 revisions, 1 event, all faults, within `WithinScope` | 557,770 |
| `delivery_settled` | two suppliers, split awards, liveness | 2 suppliers, 1 action, 1 version, 1 revision, 1 suppressed address, refusals | 377,325 |
| `procurement_windows` | scope *approvals*: approvals against policy, team, terms and expiry; scope *windows*: two windows on one order, edits, deadline, answers | owner, 1 member, 1 approval, 1 supplier, 2 terms, 1 deadline, 2 windows, 2 versions, 2 revisions | 410,070 |
| `negotiation_portal` | form, uploads, conversation, mails and award together | 2 suppliers (one opens the link), 2 tabs, 2 uploads, 2 files, 1 window, 3 kinds of request, 3 days, 1 reminder; activity 5, 4, 3 by cast, within `WithinTalk` | 508,412 |
| `notifications` | bridge and bell, safety and liveness | 2 users, 1 record, 1 alert with 2 revisions, 1 match, 2 attempts, 1 fault | 72,131 |
| `team_access` | lockout and invitations | 3 users, 2 calls, 2 requests, 1 invitation | 401,202 |

Six further runs end in a counterexample (below).

Why these bounds. Suppliers do not interact before the award (their rows are
disjoint), so one of them meets every race of delivery; two are needed where the award
splits them, where a loop has a next row, and where a request to one moves the deadline
of the other. Two server actions are the fewest that overlap; three versions are needed to
see two retries that share a counter and a third after them. One webhook event at a time
may come before, between or after any step. One approval is enough for it to be asked,
decided, expired and consumed by the award or by either of two versions; the bound keeps
those from *different* approvals, and the theorem `CommitmentsAreReviewed` has no such
bound. Two terms make a payload stale. Two windows and two versions let both read the
same number, one be superseded and an old link be used. Two tabs, two uploads and two
files let each replace what the other wrote. Two attempts (12 in the code) have one
retry between first failure and death; one fault may hit any statement. Two admins who
remove each other need two calls, and three users let the count of others be stale
without a lockout.

*Casts and scopes.* What cannot interact is not run together. A run's `cast` or `scope` is
chosen in the initial state and kept: the portal with uploads; the conversation with the form
while mails go well; the conversation with every outcome of a mail. The bridge with two
kinds of source that take turns; the bell with the simplest source. Two removals of
rights among three members; two requests that invite, next to one removal, while nobody
closes an account. In `delivery_faults` the action constraint `WithinScope` lets a supplier open
its link and answer, the deadline pass and an address be suppressed while at most one server
action is at work and versions, attempts and events together stay in a bound; and a fault strikes
only a server action that works alone on rows nobody changed since it read them. What two server
actions do after a fault, or with a third version, is followed. In `delivery_settled` one of the
two addresses may be suppressed; in `negotiation_portal` a supplier that never opens its link is
written to at most once; in `notifications` the colleague of the reader whose bell is watched
stays a member. In the two runs with liveness (`delivery_settled`, `notifications`) the constraint takes away
steps of the environment only, a suppression and a departure, which no fairness asks for; it
never stops a step that is fair. In `procurement_windows`, the owner and one member who govern with one window whose mails
arrive, and two windows that meet everything without policies. `Activity` bounds what a state holds
(messages, revisions, uploads, work in flight), so that behaviours of any length within
it are explored. Symmetry is used for members, calls, windows, files and the like, and in
no run with liveness. Deadlock is not checked where the system may end, everything awarded,
delivered or bounded (`delivery_*`, `negotiation_portal`, `team_access`).

Properties, beyond the type invariant of each module:

- `OneCurrentQuote`, `StatusHasAnswer`, `WinnersSubmitted`, `AwardIsFinal`: quotes,
  supplier rows and award against late results, events and answers.
- `LedgerIsEvidence`, `OneUnrecordedInvitation`, `RemindersAccounted`: the ledger and
  the counters against what the provider really accepted. `OneUnrecordedInvitation` is
  proved of server actions that do not overlap. Of those that do, it holds within the bounds and the
  constraint of its run and not beyond: when two retries overtake each other *and* one loses its
  result, the lost mail has a key that the next attempt does not repeat; and with three
  server actions and six versions no fault is needed but a refusal, for a retry that
  prepares an old number moves the dispatch's key back, and the results of the others
  are recorded under it. Then the supplier is invited by several mails nobody recorded.
- `QueuedIsSettled` (liveness): without crash and lost results every queued
  invitation gets one. Fairness is weak fairness of each running server action's
  steps, no more: the host runs a request's code until it ends; nobody is obliged to
  start one, to answer or to deliver an event.
- `CommitmentsWereReviewed`, `ApprovalsAreSpentOnce`: the four-eyes rule and its
  bookkeeping.
- `DraftFollowsVersions`, `ConfirmedAsIssued`, `ConfirmedIsFinal`,
  `LinkOpensItsVersion`, `OnlyOpenOrdersAreMailed`: the order, its versions, links and
  mails. `OrdersKeepContract`: all of it implements `OrderContract`.
- `OneLiveRevision`, `SubmittedStaysAsSent`, `AttachmentIsStored`: what a supplier sent
  against other tabs, revisions, uploads under way and files they remove.
- `ThreadWaitsForRequest`, `BestOfferIsNew`, `RemindersPerRequest`: the thread's status,
  the answer it announces and the reminders, against requests that replace each other.
- `AskedInTime`: the shared deadline is not before that of any open request.
- `SentWasMailed`, `AnswerOutlivesMail`, `AwardEndsNegotiation`: mails and award
  against late results, bounces and work in flight. `OffersKeepContract`: portal,
  conversation and award implement `OfferContract`.
- `BridgeDelivers`: the bridge implements `EventDelivery`. `QueueSettles`,
  `LastingIsTold` (liveness): no reference waits for ever, and what may be told and stays
  true is told.
- `RepliesInOrder`, `ScreenCatchesUp` (liveness): the bell against navigation, lost
  hints, failed replies and late renders.
- `LockoutNeedsStaleCount`, `InvitationIsSpentOnce`: the last-admin guard fails only on
  a stale count; nothing spent is open again.

*Fairness of the bridge and the bell.* Weak fairness of `Process` and `Elapse` for each
reference: the job runs every five minutes and takes the longest due rows first, so a due
row is reached whatever arrives behind it; a delay passes. Weak fairness of `Poll`,
`Cool`, `AnswerCall` and `ReplyArrives`: the browser keeps its intervals, and a request
ends, as the network gives it up. Nothing else is fair: no click, hint, return, render,
sign-in, or membership. `ScreenCatchesUp` assumes a reader who stops navigating, for
each navigation starts the bell's effect anew and may drop the reply.

### What the code does not keep

Six runs end in a counterexample; each refutes a sentence of the repository. For four of
them a theorem says under which condition the sentence is true (see Proofs).

- `delivery_link`: two retries that read one attempt counter leave it ahead of the
  link; reminders then carry a link nothing accepts, opt-out included.
- `delivery_revision`: a send result or delivery event that arrives after the answer
  overwrites `responded`; the portal then refuses both a revision and an edit.
- `delivery_bounce`: a bounce that is ingested before its message is in the ledger is
  stored unmatched for good and never suppresses the address.
- `procurement_price`: an award is approved by line, supplier and tonnes; the quote's
  revision and price are not in the fingerprint, so a revision submitted between
  approval and award changes what the approved award buys.
- `procurement_reissue`: an order whose mail failed stays `issued`, which can be
  neither edited nor issued again.
- `team_lockout`: two admins who demote (or suspend, or close the account of) each other
  at once each count two admins, and none is left; "the last-admin guard prevents
  accidental tenant lockout" holds for one call at a time. `LockoutNeedsStaleCount` shows
  that this is the only way to it.

There are other weaknesses, without a run of their own. The actions have those that are in
the models, and the properties say what remains true.

- *Opt-out.* The suppression list is read when a launch is committed or a mail prepared, not
  when the mail leaves (`actions.ts:520`). A company that opts out meanwhile, by another
  campaign's link, is told that the address gets no more requests
  (`rfq/unsubscribe/[token]/page.tsx:34`), and still gets the one prepared before.
- *Invitations.* A delivery that fails (or whose record fails after the mail was sent)
  revokes the invitation even if it was accepted meanwhile, or renewed and mailed by another
  admin. A renewal may update a row that was spent meanwhile and mail a dead link.
  A pending invitation makes a suspended member active at the next login.
- *Deadline.* A campaign without a deadline takes that of the first request to one
  supplier, for all.
- *Revision.* Starting a revision supersedes the submitted offer at once; if the deadline
  passes before it is submitted, the supplier has no offer.
- *Upload.* If the answer to `rfqh4_record_attachment` is lost, the function removes the
  file the quote now names (`unsure`).
- *Two tabs.* What is submitted is what was saved last, by whichever tab.
- *Messages.* A killed server leaves a posted message `pending`; nothing mails it later.
- *Bridge.* A match that is found again after its reference was given up is told only if
  the unlock comes after; an alert's revision that is overtaken waits until it is given up.
- *Inbox actions.* The pattern for identifiers in
  `apps/web/app/(italian)/(workspace)/notifications/actions.ts:11` lacks one group of four
  digits, so that no UUID matches: marking as read and archiving from the workspace inbox
  always fail, and inboxes only grow.
- *Bell.* A hint whose timer fires while a request is in flight is dropped, although the
  comment at `use-notification-freshness.ts:150` means to delay rather than drop it: the next
  poll has to make up for it.

## Proofs

For all values of the constants that meet the modules' ASSUMEs, with no bound on
suppliers, workers, users, windows, tabs, uploads or payloads, and without the scopes,
casts' activity bounds and constraints of the runs. Every safety property that a passing run
checks is a theorem, one of them, `OneUnrecordedInvitation`, under a hypothesis. Four
properties that the code violates are theorems under the condition their run breaks.

| theorem | states | argument |
|---|---|---|
| `TypeCorrect` | `TypeOK` of `RfqDelivery` | inductive as it stands, one lemma per group of actions |
| `AwardsAreFinal` | `AwardIsFinal` | every answer needs an open campaign; the first-send transition is the only other writer and looks at the status |
| `WinnersStaySubmitted` | `WinnersSubmitted` | inductive given types: the same case split |
| `QuotesHaveOneCurrent` | `OneCurrentQuote` | inductive: each portal call edits the last revision only |
| `RowsSayWhatWasAnswered` | `StatusHasAnswer` | only an answer writes "responded" or "declined" and only the award "awarded" (`OnlyAnswersTell`); what a row says after an answer is so (`AnswersAreTold`) |
| `SuppressedAreLeftAlone` | an address that is suppressed and that no prepared mail waits for is never mailed again | what a server action holds changes in four ways only (`HandsMove`), the two that take a mail to send look at the list, and nothing lifts a suppression |
| `TheLedgerIsEvidence` | `LedgerIsEvidence` | `LedgerInv` |
| `RemindersAreAccounted` | `RemindersAccounted` | `RemindersInv` |
| `ProcurementTypeCorrect` | `TypeOK` of `RfqProcurement` | needs `WindowsHaveOrders`: a window that sends or marks names an existing version |
| `CommitmentsAreReviewed`, `ApprovalsAreSpent` | `CommitmentsWereReviewed`, `ApprovalsAreSpentOnce` | `ReviewInv`, `SpentInv` |
| `LinksOpenTheirVersion`, `DraftsFollowTheirVersions`, `MailedOrdersAreOpen`, `ConfirmedOrdersAreAsIssued` | the four invariants of orders | `OrderInv` |
| `ConfirmedOrdersAreFinal` | `ConfirmedIsFinal` | `OrderMoves` |
| `OrdersImplementContract` | `OrdersKeepContract` (refinement) | `OrderMoves` |
| `NegotiationTypeCorrect`, `OneRevisionLives`, `AttachmentsAreStored`, `ThreadsWaitForRequests`, `RequestsAreAskedInTime`, `BestOffersAreNew`, `RemindersAreLimited`, `SentMeansMailed` | the invariants of `SupplierPortal` and `RfqNegotiation` | `NegotiationInv` |
| `OffersStayAsSent`, `AwardsEndNegotiations`, `AnswersOutliveMails` | their action properties | `QuotesMove`, `ThreadMoves` and the mails' guards |
| `PortalImplementsContract` | `OffersKeepContract` (refinement) | `NegotiationInv`, `QuotesMove` |
| `NotificationTypeCorrect` | `TypeOK` of bridge and bell | `NotificationInv` |
| `InboxOnlyGrows` | `RepliesInOrder` | an inbox row is never removed, and an answer under way has no more than the inbox |
| `BridgeImplementsDelivery` | `BridgeDelivers` (refinement) | `RowMoves` |
| `TeamTypeCorrect`, `LockoutsNeedAStaleCount`, `InvitationsAreSpentOnce` | the three properties of `TeamAccess` | `TeamInv` |

Theorems with a hypothesis. The code guarantees none of the hypotheses: each is the discipline
that operators, or a change of the code, would have to bring, and the run beside
it breaks it.

| theorem | states | hypothesis | run without it |
|---|---|---|---|
| `LoneRetriesRepeatTheLostKey` | `OneUnrecordedInvitation` | `OneAtATime`: server actions of one RFQ do not overlap | `delivery_faults`, which finds no violation within its bounds |
| `LoneRemindersCarryTheLink` | `RemindersCarryTheLink` | `OneAtATime` | `delivery_link` |
| `TimelyBouncesSuppress` | `BouncesSuppress` | `OneAtATime`; no crash, lost result or lost reply; `EventsWait`: an event is ingested when no server action holds the result of its mail | `delivery_bounce`, which lets the event come earlier and nothing else |
| `HeldQuotesAreAwardedAsReviewed` | `AwardAsReviewed` | `QuotesHold`: nobody revises a quote that an approved award would buy | `procurement_price` |
| `LoneCallsLeaveAnAdmin` | `AnAdminRemains` | `OneTakesAtATime`: no two calls are between count and write of a removal of rights | `team_lockout` |

*Ledger.* `LedgerIsEvidence` is not inductive: a result in a worker's hand becomes a row, so the
result must be evidence before (`JobsHaveTokens`); a reminder's row is written under
the worker's own key, so it must never name another mail
(`ReminderRowsNameThemselves`); and a retry must not replace the row that a dispatch's
provider message is found by, for which a dispatch that was sent must have been
attempted (`SentWasAttempted`). `LedgerInv` is their conjunction.

*Reminders.* The counter and the mailbox can drift only through what server actions
hold. `RemindersInv` says that the accepted reminders are the first ones of each dispatch
(`RemindersInOrder`), that nobody holds a reminder more than one ahead of the counter
(`RemindersFollow`, since each was numbered from a counter that only grows), and that
nothing is held or accepted before the launch resets the counter. What anybody holds
changes in four ways only (`HandsMove`).

*Unrecorded invitations.* With one server action at a time the mail in hand has the
number of the next attempt, and once it is prepared, or was launched, that of the
dispatch's link (`HeldIsNext`); so its result is recorded under its own key, and a mail
whose result is lost has the number the next attempt gets (`UnrecordedIsNext`). The
hypothesis is needed, see above.

*Links.* A reminder carries the link numbered by the *attempts*, the portal accepts the one
numbered by the *version*. `LinkIsCurrent` says that they agree whenever the supplier's row says
that an invitation went out: a retry, which moves the version, closes the row
(`RetriesUnlink`), and only the result of an invitation opens it again (`OnlyResultsLink`), which
under `LoneInv` is that of the link just prepared (`ResultsAreOfTheLink`).

*Suppression.* `SuppressedAreLeftAlone` is stated of steps and not of states, for the list is
read once, before the mail leaves: what was prepared by then still leaves. It says that the
set of what may leave is closed by the suppression and never filled again, by whatever
number of launches, retries and reminders.

*Bounces.* A bounce suppresses if the ledger names its mail when the event comes. That it
does has to be derived: `NoneIsLost` says that whatever the provider accepted is named by its own
row or has its result in a server action's hand. It needs that a result is recorded under
the mail's own key (`ResultsAreRecorded`, from `LoneInv`), that no row ever names
another mail, which would make the unique constraint refuse a result
(`RowsNameThemselves`), and that a result in hand leaves it only by being recorded
(`ResultsAreHeld`). Each of the hypotheses is needed: a lost reply, a lost result or a crash leaves
an accepted mail in no row, two retries that overlap may meet in one row, and an early
event is never looked at again.

*Approvals.* `CommitmentsWereReviewed` speaks of consumed approvals, while the step that makes it
true sees an approved one: `ReviewInv` adds that whatever is approved was approved by
another than the requester (`ApproversAreOthers`). The proof then has two halves. No
step changes a consumed approval, or the payload and requester of any
(`ApprovalsMove`), and no step changes terms, deadline or review of a version
(`VersionsKeepTerms`), so what was reviewed stays reviewed. What is new comes from
`ConfirmAward` or `PrepareIssue` alone (`NewVersionsAreIssued`), whose gate found
an approval of this payload. `ApprovalsAreSpentOnce` needs more: who rests on an
approval, and that a consumed one is named by what it paid for (`SpentInv`).

*What an award buys.* That the award buys what the approver was shown follows, given
`QuotesHold`, from `ApprovedWasShown`: for every approved award the history has a showing with the
revision numbers that the winners' quotes have now. Approval makes it so (`DecisionsShow`),
the history only grows (`HistoryGrows`), `QuotesHold` keeps the numbers
(`ApprovedStaysShown`), and the award takes the revisions from there
(`AwardsBuyWhatWasShown`). So the fingerprint leaves out nothing *but* the revision.

*Orders.* An order sees five kinds of step (`OrderMoves`): nothing, the award that opens
it, an edit of its terms, a new version, an answer to an open version. `OrderInv` adds to
the properties of orders that there is neither draft nor version before the award
(`OrdersFollowAward`), that an issued or confirmed draft has the terms of its last
version (`IssuedTermsAgree`), that the number a window read grows stale but never names a
version nobody thought of (`ReadsNameTheNextVersion`), and that nobody holds the link of
a version about to be mailed, so that it cannot be answered meanwhile (`MailsAreFirst`).
The refinement maps each kind of step to a step of `OrderContract` or to a stutter.

*Negotiation.* A step leaves a supplier's revisions, edits the last one while it is a
draft, or adds one, superseding a submitted last one (`QuotesMove`). `FilesInv` relates
uploads under way to the store: a file is attached once at most, an upload's file is
its own and in the store before it is recorded, and what it removes at the end no quote
names any more (`UploadIsSound`); only an upload whose recording went unanswered may
remove a file in use. `NegotiationInv` adds that the reminders of a request are counted
in its thread (`RoundsAreCounted`), that no request is open without a thread or after
the award (`RequestsEnd`), that a best-and-final answer that is waited for was asked for
with offers that exist (`BestOfferWasAsked`), and that a window knows a mail was sent
only if the provider took it (`WindowsMailMessages`).

The contract of offers is refined step by step from the same invariant: a step of the
form, of an upload or of the conversation stutters, except that a submission sends, a revision
takes back, a refusal declines and a request may put off a passed deadline. It takes the
invariant to know that only the last revision is ever a draft, so that what `PackagesSent` counts
never shrinks, and that a file is recorded for a draft alone.

*Bridge.* A reference waits, is projected, is given up or starts again (`RowMoves`), and
inbox rows appear only with the projection, for all recipients in one step.
`NotificationInv` says that what waits has an attempt left, that only those are told whom
the event concerns, that somebody was told only of what is projected, and that a reply
under way has every row an applied one had (`RepliesAreFresh`), which the order of
replies rests on.

*Team.* `TeamInv` says that whoever is about to take an admin's rights away saw another
admin (`LooksFoundAnother`), and that a request holds an invitation there is
(`RequestsHoldRows`). Where such calls come one at a time the other admin is one still when the
call writes (`LoneTakerSeesTheAdmins`): whoever could take away its rights meanwhile
would be a second call.

The proofs corrected the model in one place: `SUBSET X \ {{}}` is `SUBSET (X \ {{}})`, so the abstract
`OrderContract!Award` and `EventDelivery!Deliver` allowed an award of nobody and a
delivery to nobody. Both now exclude it, and the refinements show it.

Assumptions: those of the modules only (the owner is not listed among the members,
bounds are naturals, tokens of absence are not members of what they are absent from).
The atomicity of database functions is part of the model, not of the proof.

Only model-checked: the liveness properties `QueuedIsSettled`, `QueueSettles`,
`LastingIsTold` and `ScreenCatchesUp` (outside the prover's reach), and
`OneUnrecordedInvitation` of server actions that overlap, which holds only within the
bounds of its run. Two of the violated properties have no theorem: `SubmittedCanBeRevised`
would need that no result and no event comes after an answer, and
`FailedOrderCanBeReissued` that no order's mail fails, which would leave nothing of what
they say.

## Not modelled

Amounts, prices, tonnes and allocations (the award is its winners and their revisions);
the text and layout of mails; rate limits; authentication and row-level security other
than the roles of governance and membership; retention settings, which nothing reads.
Expiry of the provider's memory of idempotency keys is the provider's policy: the
model's provider never forgets one. Supplier messages are mailed to the buyer with no
record of the result. The bell's three-minute staleness is a matter of display. The two
subscriptions that `connectRealtime` may open (it looks at `channel` before it awaits the
user) differ from one only in the number of hints. Row-lock waits and deadlocks that
Postgres breaks are below the grain of these models, except where `TeamAccess` takes
transactions apart.

*Offer reparse and recovery* has six stages over some twenty tables; what reading it showed:
adopting and rejecting check a run's invalidation before taking any lock; after a
consumed reingest a stale request is accepted whose completion then always fails on a
unique index, while readiness goes on saying `retry_allowed`; two workers may hold
the same reingest; a killed worker leaves it `uploading`; closing reads a state without locking
the run. It comes first in the plan among what is left to model.

*Inbound e-mail* is written but not in operation (its verifier reports itself
unavailable). *Registration*, the *marketplace bridge* and *worker jobs* are next
after that; the remaining components compute, display or configure.

Most of the repository's lines are TypeScript and TSX: pages, forms, tables, copy and calculators in two
languages. The control modelled here lies in SQL functions of some thousand lines and in
a few server actions, so the part of all application lines that the models stand for is
small and stays so.

## Plan

1. Offer recovery as a module of its own, with an abstract specification of a candidate's
   fate (proposed, adopted or rejected once) that its stages implement; then its theorems.
2. Registration, the marketplace bridge and worker jobs.
3. The number a retry takes from the recorded attempts, and the key the result is recorded
   under: the weakest condition on overlapping server actions under which
   `OneUnrecordedInvitation` holds for any number of versions.
