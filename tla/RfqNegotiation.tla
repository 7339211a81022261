---------------------------- MODULE RfqNegotiation ----------------------------
(***************************************************************************)
(* The private conversation of the buyer with each supplier of an open     *)
(* RFQ, on top of the supplier's portal: requests (a clarification, a      *)
(* revision, a counter target, a best and final offer), reminders, the     *)
(* supplier's messages, the trigger that answers a request when a quote is *)
(* submitted, the notification mails and the award that ends it all.       *)
(*                                                                         *)
(* Posting a message and mailing it are apart: the server action posts it  *)
(* in one call of the database, sends one mail and records the result in   *)
(* another call, and may be killed in between; nothing takes the message   *)
(* up again.  One window is one such action in flight.                     *)
(*                                                                         *)
(* A day is the reminders' cooldown.  The approvals the award passes are   *)
(* RfqProcurement's.                                                       *)
(***************************************************************************)
EXTENDS SupplierPortal, FiniteSets

LOCAL INSTANCE Functions

CONSTANTS
  Requests,       \* the kinds of request
  Windows,        \* server actions that post and mail a message
  MaxReminders,   \* reminders of a request; 2 in the code
  Casts           \* bound: who takes part, and how much happens together

ASSUME NegotiationAssumptions ==
  /\ Requests \subseteq {"clarification", "revision", "counter_target", "bafo"}
  /\ MaxReminders \in Nat
  /\ Casts \subseteq [tabs : SUBSET Tabs, uploads : SUBSET Uploads,
                     windows : SUBSET Windows, activity : Nat,
                     results : SUBSET {"sent", "failed", "skipped"},
                     faults : BOOLEAN]

VARIABLES
  thread,    \* the thread of each supplier
  messages,  \* its messages, oldest first
  window,    \* the server actions in flight
  mailed,    \* <<supplier, message>> of the mails the provider accepted
  cast,      \* the bound of this behaviour
  asked      \* history: the last request; for a BAFO, the offers known then

threadVars == <<thread, messages, window, mailed, cast, asked>>
vars == <<portalVars, threadVars>>

-----------------------------------------------------------------------------
NoRequest == "none"
Threads ==
  [status : {"none", "awaiting_supplier", "awaiting_buyer", "bafo_requested",
             "bafo_received", "closed"},
   request : Requests \cup {NoRequest}, due : Days \cup {NoDue},
   reminders : 0 .. MaxReminders,
   anchor : Days,  \* day of the open request or of its last reminder
   round : Nat]
NoThread == [status |-> "none", request |-> NoRequest, due |-> NoDue,
             reminders |-> 0, anchor |-> 0, round |-> 0]

Messages ==
  [kind : Requests \cup {"message", "reminder", "supplier", "system"},
   round : Nat,
   notice : {"pending", "sent", "failed", "skipped", "not_required"}]
FromBuyer(kind, round) == [kind |-> kind, round |-> round, notice |-> "pending"]
ToBuyer(kind, round) ==
  [kind |-> kind, round |-> round, notice |-> "not_required"]

WindowStates ==
  [step : {"idle", "send", "mark"}, message : (Suppliers \X Nat) \cup {NoQuote},
   result : {"none", "sent", "failed", "skipped"}]
Idle == [step |-> "idle", message |-> NoQuote, result |-> "none"]

Submitted(s) ==
  Cardinality({r \in DOMAIN quotes[s] :
                 quotes[s][r].status \in {"submitted", "superseded"}})

Init ==
  /\ PortalInit
  /\ thread = [s \in Suppliers |-> NoThread]
  /\ messages = [s \in Suppliers |-> <<>>]
  /\ window = [w \in Windows |-> Idle]
  /\ mailed = {}
  /\ cast \in Casts
  /\ asked = [s \in Suppliers |-> [request |-> NoRequest, known |-> 0]]

-----------------------------------------------------------------------------
(* The buyer's messages.                                                   *)

(* mutant: the campaign takes the deadline of the last request *)
LastDue(d) == IF d = NoDue THEN due ELSE d

(* A request that is due after the campaign extends it, for every supplier; *)
(* a campaign without a deadline takes the request's.                      *)
ExtendedDue(d) ==
  IF d # NoDue /\ (due = NoDue \/ d > due) THEN d ELSE due

(* mutant: a plain message leaves the request as it was *)
ThreadKept(s, kind, d) ==
  IF kind = "message" THEN [thread[s] EXCEPT !.status = "awaiting_supplier"]
  ELSE [status |-> IF kind = "bafo" THEN "bafo_requested"
                   ELSE "awaiting_supplier",
        request |-> kind, due |-> d, reminders |-> 0, anchor |-> now,
        round |-> thread[s].round + 1]

(* The thread after a buyer's message.  A request opens the next round; a  *)
(* plain message withdraws the request that is open.  Deadline and anchor  *)
(* are kept for an open request only: nothing else reads them.             *)
ThreadAfter(s, kind, d) ==
  IF kind = "message"
  THEN [thread[s] EXCEPT !.status = "awaiting_supplier",
          !.request = NoRequest, !.due = NoDue, !.anchor = 0]
  ELSE [status |-> IF kind = "bafo" THEN "bafo_requested"
                   ELSE "awaiting_supplier",
        request |-> kind, due |-> d, reminders |-> 0, anchor |-> now,
        round |-> thread[s].round + 1]

(* Window w takes up the message just added to the thread of s.            *)
Posted(w, s) ==
  window' = [window EXCEPT ![w] =
    [step |-> "send", message |-> <<s, Len(messages'[s])>>, result |-> "none"]]

BuyerPost(w, s, kind, d) ==
  /\ window[w] = Idle
  /\ campaign = "collecting"
  /\ Available(s)
  /\ d # NoDue => d > now
  /\ kind = "bafo" => d # NoDue
  /\ thread[s].status # "closed"
  /\ thread' = [thread EXCEPT ![s] = ThreadAfter(s, kind, d)]
  /\ messages' = [messages EXCEPT ![s] =
                    Append(messages[s], FromBuyer(kind, thread'[s].round))]
  /\ due' = ExtendedDue(d)
  /\ asked' = [asked EXCEPT ![s] =
                 [request |-> thread'[s].request,
                  known |-> IF kind = "bafo" THEN Submitted(s) ELSE 0]]
  /\ Posted(w, s)
  /\ UNCHANGED <<campaign, now, dispatch, quotes, tab, upload, stored, unsure,
                 mailed, cast>>

(* mutant: the limit of the reminders is not looked at *)
RemindableForever(s) ==
  /\ thread[s].status \in {"awaiting_supplier", "bafo_requested"}
  /\ thread[s].request # NoRequest
  /\ thread[s].anchor < now

(* A reminder looks at the thread alone: not at the campaign, its deadline *)
(* or what became of the supplier.                                         *)
Remindable(s) ==
  /\ thread[s].status \in {"awaiting_supplier", "bafo_requested"}
  /\ thread[s].request # NoRequest
  /\ thread[s].reminders < MaxReminders
  /\ thread[s].anchor < now

PrepareReminder(w, s) ==
  /\ window[w] = Idle
  /\ Remindable(s)
  /\ messages' = [messages EXCEPT ![s] =
                    Append(messages[s], FromBuyer("reminder", thread[s].round))]
  /\ thread' = [thread EXCEPT ![s] =
                  [thread[s] EXCEPT !.reminders = thread[s].reminders + 1,
                                    !.anchor = now]]
  /\ Posted(w, s)
  /\ UNCHANGED <<portalVars, mailed, cast, asked>>

-----------------------------------------------------------------------------
(* The mail that announces a message.                                      *)

Sent(w, result) ==
  window' = [window EXCEPT ![w] = [window[w] EXCEPT !.step = "mark",
                                                    !.result = result]]

(* Without an address there is no mail; without a configured channel, or   *)
(* if the provider refuses it, it failed; the provider's answer to a mail  *)
(* it accepted may be lost.  The link and the address are read anew, the   *)
(* supplier's status is not.                                               *)
SendNotification(w) ==
  /\ window[w].step = "send"
  /\ \/ \E result \in cast.results \ {"sent"} :
          /\ Sent(w, result)
          /\ UNCHANGED mailed
     \/ \E result \in cast.results \ {"skipped"} :
          /\ Sent(w, result)
          /\ mailed' = mailed \cup {window[w].message}
  /\ UNCHANGED <<portalVars, thread, messages, cast, asked>>

(* mutant: the result of a lost mail is recorded as sent *)
Optimistic(w) == "sent"

Result(w) == window[w].result

(* Recording the result may itself fail, which is only logged.             *)
MarkNotification(w) ==
  LET s == window[w].message[1]
      k == window[w].message[2]
  IN  /\ window[w].step = "mark"
      /\ messages' \in
           (IF cast.faults THEN {messages} ELSE {}) \cup
           {[messages EXCEPT ![s] =
               [messages[s] EXCEPT ![k] =
                  [messages[s][k] EXCEPT !.notice = Result(w)]]]}
      /\ window' = [window EXCEPT ![w] = Idle]
      /\ UNCHANGED <<portalVars, thread, mailed, cast, asked>>

(* The server is killed: the message stays "pending".                      *)
DropWindow(w) ==
  /\ cast.faults
  /\ window[w] # Idle
  /\ window' = [window EXCEPT ![w] = Idle]
  /\ UNCHANGED <<portalVars, thread, messages, mailed, cast, asked>>

(* mutant: a bounce closes the portal even to a supplier who answered *)
BouncedAlways(s) == "bounced"

(* A negotiation mail that bounces closes the portal, unless the supplier  *)
(* has answered already.                                                   *)
AfterBounce(s) ==
  IF dispatch[s] \in {"responded", "declined"} THEN dispatch[s] ELSE "bounced"

(* The webhook finds a mail by the id that MarkNotification recorded;      *)
(* of a mail it does not find it keeps nothing but the event.              *)
NotificationBounced(s, k) ==
  /\ <<s, k>> \in mailed
  /\ messages[s][k].notice = "sent"
  /\ dispatch' = [dispatch EXCEPT ![s] = AfterBounce(s)]
  /\ UNCHANGED <<campaign, due, now, quotes, tab, upload, stored, unsure,
                 threadVars>>

-----------------------------------------------------------------------------
(* The supplier's part.                                                    *)

(* A message answers a clarification; it leaves the others waiting.        *)
SupplierPost(s) ==
  /\ Available(s)
  /\ campaign = "collecting"
  /\ thread[s].status # "closed"
  /\ messages' = [messages EXCEPT ![s] =
                    Append(messages[s], ToBuyer("supplier", thread[s].round))]
  /\ thread' = [thread EXCEPT ![s] =
       [thread[s] EXCEPT !.status =
          CASE thread[s].request = "bafo" -> "bafo_requested"
            [] thread[s].request \in {"revision", "counter_target"}
                 -> "awaiting_supplier"
            [] OTHER -> "awaiting_buyer"]]
  /\ UNCHANGED <<portalVars, window, mailed, cast, asked>>

(* mutant: every submission counts as the best and final offer *)
AlwaysBafo(s) == "bafo_received"

ReceivedStatus(s) ==
  IF thread[s].request = "bafo" THEN "bafo_received" ELSE "awaiting_buyer"

(* The trigger looks for a request to answer.                              *)
Answerable(s) ==
  /\ thread[s].status \notin {"none", "closed"}
  /\ thread[s].request # NoRequest

QuoteSubmissionSync(s) ==
  IF Answerable(s)
  THEN /\ messages' = [messages EXCEPT ![s] =
                         Append(messages[s], ToBuyer("system", thread[s].round))]
       /\ thread' = [thread EXCEPT ![s] =
            [thread[s] EXCEPT !.status = ReceivedStatus(s),
               !.request = NoRequest, !.due = NoDue, !.reminders = 0,
               !.anchor = 0]]
  ELSE UNCHANGED <<thread, messages>>

SubmitAndSync(t) ==
  /\ SubmitQuote(t)
  /\ QuoteSubmissionSync(tab[t])
  /\ UNCHANGED <<window, mailed, cast, asked>>

Portal ==
  /\ \/ PassDay
     \/ \E s \in Responders, lines \in Answers :
          \/ SaveDraft(s, lines)
          \/ \E t \in cast.tabs : SaveToSubmit(t, s, lines)
     \/ \E t \in cast.tabs : LeaveTab(t)
     \/ \E s \in Responders : DeclineQuote(s) \/ StartRevision(s)
     \/ \E u \in cast.uploads : AttachmentStep(u)
  /\ UNCHANGED threadVars

-----------------------------------------------------------------------------
(* mutant: the award leaves the threads as they are *)
StillOpen(s) == thread[s]

Closed(s) ==
  IF thread[s].status = "none" THEN thread[s]
  ELSE [thread[s] EXCEPT !.status = "closed", !.request = NoRequest,
                         !.due = NoDue, !.anchor = 0]

(* The award closes the threads of winners and losers alike.               *)
ConfirmAward ==
  /\ campaign = "collecting"
  /\ \E s \in Suppliers : Status(s) = "submitted"
  /\ campaign' = "awarded"
  /\ thread' = [s \in Suppliers |-> Closed(s)]
  /\ UNCHANGED <<due, now, dispatch, quotes, tab, upload, stored, unsure,
                 messages, window, mailed, cast, asked>>

(* The bound: what a state holds of messages, revisions and uploads, with  *)
(* what is in flight.                                                      *)
InFlightCount ==
  Cardinality({t \in Tabs : tab[t] # "idle"})
  + Cardinality({u \in Uploads : upload[u] # NoUpload})
  + Cardinality({w \in Windows : window[w] # Idle})
Activity ==
  InFlightCount + SumFunction([s \in Suppliers |->
     Len(messages[s]) + Len(quotes[s])
       + (IF quotes[s] = <<>> THEN 0 ELSE Current(s).uploads)])

Step ==
  \/ Portal
  \/ \E t \in cast.tabs : SubmitAndSync(t)
  \/ \E s \in Responders : SupplierPost(s)
  \/ ConfirmAward
  \/ \E w \in cast.windows :
       \/ \E s \in Suppliers :
            \/ \E kind \in Requests \cup {"message"},
                 d \in (Days \ {0}) \cup {NoDue} : BuyerPost(w, s, kind, d)
            \/ PrepareReminder(w, s)
       \/ SendNotification(w)
       \/ MarkNotification(w)
       \/ DropWindow(w)
  \/ \E s \in Suppliers : \E k \in DOMAIN messages[s] : NotificationBounced(s, k)

Next == Step /\ Activity' <= cast.activity

Spec == Init /\ [][Next]_vars

-----------------------------------------------------------------------------
(* Properties.                                                             *)

TypeOK ==
  /\ PortalTypeOK
  /\ thread \in [Suppliers -> Threads]
  /\ messages \in [Suppliers -> Seq(Messages)]
  /\ window \in [Windows -> WindowStates]
  /\ mailed \subseteq Suppliers \X Nat
  /\ cast \in Casts
  /\ asked \in [Suppliers -> [request : Requests \cup {NoRequest}, known : Nat]]

(* A request is open exactly while the thread waits for it, whoever wrote  *)
(* last; only a clarification is answered by a message.  A thread that     *)
(* waits for nobody's answer, or is closed, has no request left.           *)
ThreadWaitsForRequest ==
  \A s \in Suppliers :
    LET t == thread[s]
    IN  /\ t.request = "bafo" <=> t.status = "bafo_requested"
        /\ t.request \in {"revision", "counter_target"}
              => t.status = "awaiting_supplier"
        /\ t.status \in {"bafo_received", "closed"} => t.request = NoRequest

(* A supplier who is asked for an answer by a date can give it until then: *)
(* the deadline of the campaign, which the portal checks, is not before    *)
(* the deadline of any open request of any supplier (rfqh6_buyer_post).    *)
AskedInTime ==
  \A s \in Suppliers :
    thread[s].request # NoRequest /\ thread[s].due # NoDue =>
      /\ campaign = "collecting"
      /\ due # NoDue /\ thread[s].due <= due

(* "Best and final offer received" is said only of an offer the buyer had  *)
(* not seen when it asked for it, and only if that request was its last    *)
(* word (rfqh6_quote_submission_sync).                                     *)
BestOfferIsNew ==
  \A s \in Suppliers :
    thread[s].status = "bafo_received" =>
      /\ asked[s].request = "bafo"
      /\ Submitted(s) > asked[s].known

(* No request is reminded of more than MaxReminders times, however many    *)
(* messages and revisions pass in between (rfqh6_prepare_reminder).        *)
RemindersPerRequest ==
  \A s \in Suppliers : \A round \in 0 .. thread[s].round :
    Cardinality({k \in DOMAIN messages[s] :
       messages[s][k].kind = "reminder" /\ messages[s][k].round = round})
      <= MaxReminders

(* The award ends the conversation: no message is added, no quote          *)
(* submitted and no revision started after it.                             *)
AwardEndsNegotiation ==
  [][campaign = "awarded" =>
       /\ campaign' = "awarded"
       /\ \A s \in Suppliers :
            /\ Len(messages'[s]) = Len(messages[s])
            /\ Len(quotes'[s]) <= Len(quotes[s])
            /\ Submitted(s)' = Submitted(s)]_vars

(* A mail is recorded as sent only if the provider took it, and a message  *)
(* that was never mailed is never recorded as sent.                        *)
SentWasMailed ==
  \A s \in Suppliers : \A k \in DOMAIN messages[s] :
    messages[s][k].notice = "sent" => <<s, k>> \in mailed

(* A supplier's answer outlives the mails: no bounce of a negotiation mail *)
(* takes back that a supplier responded or declined, which would close its *)
(* portal (rfqh3_ingest_resend_event).                                     *)
AnswerOutlivesMail ==
  [][\A s \in Suppliers :
       /\ dispatch[s] = "responded" => dispatch'[s] \in {"responded", "declined"}
       /\ dispatch[s] = "declined" => dispatch'[s] = "declined"]_dispatch

-----------------------------------------------------------------------------
(* What the buyer knows of the answer of supplier s: a draft, of a first   *)
(* quote or of a revision, is none, and does not count as sent.            *)
Answer(s) ==
  CASE Status(s) = "submitted" -> "offer"
    [] Status(s) = "declined" -> "declined"
    [] OTHER -> "none"
PackagesSent(s) ==
  LET open == IF Status(s) \in {"none", "submitted"} THEN 0 ELSE 1
  IN  [r \in 1 .. Len(quotes[s]) - open |->
         [lines |-> quotes[s][r].lines, file |-> quotes[s][r].file]]

Contract == INSTANCE OfferContract WITH
  Packages <- [lines : Offers, file : Files \cup {NoFile}],
  collecting <- campaign = "collecting" /\ ~Expired,
  awarded <- campaign = "awarded",
  answer <- [s \in Suppliers |-> Answer(s)],
  sent <- [s \in Suppliers |-> PackagesSent(s)]

(* Portal, conversation and award keep the contract of OfferContract: an   *)
(* offer is sent complete and before the deadline, stands until a revision *)
(* takes it back or the supplier declines before the deadline, and whatever*)
(* tabs, uploads, bounces and the buyer's messages do, what was sent stays.*)
OffersKeepContract == Contract!Spec
=============================================================================
