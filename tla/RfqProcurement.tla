---------------------------- MODULE RfqProcurement ----------------------------
(***************************************************************************)
(* From the collected quotes of an RFQ to confirmed purchase orders: the   *)
(* award, the terms, issue and supplier answer of each purchase order, all *)
(* behind the approvals of ApprovalGate.                                   *)
(*                                                                         *)
(* Database functions are single actions.  The server action that issues a *)
(* purchase order (issuePurchaseOrder) is not a transaction: it reads the  *)
(* next version number, prepares the issue, mails the supplier and records *)
(* the delivery, and may be killed in between.  One window is one such     *)
(* call in flight.  The award's server action (confirmRfqAward) carries    *)
(* nothing from the approval request to the award but the payload, and so  *)
(* is the two database calls it makes.                                     *)
(*                                                                         *)
(* The delivery of the invitations and the portal that collects the quotes *)
(* are RfqDelivery's; of the portal, SaveQuote and SubmitQuote are kept.   *)
(***************************************************************************)
EXTENDS ApprovalGate, FiniteSets

CONSTANTS
  Suppliers,     \* the suppliers with a submitted quote
  Terms,         \* operational terms of an order, told apart by their date
  Deadlines,     \* confirmation deadlines the buyer may set
  NoDeadline,    \* the buyer set none
  Windows,       \* issues of a purchase order in flight
  Results,       \* how the mail of an order may end for its window
  MaxRevisions,  \* bound: revisions of a quote
  MaxVersions    \* bound: issued versions of an order

ASSUME ProcurementAssumptions ==
  /\ NoPo \notin Suppliers
  /\ NoDeadline \notin Deadlines
  /\ Results \subseteq {"sent", "failed", "skipped"}
  /\ MaxRevisions \in Nat \ {0}
  /\ MaxVersions \in Nat \ {0}

VARIABLES
  campaign,  \* status of the campaign
  quotes,    \* latest revision of each supplier's quote, and its status
  award,     \* the award: winners, quote revisions, approval consumed
  drafts,    \* the purchase order of each supplier: status and terms
  versions,  \* its issued versions, the number is the position
  window,    \* the server actions in flight
  links,     \* <<supplier, token>> of the order links that suppliers hold
  passed,    \* deadlines in the past
  seen       \* history: the quote revisions when an approval was decided

vars == <<gateVars, campaign, quotes, award, drafts, versions, window, links,
          passed, seen>>

-----------------------------------------------------------------------------
(* mutant: an issued order can be edited and issued again *)
EditableWhenIssued ==
  {"draft", "change_requested", "supplier_rejected", "issued"}

(* mutant: a confirmed order can be edited and issued again *)
EditableWhenConfirmed ==
  {"draft", "change_requested", "supplier_rejected", "supplier_confirmed"}

NoAward == [winners |-> {}, quotes |-> [s \in Suppliers |-> 0],
            gated |-> FALSE, review |-> 0]
Editable == {"draft", "change_requested", "supplier_rejected"}

(* The award's fingerprint covers its allocations and reason, told apart   *)
(* by the winners.  An order's covers the draft's terms and the deadline.  *)
AwardPayload(winners) ==
  [action |-> "award", po |-> NoPo, body |-> winners]
PoPayload(s, due) ==
  [action |-> "po_issue", po |-> s, body |-> <<drafts[s].terms, due>>]

WinnerSets == (SUBSET Suppliers) \ {{}}
AnyDeadline == Deadlines \cup {NoDeadline}
Payloads ==
  [action : {"award"}, po : {NoPo}, body : WinnerSets]
    \cup [action : {"po_issue"}, po : Suppliers, body : Terms \X AnyDeadline]

VersionStatus ==
  {"issued", "supplier_confirmed", "supplier_rejected", "change_requested",
   "superseded"}
(* token: the version number its link was derived from.                    *)
Versions ==
  [status : VersionStatus, token : Nat, terms : Terms, due : AnyDeadline,
   gated : BOOLEAN, review : Nat,
   delivery : {"pending", "sent", "failed", "skipped"}]

WindowStates ==
  [step : {"idle", "read", "send", "mark"}, po : Suppliers \cup {NoPo},
   next : Nat, due : AnyDeadline,
   result : {"none", "sent", "failed", "skipped"}]
Idle == [step |-> "idle", po |-> NoPo, next |-> 0, due |-> NoDeadline,
         result |-> "none"]

Init ==
  /\ GateInit
  /\ campaign = "collecting"
  /\ quotes \in
       [Suppliers -> [no : {1}, status : {"submitted"}, terms : Terms]]
  /\ award = NoAward
  /\ drafts = [s \in Suppliers |->
                 [status |-> "none", terms |-> quotes[s].terms]]
  /\ versions = [s \in Suppliers |-> <<>>]
  /\ window = [w \in Windows |-> Idle]
  /\ links = {}
  /\ passed = {}
  /\ seen = <<>>

-----------------------------------------------------------------------------
(* The suppliers' portal and the passing of time.                          *)

(* Saving an answer after one was submitted starts the next revision.      *)
ReviseQuote(s, t) ==
  /\ campaign = "collecting"
  /\ quotes[s].status = "submitted"
  /\ quotes[s].no < MaxRevisions
  /\ quotes' = [quotes EXCEPT ![s] =
                  [no |-> quotes[s].no + 1, status |-> "draft", terms |-> t]]
  /\ UNCHANGED <<gateVars, campaign, award, drafts, versions, window, links,
                 passed, seen>>

SubmitQuote(s) ==
  /\ campaign = "collecting"
  /\ quotes[s].status = "draft"
  /\ quotes' = [quotes EXCEPT ![s] = [quotes[s] EXCEPT !.status = "submitted"]]
  /\ UNCHANGED <<gateVars, campaign, award, drafts, versions, window, links,
                 passed, seen>>

PassDeadline(d) ==
  /\ passed' = passed \cup {d}
  /\ UNCHANGED <<gateVars, campaign, quotes, award, drafts, versions, window,
                 links, seen>>

-----------------------------------------------------------------------------
(* Governance, team and approvals.                                         *)

unlessGate == <<campaign, quotes, award, drafts, versions, window, links,
                passed>>

Govern ==
  /\ \/ \E u \in Users, policy \in [ActionType -> BOOLEAN] :
          SetGovernance(u, policy)
     \/ \E u \in Users, m \in Members, role \in TeamRole :
          SetTeamMember(u, m, role)
     \/ \E i \in DOMAIN approvals : Lapse(i)
  /\ UNCHANGED <<unlessGate, seen>>

RequestAward ==
  /\ \E u \in Users, winners \in WinnerSets :
       Request(u, AwardPayload(winners))
  /\ UNCHANGED <<unlessGate, seen>>

(* An order is fingerprinted from its draft, which must exist.             *)
RequestIssue ==
  /\ \E u \in Users, s \in Suppliers, due \in AnyDeadline :
       /\ drafts[s].status # "none"
       /\ Request(u, PoPayload(s, due))
  /\ UNCHANGED <<unlessGate, seen>>

(* For an award that is approved, seen keeps the quotes at that moment.    *)
DecideApproval ==
  /\ \E u \in Users, i \in DOMAIN approvals,
        verdict \in {"approved", "rejected"} :
       /\ Decide(u, i, verdict)
       /\ seen' = IF verdict = "approved"
                      /\ approvals[i].payload.action = "award"
                   THEN Append(seen, [approval |-> i, quotes |->
                                [s \in Suppliers |-> quotes[s].no]])
                   ELSE seen
  /\ UNCHANGED unlessGate

-----------------------------------------------------------------------------
(* The award: one transaction that locks the campaign.                     *)

ConfirmAward(winners) ==
  /\ campaign = "collecting"
  /\ \A s \in winners : quotes[s].status = "submitted"
  /\ \E i \in Gate(AwardPayload(winners)) :
       /\ award' = [winners |-> winners,
                    quotes |-> [s \in Suppliers |->
                                  IF s \in winners THEN quotes[s].no ELSE 0],
                    gated |-> required["award"],
                    review |-> i]
       /\ approvals' = Consumed(i)
  /\ campaign' = "awarded"
  /\ drafts' = [s \in Suppliers |->
                  IF s \in winners
                  THEN [status |-> "draft", terms |-> quotes[s].terms]
                  ELSE drafts[s]]
  /\ UNCHANGED <<required, team, quotes, versions, window, links, passed, seen>>

-----------------------------------------------------------------------------
(* The purchase orders.                                                    *)

UpdateTerms(s, t) ==
  /\ drafts[s].status \in Editable
  /\ drafts' = [drafts EXCEPT ![s] = [status |-> "draft", terms |-> t]]
  /\ UNCHANGED <<gateVars, campaign, quotes, award, versions, window, links,
                 passed, seen>>

(* issuePurchaseOrder reads the versions and derives the link from the     *)
(* number it expects; any order can be read, whatever its status.          *)
ReadState(w, s, due) ==
  /\ window[w] = Idle
  /\ drafts[s].status # "none"
  /\ window' = [window EXCEPT ![w] =
                  [step |-> "read", po |-> s, next |-> Len(versions[s]) + 1,
                   due |-> due, result |-> "none"]]
  /\ UNCHANGED <<gateVars, campaign, quotes, award, drafts, versions, links,
                 passed, seen>>

MayIssue(s, due) ==
  /\ drafts[s].status \in Editable
  /\ due \notin passed
  /\ Gate(PoPayload(s, due)) # {}

(* mutant: token_hash is not unique *)
AnyToken(s, n) == TRUE

(* token_hash is unique: a link is never issued twice.                     *)
FreshToken(s, n) ==
  \A v \in DOMAIN versions[s] : versions[s][v].token # n

(* mutant: an order with changes requested keeps its version open *)
SupersededIssued(s) ==
  [v \in DOMAIN versions[s] |->
     IF versions[s][v].status \in {"issued", "supplier_rejected"}
     THEN [versions[s][v] EXCEPT !.status = "superseded"]
     ELSE versions[s][v]]

(* Issuing a version closes every version that could still be answered or  *)
(* was answered without a confirmation.                                    *)
Superseded(s) ==
  [v \in DOMAIN versions[s] |->
     IF versions[s][v].status
          \in {"issued", "supplier_rejected", "change_requested"}
     THEN [versions[s][v] EXCEPT !.status = "superseded"]
     ELSE versions[s][v]]

(* The version window w issues, resting on approval i.                     *)
NewVersion(w, i) ==
  [status |-> "issued", token |-> window[w].next,
   terms |-> drafts[window[w].po].terms, due |-> window[w].due,
   gated |-> required["po_issue"], review |-> i, delivery |-> "pending"]

PrepareIssue(w) ==
  LET s == window[w].po
      due == window[w].due
  IN  /\ window[w].step = "read"
      /\ MayIssue(s, due)
      /\ FreshToken(s, window[w].next)
      /\ Len(versions[s]) < MaxVersions
      /\ \E i \in Gate(PoPayload(s, due)) :
           /\ versions' = [versions EXCEPT ![s] =
                 Append(Superseded(s), NewVersion(w, i))]
           /\ approvals' = Consumed(i)
      /\ drafts' = [drafts EXCEPT ![s] =
                      [status |-> "issued", terms |-> drafts[s].terms]]
      /\ window' = [window EXCEPT ![w] =
                      IF window[w].next = Len(versions[s]) + 1
                      THEN [window[w] EXCEPT !.step = "send"]
                      ELSE Idle]
      /\ UNCHANGED <<required, team, campaign, quotes, award, links, passed,
                     seen>>

(* The versions with version v of s replaced.                              *)
WithVersion(s, v, row) ==
  [versions EXCEPT ![s] = [versions[s] EXCEPT ![v] = row]]

Sent(win, result) == [win EXCEPT !.step = "mark", !.result = result]

(* Mailing the order: no address, no mail; otherwise the provider accepts  *)
(* it, and its reply may be lost, or refuses it.                           *)
SendOrder(w) ==
  /\ window[w].step = "send"
  /\ LET link == <<window[w].po, window[w].next>>
     IN  \/ \E result \in Results \ {"sent"} :
              /\ window' = [window EXCEPT ![w] = Sent(window[w], result)]
              /\ UNCHANGED links
         \/ \E result \in Results \ {"skipped"} :
              /\ window' = [window EXCEPT ![w] = Sent(window[w], result)]
              /\ links' = links \cup {link}
  /\ UNCHANGED <<gateVars, campaign, quotes, award, drafts, versions, passed,
                 seen>>

(* The delivery is recorded, unless that call fails, which is only logged; *)
(* the buyer is shown the link and may hand it over.                       *)
MarkDelivery(w) ==
  LET s == window[w].po
      v == window[w].next
  IN  /\ window[w].step = "mark"
      /\ versions' \in {versions, WithVersion(s, v,
           [versions[s][v] EXCEPT !.delivery = window[w].result])}
      /\ links' \in {links, links \cup {<<s, v>>}}
      /\ window' = [window EXCEPT ![w] = Idle]
      /\ UNCHANGED <<gateVars, campaign, quotes, award, drafts, passed, seen>>

(* A window ends early: a call refused it, or the server was killed.       *)
Stop(w) ==
  /\ window[w] # Idle
  /\ window' = [window EXCEPT ![w] = Idle]
  /\ UNCHANGED <<gateVars, campaign, quotes, award, drafts, versions, links,
                 passed, seen>>

(* mutant: a confirmation may name another date *)
AnyDate(version, decision, date) == TRUE

(* A confirmation that names a date must name the order's own.             *)
DateAgrees(version, decision, date) ==
  decision = "supplier_confirmed" => date \in {NoPo, version.terms}

(* A supplier answers version v by its link; date is NoPo if it names none. *)
(* Answering a version that is not open changes nothing.                   *)
SupplierDecide(s, v, decision, date) ==
  LET version == versions[s][v]
  IN  /\ <<s, version.token>> \in links
      /\ version.status = "issued"
      /\ version.due \notin passed
      /\ DateAgrees(version, decision, date)
      /\ versions' = WithVersion(s, v, [version EXCEPT !.status = decision])
      /\ drafts' = [drafts EXCEPT
           ![s] = [status |-> decision,
                   terms |-> IF decision # "supplier_confirmed"
                             THEN drafts[s].terms
                             ELSE IF date = NoPo THEN version.terms
                             ELSE date]]
      /\ UNCHANGED <<gateVars, campaign, quotes, award, window, links, passed,
                     seen>>

(* mutant: the decision is stored as the supplier sent it *)
RawDecisions == {"confirmed", "rejected", "change_requested"}

(* The three answers, as the statuses they give the version and the draft. *)
Decisions == {"supplier_confirmed", "supplier_rejected", "change_requested"}

Next ==
  \/ Govern
  \/ RequestAward
  \/ RequestIssue
  \/ DecideApproval
  \/ \E winners \in WinnerSets : ConfirmAward(winners)
  \/ \E s \in Suppliers, t \in Terms : ReviseQuote(s, t) \/ UpdateTerms(s, t)
  \/ \E s \in Suppliers : SubmitQuote(s)
  \/ \E d \in Deadlines : PassDeadline(d)
  \/ \E w \in Windows, s \in Suppliers, due \in AnyDeadline : ReadState(w, s, due)
  \/ \E w \in Windows :
       PrepareIssue(w) \/ SendOrder(w) \/ MarkDelivery(w) \/ Stop(w)
  \/ \E s \in Suppliers : \E v \in DOMAIN versions[s] :
       \E decision \in Decisions, date \in Terms \cup {NoPo} :
         SupplierDecide(s, v, decision, date)

Spec == Init /\ [][Next]_vars

-----------------------------------------------------------------------------
(* Properties.                                                             *)

TypeOK ==
  /\ GateTypeOK(Payloads)
  /\ campaign \in {"collecting", "awarded"}
  /\ quotes \in [Suppliers ->
       [no : 1 .. MaxRevisions, status : {"draft", "submitted"}, terms : Terms]]
  /\ award \in [winners : SUBSET Suppliers, quotes : [Suppliers -> Nat],
                gated : BOOLEAN, review : Nat]
  /\ drafts \in [Suppliers ->
       [status : Editable \cup {"none", "issued", "supplier_confirmed"},
        terms : Terms]]
  /\ versions \in [Suppliers -> Seq(Versions)]
  /\ window \in [Windows -> WindowStates]
  /\ links \subseteq Suppliers \X Nat
  /\ passed \subseteq Deadlines
  /\ seen \in Seq([approval : Nat, quotes : [Suppliers -> Nat]])

(* A commitment made under a policy consumed an approval of exactly what   *)
(* it committed, decided by another than the requester.                    *)
ReviewedAs(i, payload) ==
  /\ i \in DOMAIN approvals
  /\ approvals[i].status = "consumed"
  /\ approvals[i].payload = payload
  /\ approvals[i].decider \in Users \ {approvals[i].by}

Issues == UNION {{<<s, v>> : v \in DOMAIN versions[s]} : s \in Suppliers}
IssuePayload(s, v) ==
  [action |-> "po_issue", po |-> s,
   body |-> <<versions[s][v].terms, versions[s][v].due>>]

(* Four eyes: no award and no issued version escapes the policy in force   *)
(* when it was made (rfqh13_assert_award_approval and _po_approval).       *)
CommitmentsWereReviewed ==
  /\ award.gated => ReviewedAs(award.review, AwardPayload(award.winners))
  /\ \A i \in Issues :
       LET version == versions[i[1]][i[2]]
       IN  version.gated => ReviewedAs(version.review, IssuePayload(i[1], i[2]))

(* An approval is spent once, and only by a commitment: it is consumed     *)
(* exactly when one award or issued version rests on it                    *)
(* (rfqh13_consume_approval).                                              *)
RestOn(k) ==
  {<<"award", NoPo, 0>> : x \in {award.review} \cap {k}}
    \cup {<<"po_issue", i[1], i[2]>> :
            i \in {j \in Issues : versions[j[1]][j[2]].review = k}}
ApprovalsAreSpentOnce ==
  \A k \in DOMAIN approvals :
    /\ approvals[k].status = "consumed" <=> RestOn(k) # {}
    /\ \A c, d \in RestOn(k) : c = d

(* The draft and its ledger of versions agree: only the last version can   *)
(* be open or answered, and the draft says so.                             *)
DraftFollowsVersions ==
  \A s \in Suppliers :
    LET last == Len(versions[s])
        open == {"issued", "supplier_confirmed"}
    IN  /\ \A v \in 1 .. last - 1 : versions[s][v].status = "superseded"
        /\ drafts[s].status \in open \cup {"supplier_rejected", "change_requested"}
              => last > 0 /\ versions[s][last].status = drafts[s].status
        /\ last > 0 /\ versions[s][last].status \in open
              => drafts[s].status = versions[s][last].status

(* The order a supplier confirmed is the order that was issued to it: the  *)
(* draft keeps the version's terms (rfqh9_supplier_decide).                *)
ConfirmedAsIssued ==
  \A s \in Suppliers :
    drafts[s].status = "supplier_confirmed" =>
      \E v \in DOMAIN versions[s] :
        /\ versions[s][v].status = "supplier_confirmed"
        /\ versions[s][v].terms = drafts[s].terms

(* A confirmed order is final: no step changes its draft or adds versions. *)
ConfirmedIsFinal ==
  [][\A s \in Suppliers :
       drafts[s].status = "supplier_confirmed" =>
         /\ drafts'[s] = drafts[s]
         /\ Len(versions'[s]) = Len(versions[s])]_vars

(* A link opens the version whose number it was derived from, so the reply *)
(* to an old mail never answers a newer version (createRfqh9PoSecurity).   *)
LinkOpensItsVersion ==
  \A i \in Issues : versions[i[1]][i[2]].token = i[2]

(* What a window is about to mail is the last version, still unanswered:   *)
(* no supplier is mailed an order that is already closed.                  *)
OnlyOpenOrdersAreMailed ==
  \A w \in Windows :
    window[w].step = "send" =>
      LET s == window[w].po
      IN  /\ window[w].next = Len(versions[s])
          /\ versions[s][window[w].next].status = "issued"

(* What the award bought is what the approver was shown: the revision of   *)
(* each winning quote at the decision.  The runbook says the approval is   *)
(* bound to the exact commercial payload; its fingerprint has no price.    *)
AwardAsReviewed ==
  award.gated =>
    \E k \in DOMAIN seen :
      /\ seen[k].approval = award.review
      /\ \A s \in award.winners : seen[k].quotes[s] = award.quotes[s]

(* After a failed delivery a new version can be attempted, as the runbook  *)
(* has it, once no window is at work on the order.                         *)
FailedOrderCanBeReissued ==
  \A s \in Suppliers :
    LET last == Len(versions[s])
    IN  /\ last > 0 /\ versions[s][last].delivery = "failed"
        /\ versions[s][last].status = "issued"
        /\ \A w \in Windows : window[w].po # s
        => drafts[s].status \in Editable

(* An order as its two parties see it: what is offered are the terms of    *)
(* the version that is open, what is agreed those of the confirmed draft.  *)
Order(s) ==
  LET status == drafts[s].status
  IN  CASE status = "none" -> [stage |-> "none"]
        [] status \in Editable -> [stage |-> "open"]
        [] status = "issued" ->
             [stage |-> "offered", terms |-> versions[s][Len(versions[s])].terms]
        [] status = "supplier_confirmed" ->
             [stage |-> "agreed", terms |-> drafts[s].terms]

Contract == INSTANCE OrderContract WITH
  awarded <- campaign = "awarded",
  order <- [s \in Suppliers |-> Order(s)]

(* Award and orders keep the contract of OrderContract: one award opens    *)
(* the winners' orders, and a supplier agrees, once and for good, to the   *)
(* very terms of the version that was issued last (rfqh9_prepare_issue,    *)
(* rfqh9_supplier_decide).                                                 *)
OrdersKeepContract == Contract!Spec
=============================================================================
