---------------------------- MODULE OfferContract ----------------------------
(***************************************************************************)
(* What the portal promises both parties, without drafts, revisions, tabs, *)
(* uploads, messages and mails: while the RFQ collects, a supplier sends   *)
(* complete offers, one at a time, takes back the one that stands to send  *)
(* another, or declines for good; what was sent stays as it was sent, and  *)
(* the award is made once, of offers that stand, and ends it all.          *)
(***************************************************************************)
EXTENDS Sequences

CONSTANTS Suppliers, Packages  \* a package: an offer with its attachment

VARIABLES
  collecting,  \* whether answers are taken
  awarded,     \* whether the award was made
  answer,      \* of each supplier: none, an offer that stands, or a refusal
  sent         \* the packages each supplier sent, oldest first

contractVars == <<collecting, awarded, answer, sent>>

ContractTypeOK ==
  /\ collecting \in BOOLEAN /\ awarded \in BOOLEAN
  /\ answer \in [Suppliers -> {"none", "offer", "declined"}]
  /\ sent \in [Suppliers -> Seq(Packages)]

Init ==
  /\ collecting = TRUE
  /\ awarded = FALSE
  /\ answer = [s \in Suppliers |-> "none"]
  /\ sent = [s \in Suppliers |-> <<>>]

Send(s) ==
  /\ collecting
  /\ answer[s] = "none"
  /\ answer' = [answer EXCEPT ![s] = "offer"]
  /\ \E p \in Packages : sent' = [sent EXCEPT ![s] = Append(sent[s], p)]
  /\ UNCHANGED <<collecting, awarded>>

TakeBack(s) ==
  /\ collecting
  /\ answer[s] = "offer"
  /\ answer' = [answer EXCEPT ![s] = "none"]
  /\ UNCHANGED <<collecting, awarded, sent>>

Decline(s) ==
  /\ collecting
  /\ answer[s] = "none"
  /\ answer' = [answer EXCEPT ![s] = "declined"]
  /\ UNCHANGED <<collecting, awarded, sent>>

(* The deadline passes, or is put off once it has passed.                  *)
Deadline ==
  /\ ~awarded
  /\ collecting' = ~collecting
  /\ UNCHANGED <<awarded, answer, sent>>

Award ==
  /\ ~awarded
  /\ \E s \in Suppliers : answer[s] = "offer"
  /\ awarded' = TRUE
  /\ collecting' = FALSE
  /\ UNCHANGED <<answer, sent>>

Next ==
  \/ Deadline
  \/ Award
  \/ \E s \in Suppliers : Send(s) \/ TakeBack(s) \/ Decline(s)

Spec == Init /\ [][Next]_contractVars
=============================================================================
