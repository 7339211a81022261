---------------------------- MODULE OrderContract ----------------------------
(***************************************************************************)
(* What procurement promises both parties, without approvals, versions,    *)
(* links, mails and browser tabs: an RFQ is awarded once, which opens an   *)
(* order for each winner; an order is offered on some terms; the supplier  *)
(* agrees to exactly these, for good, or sends the order back.             *)
(***************************************************************************)
CONSTANTS Suppliers, Terms

VARIABLES
  awarded,  \* whether the award was made
  order     \* of each supplier

contractVars == <<awarded, order>>

NoOrder == [stage |-> "none"]
Open == [stage |-> "open"]
Offered(t) == [stage |-> "offered", terms |-> t]
Agreed(t) == [stage |-> "agreed", terms |-> t]

Orders ==
  {NoOrder, Open} \cup {Offered(t) : t \in Terms} \cup {Agreed(t) : t \in Terms}

ContractTypeOK ==
  /\ awarded \in BOOLEAN
  /\ order \in [Suppliers -> Orders]

Init ==
  /\ awarded = FALSE
  /\ order = [s \in Suppliers |-> NoOrder]

Award ==
  /\ ~awarded
  /\ awarded' = TRUE
  /\ \E winners \in (SUBSET Suppliers) \ {{}} :
       order' = [s \in Suppliers |-> IF s \in winners THEN Open ELSE order[s]]

Offer(s) ==
  /\ order[s] = Open
  /\ \E t \in Terms : order' = [order EXCEPT ![s] = Offered(t)]
  /\ UNCHANGED awarded

Answer(s) ==
  /\ \E t \in Terms :
       /\ order[s] = Offered(t)
       /\ order' \in {[order EXCEPT ![s] = Agreed(t)],
                      [order EXCEPT ![s] = Open]}
  /\ UNCHANGED awarded

Next == Award \/ \E s \in Suppliers : Offer(s) \/ Answer(s)

Spec == Init /\ [][Next]_contractVars
=============================================================================
