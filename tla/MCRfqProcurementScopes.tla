------------------------ MODULE MCRfqProcurementScopes ------------------------
(* RfqProcurement in two scopes, each too large for the other's constants: *)
(* people who govern and approve, with one window whose mails arrive; and  *)
(* two windows that meet everything an order can, without policies.        *)
EXTENDS MCRfqProcurement

VARIABLE scope

AtWork == {w \in Windows : window[w] # Idle}

WithinApprovals ==
  /\ Cardinality(AtWork) <= 1
  /\ \A w \in AtWork :
       window[w].result \in {"none", "sent"} /\ window[w].due = NoDeadline
  /\ \A i \in DOMAIN approvals :
       approvals[i].payload.action = "po_issue"
         => approvals[i].payload.body[2] = NoDeadline
  /\ \A s \in Suppliers : quotes[s].no = 1
  /\ passed = {}

WithinWindows ==
  /\ required = [a \in ActionType |-> FALSE]
  /\ team = [m \in Members |-> "none"]

Within == IF scope = "approvals" THEN WithinApprovals ELSE WithinWindows

ScopedInit == Init /\ scope \in {"approvals", "windows"}
ScopedNext == Next /\ UNCHANGED scope /\ Within'
ScopedSpec == ScopedInit /\ [][ScopedNext]_<<vars, scope>>
=============================================================================
