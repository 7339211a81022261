----------------------------- MODULE ApprovalGate -----------------------------
(***************************************************************************)
(* Procurement governance: the policies of an organization, the team of    *)
(* one RFQ, and the approvals that stand between a commercial payload and  *)
(* the transaction that commits it.  Every operation is one database       *)
(* function, so one action.  RfqProcurement composes this module with the  *)
(* award and the purchase orders that call Gate and Consume.               *)
(*                                                                         *)
(* A payload names its action, its purchase order (or NoPo) and what the   *)
(* SHA-256 fingerprint covers beyond them.                                 *)
(***************************************************************************)
EXTENDS Naturals, Sequences

CONSTANTS
  Owner,        \* the buyer who owns the RFQ
  Members,      \* other active members of the organization
  Admins,       \* the members with the admin role
  NoPo,         \* "no purchase order": the subject of an award
  MaxApprovals  \* bound: approval requests

ASSUME GateAssumptions ==
  /\ Owner \notin Members
  /\ Admins \subseteq Members \cup {Owner}
  /\ MaxApprovals \in Nat

VARIABLES
  required,  \* the policy flag of each action
  team,      \* active role of each member in the RFQ's team
  approvals  \* buyer_procurement_approvals, oldest first

gateVars == <<required, team, approvals>>

-----------------------------------------------------------------------------
Users == Members \cup {Owner}
ActionType == {"award", "po_issue"}
TeamRole == {"none", "collaborator", "approver"}
ApprovalStatus == {"pending", "approved", "rejected", "expired", "consumed"}

(* lapsed: expires_at is in the past. *)
Approvals(payloads) ==
  [payload : payloads, status : ApprovalStatus, by : Users,
   decider : Users \cup {NoPo}, lapsed : BOOLEAN]

GateTypeOK(payloads) ==
  /\ required \in [ActionType -> BOOLEAN]
  /\ team \in [Members -> TeamRole]
  /\ approvals \in Seq(Approvals(payloads))

GateInit ==
  /\ required = [a \in ActionType |-> FALSE]
  /\ team = [m \in Members |-> "none"]
  /\ approvals = <<>>

HasRole(u, role) == u \in Members /\ team[u] = role
CanManage(u) == u = Owner \/ u \in Admins \/ HasRole(u, "collaborator")
CanManageTeam(u) == u = Owner \/ u \in Admins
CanApprove(u) == u \in Admins \/ HasRole(u, "approver")

Subject(p) == <<p.action, p.po>>
Live(a) == a.status \in {"pending", "approved"}

-----------------------------------------------------------------------------
SetGovernance(u, policy) ==
  /\ u \in Admins
  /\ required' = policy
  /\ UNCHANGED <<team, approvals>>

(* A revoked member is a member without a role.                            *)
SetTeamMember(u, m, role) ==
  /\ CanManageTeam(u)
  /\ team' = [team EXCEPT ![m] = role]
  /\ UNCHANGED <<required, approvals>>

(* Requests of the same subject that ran out are closed first.             *)
Swept(p) ==
  [i \in DOMAIN approvals |->
     IF Live(approvals[i]) /\ approvals[i].lapsed
        /\ Subject(approvals[i].payload) = Subject(p)
     THEN [approvals[i] EXCEPT !.status = "expired"]
     ELSE approvals[i]]

(* A live request for the same payload is returned instead of a new one.   *)
Request(u, p) ==
  /\ required[p.action]
  /\ CanManage(u)
  /\ LET rows == Swept(p)
         known == \E i \in DOMAIN rows :
                    /\ rows[i].payload = p
                    /\ Live(rows[i])
                    /\ ~ rows[i].lapsed
         new == [payload |-> p, status |-> "pending", by |-> u,
                 decider |-> NoPo, lapsed |-> FALSE]
     IN  /\ known \/ Len(rows) < MaxApprovals
         /\ approvals' = IF known THEN rows ELSE Append(rows, new)
  /\ UNCHANGED <<required, team>>

(* Deciding a request that ran out raises, and the raise undoes the update *)
(* that was to mark it expired: nothing changes.                           *)
Decide(u, i, verdict) ==
  /\ CanApprove(u)
  /\ approvals[i].by # u
  /\ approvals[i].status = "pending"
  /\ ~ approvals[i].lapsed
  /\ approvals' = [approvals EXCEPT ![i] =
                    [approvals[i] EXCEPT !.status = verdict, !.decider = u]]
  /\ UNCHANGED <<required, team>>

(* Time passes the expiry of a request.                                    *)
Lapse(i) ==
  /\ Live(approvals[i]) /\ ~ approvals[i].lapsed
  /\ approvals' = [approvals EXCEPT ![i] = [approvals[i] EXCEPT !.lapsed = TRUE]]
  /\ UNCHANGED <<required, team>>

Usable(i, p) ==
  /\ approvals[i].payload = p
  /\ approvals[i].status = "approved"
  /\ ~ approvals[i].lapsed

(* mutant: the gate finds an approval of the subject, not of the payload *)
GateBySubject(p) ==
  IF required[p.action]
  THEN {i \in DOMAIN approvals :
          /\ Subject(approvals[i].payload) = Subject(p)
          /\ approvals[i].status = "approved"
          /\ ~ approvals[i].lapsed}
  ELSE {0}

(* The approvals a commit of p may consume; 0 stands for none needed.      *)
Gate(p) ==
  IF required[p.action] THEN {i \in DOMAIN approvals : Usable(i, p)} ELSE {0}

(* mutant: the consumed approval stays approved *)
KeepApproved(i) == approvals

(* The approvals after the commit has consumed the one it found.           *)
Consumed(i) ==
  IF i = 0 THEN approvals
  ELSE [approvals EXCEPT ![i] = [approvals[i] EXCEPT !.status = "consumed"]]
=============================================================================
