------------------------------ MODULE TeamAccess ------------------------------
(***************************************************************************)
(* Who works in an organization: members and their roles, suspension, the  *)
(* closing of an account, and the invitations by which members join.       *)
(*                                                                         *)
(* The functions that take rights away are transactions, but at Postgres's *)
(* default isolation: each of their statements sees what was committed     *)
(* until then.  They lock the row they change and not the rows they count, *)
(* and so are taken apart here: they ask who calls, look (and lock), and   *)
(* write.  The other functions lock the row they decide on and are one     *)
(* action.  Inviting is no transaction at all: a service makes five calls  *)
(* of the database around a mail.                                          *)
(*                                                                         *)
(* One organization.  A viewer is a member here, and the business role is  *)
(* left out: nothing below looks at either.                                *)
(***************************************************************************)
EXTENDS Naturals, Sequences, FiniteSets

CONSTANTS
  Users,
  Invitees,       \* bound: those who are invited
  Calls,          \* transactions in flight that take rights away or give them
  Requests,       \* requests to invite in flight
  Nobody,
  MaxInvitations  \* bound: invitations of one address

ASSUME TeamAssumptions ==
  /\ Invitees \subseteq Users
  /\ Nobody \notin Users
  /\ MaxInvitations \in Nat

VARIABLES
  member,   \* membership of each user
  closing,  \* users whose request to close the account is recorded
  invites,  \* the invitations of each user's address, oldest first
  call,     \* the transactions in flight
  request   \* the requests to invite in flight

vars == <<member, closing, invites, call, request>>

-----------------------------------------------------------------------------
Roles == {"admin", "member"}
Status == {"none", "active", "suspended"}
Memberships == [status : Status, role : Roles]

Invitations ==
  [status : {"pending", "accepted", "revoked", "expired"}, role : Roles,
   stale : BOOLEAN]  \* stale: expires_at is in the past
Pending(role) == [status |-> "pending", role |-> role, stale |-> FALSE]

(* seen: the admins there were when the call looked                        *)
CallStates ==
  [step : {"idle", "asked", "write"}, op : {"role", "status", "close"},
   target : Users \cup {Nobody}, to : Roles \cup Status, seen : SUBSET Users]
NoCall == [step |-> "idle", op |-> "close", target |-> Nobody, to |-> "none",
           seen |-> {}]

(* row: the pending invitation that was found, or the one that was stored  *)
RequestStates ==
  [step : {"idle", "asked", "new", "store", "deliver", "undo"},
   user : Users \cup {Nobody}, role : Roles, row : Nat, found : BOOLEAN]
NoRequest == [step |-> "idle", user |-> Nobody, role |-> "member", row |-> 0,
              found |-> FALSE]

Active == {u \in Users : member[u].status = "active"}
Admins == {u \in Active : member[u].role = "admin"}

Init ==
  /\ member \in [Users -> Memberships]
  /\ \A u \in Users : member[u].status = "none" => member[u].role = "member"
  /\ Admins # {}
  /\ closing = {}
  /\ invites = [u \in Users |-> <<>>]
  /\ call = [c \in Calls |-> NoCall]
  /\ request = [q \in Requests |-> NoRequest]

-----------------------------------------------------------------------------
(* Changing a role, suspending, reactivating and closing an account.       *)

Ask(c, op, target, to) ==
  /\ call[c] = NoCall
  /\ call' = [call EXCEPT ![c] =
       [step |-> "asked", op |-> op, target |-> target, to |-> to, seen |-> {}]]
  /\ UNCHANGED <<member, closing, invites, request>>

SetRole(c, u, t, role) == u \in Admins /\ Ask(c, "role", t, role)

(* Nobody suspends oneself.                                                *)
SetStatus(c, u, t, status) ==
  /\ u \in Admins
  /\ status = "suspended" => t # u
  /\ Ask(c, "status", t, status)

(* Who asked before is told so and nothing else happens.                   *)
RequestClosing(c, u) == u \notin closing /\ Ask(c, "close", u, "suspended")

(* A call that writes without having locked its row waits for who has.     *)
Locked(t, c) ==
  \E d \in Calls \ {c} :
    call[d].step = "write" /\ call[d].op # "close" /\ call[d].target = t

Others(t) == Admins \ {t}

(* The call takes the rights of an active admin away.                      *)
Removes(c) == call[c].target \in Admins /\ call[c].to # "admin"

(* mutant: closing an account does not ask for another admin *)
PermitsClosing(c) ==
  LET t == call[c].target
  IN  CASE call[c].op = "role" -> t \in Active /\ (Removes(c) => Others(t) # {})
        [] call[c].op = "status" ->
             /\ member[t].status \notin {"none", call[c].to}
             /\ Removes(c) => Others(t) # {}
        [] call[c].op = "close" -> t \in Active => Active # {t}

(* What each function refuses: a role of somebody who is not active, a     *)
(* status that is the present one, and the last admin or the last member.  *)
Permits(c) ==
  LET t == call[c].target
  IN  CASE call[c].op = "role" -> t \in Active /\ (Removes(c) => Others(t) # {})
        [] call[c].op = "status" ->
             /\ member[t].status \notin {"none", call[c].to}
             /\ Removes(c) => Others(t) # {}
        [] call[c].op = "close" ->
             /\ t \in Active => Active # {t}
             /\ Removes(c) => Others(t) # {}

Look(c) ==
  /\ call[c].step = "asked"
  /\ call[c].op # "close" => ~Locked(call[c].target, c)
  /\ call' = [call EXCEPT ![c] =
       IF Permits(c)
       THEN [call[c] EXCEPT !.step = "write", !.seen = Admins]
       ELSE NoCall]
  /\ UNCHANGED <<member, closing, invites, request>>

(* Closing suspends a membership that is active by then.                   *)
Written(c) ==
  LET m == member[call[c].target]
  IN  CASE call[c].op = "role" -> [m EXCEPT !.role = call[c].to]
        [] call[c].op = "status" -> [m EXCEPT !.status = call[c].to]
        [] call[c].op = "close" ->
             IF m.status = "active" THEN [m EXCEPT !.status = "suspended"] ELSE m

Write(c) ==
  /\ call[c].step = "write"
  /\ ~Locked(call[c].target, c)
  /\ member' = [member EXCEPT ![call[c].target] = Written(c)]
  /\ closing' = IF call[c].op = "close" THEN closing \cup {call[c].target}
                ELSE closing
  /\ call' = [call EXCEPT ![c] = NoCall]
  /\ UNCHANGED <<invites, request>>

-----------------------------------------------------------------------------
(* Inviting: the service checks that an admin asks and that the address is *)
(* no active member's, looks for a pending invitation, renews it or stores *)
(* a new one, has the mail sent and records the delivery.                  *)

Proceed(q, r) ==
  /\ request' = [request EXCEPT ![q] = r]
  /\ UNCHANGED <<member, closing, call>>

Invite(q, u, t, role) ==
  /\ request[q] = NoRequest
  /\ u \in Admins
  /\ Proceed(q, [NoRequest EXCEPT !.step = "asked", !.user = t, !.role = role])
  /\ UNCHANGED invites

CheckMember(q) ==
  /\ request[q].step = "asked"
  /\ Proceed(q, IF request[q].user \in Active THEN NoRequest
                ELSE [request[q] EXCEPT !.step = "new"])
  /\ UNCHANGED invites

Open(u) == {k \in DOMAIN invites[u] : invites[u][k].status = "pending"}

FindPending(q) ==
  /\ request[q].step = "new"
  /\ \E k \in IF Open(request[q].user) = {} THEN {0} ELSE Open(request[q].user) :
       Proceed(q, [request[q] EXCEPT !.step = "store", !.row = k,
                                     !.found = k # 0])
  /\ UNCHANGED invites

(* mutant: an invitation that is renewed is pending again *)
Reopened(invitation, role) == Pending(role)

(* Renewing sets role and expiry of the row that was found, whatever has   *)
(* become of it.                                                           *)
Renewed(invitation, role) == [invitation EXCEPT !.role = role, !.stale = FALSE]

Store(q) ==
  LET r == request[q]
      u == r.user
  IN  /\ r.step = "store"
      /\ \/ /\ r.found
            /\ invites' = [invites EXCEPT ![u] =
                 [invites[u] EXCEPT ![r.row] = Renewed(invites[u][r.row], r.role)]]
            /\ Proceed(q, [r EXCEPT !.step = "deliver"])
         \/ /\ ~r.found /\ Open(u) = {}
            /\ Len(invites[u]) < MaxInvitations
            /\ invites' = [invites EXCEPT ![u] =
                             Append(invites[u], Pending(r.role))]
            /\ Proceed(q, [r EXCEPT !.step = "deliver",
                                    !.row = Len(invites[u]) + 1])
         \/ /\ ~r.found /\ Open(u) # {}  \* one pending invitation an address
            /\ Proceed(q, NoRequest)
            /\ UNCHANGED invites

(* The mail is sent and recorded, or one of the two fails.                 *)
Deliver(q) ==
  /\ request[q].step = "deliver"
  /\ \E r \in {NoRequest, [request[q] EXCEPT !.step = "undo"]} : Proceed(q, r)
  /\ UNCHANGED invites

(* mutant: the failure is recorded in the status of the invitation *)
MarkedFailed(invitation) == [invitation EXCEPT !.status = "failed"]

Withdrawn(invitation) == [invitation EXCEPT !.status = "revoked"]

(* After a failure a new invitation is revoked, whatever has become of it; *)
(* a renewed one stays.                                                    *)
Undo(q) ==
  LET r == request[q]
  IN  /\ r.step = "undo"
      /\ invites' =
           IF r.found THEN invites
           ELSE [invites EXCEPT ![r.user] =
                  [invites[r.user] EXCEPT ![r.row] =
                     Withdrawn(invites[r.user][r.row])]]
      /\ Proceed(q, NoRequest)

(* The service is killed or the database does not answer it.               *)
Drop(q) ==
  /\ request[q] # NoRequest
  /\ Proceed(q, NoRequest)
  /\ UNCHANGED invites

-----------------------------------------------------------------------------
(* The life of an invitation.                                              *)

SetInvitation(u, k, status) ==
  /\ invites' = [invites EXCEPT ![u] = [invites[u] EXCEPT ![k].status = status]]
  /\ UNCHANGED <<closing, call, request>>

(* A member who is active keeps the role, any other gets the invitation's. *)
Joined(u, role) ==
  [status |-> "active", role |-> IF u \in Active THEN member[u].role ELSE role]

(* By the link in the mail, or without it at every login.                  *)
Claim(u, k) ==
  /\ k \in Open(u)
  /\ ~invites[u][k].stale
  /\ ~Locked(u, Nobody)
  /\ member' = [member EXCEPT ![u] = Joined(u, invites[u][k].role)]
  /\ SetInvitation(u, k, "accepted")

(* A claim, or a look at the invitation, that comes too late.              *)
Expire(u, k) ==
  /\ k \in Open(u)
  /\ invites[u][k].stale
  /\ SetInvitation(u, k, "expired")
  /\ UNCHANGED member

Revoke(u, t, k) ==
  /\ u \in Admins
  /\ k \in Open(t)
  /\ SetInvitation(t, k, "revoked")
  /\ UNCHANGED member

(* Seven days pass.                                                        *)
Lapse(u, k) ==
  /\ k \in Open(u)
  /\ ~invites[u][k].stale
  /\ invites' = [invites EXCEPT ![u] = [invites[u] EXCEPT ![k].stale = TRUE]]
  /\ UNCHANGED <<member, closing, call, request>>

-----------------------------------------------------------------------------
Next ==
  \/ \E c \in Calls :
       \/ \E u, t \in Users :
            \/ \E role \in Roles : SetRole(c, u, t, role)
            \/ \E status \in {"active", "suspended"} : SetStatus(c, u, t, status)
       \/ \E u \in Users : RequestClosing(c, u)
       \/ Look(c)
       \/ Write(c)
  \/ \E q \in Requests :
       \/ \E u \in Users, t \in Invitees, role \in Roles : Invite(q, u, t, role)
       \/ CheckMember(q) \/ FindPending(q) \/ Store(q) \/ Deliver(q)
       \/ Undo(q) \/ Drop(q)
  \/ \E t \in Invitees : \E k \in DOMAIN invites[t] :
       \/ Claim(t, k) \/ Expire(t, k) \/ Lapse(t, k)
       \/ \E u \in Users : Revoke(u, t, k)

Spec == Init /\ [][Next]_vars

-----------------------------------------------------------------------------
(* Properties.                                                             *)

TypeOK ==
  /\ member \in [Users -> Memberships]
  /\ closing \subseteq Users
  /\ invites \in [Users -> Seq(Invitations)]
  /\ call \in [Calls -> CallStates]
  /\ request \in [Requests -> RequestStates]

(* The guard of the last admin ("prevents accidental tenant lockout",      *)
(* docs/p1-tenant-onboarding.md) holds as far as a transaction sees: an    *)
(* organization loses its last admin only by a call that writes when the   *)
(* admins are others than those it saw, never by a call that is alone.     *)
LockoutNeedsStaleCount ==
  [][Admins # {} /\ Admins' = {} =>
       \E c \in Calls :
         /\ call[c].step = "write" /\ call'[c].step = "idle"
         /\ call[c].seen # Admins]_member

(* An organization never loses its last admin: the sentence of the docs    *)
(* taken at its word, for calls at the same time.                          *)
AnAdminRemains == Admins # {}

(* An invitation is spent once: whatever two requests renew, undo, expire  *)
(* or revoke at the same time, an invitation that was claimed, revoked or  *)
(* expired is never open again, and nobody becomes active by another.      *)
InvitationIsSpentOnce ==
  [][\A u \in Users :
       /\ \A k \in DOMAIN invites[u] :
            invites'[u][k].status = "pending" => k \in Open(u)
       /\ u \notin Active /\ u \in Active' =>
            \/ \E c \in Calls : call[c].op = "status" /\ call[c].target = u
            \/ \E k \in Open(u) : ~invites[u][k].stale
                                  /\ invites'[u][k].status = "accepted"]_vars
=============================================================================
