--------------------------- MODULE TeamAccessProofs ---------------------------
(***************************************************************************)
(* Proofs about TeamAccess, for any users and any number of calls and      *)
(* requests in flight: the last admin is lost only to a count that is out  *)
(* of date, never where calls come one at a time, and an invitation is     *)
(* spent once.                                                             *)
(***************************************************************************)
EXTENDS TeamAccess, TLAPS

USE TeamAssumptions

(* A call in flight has a member in mind, and gives a role or a status.    *)
CallsAreNamed ==
  \A c \in Calls :
    call[c].step # "idle" =>
      /\ call[c].target \in Users
      /\ call[c].op = "role" => call[c].to \in Roles
      /\ call[c].op = "status" => call[c].to \in {"active", "suspended"}
      /\ call[c].op = "close" => call[c].to = "suspended"

(* Who is about to take an admin's rights away has seen another admin.     *)
LooksFoundAnother ==
  \A c \in Calls :
    call[c].step = "write" /\ call[c].target \in call[c].seen
        /\ call[c].to # "admin"
      => call[c].seen \ {call[c].target} # {}

(* A request holds an invitation there is: the one that was found from the *)
(* search on, the one that was stored from the storing on.                 *)
RequestsHoldRows ==
  \A q \in Requests :
    LET r == request[q]
    IN  /\ r.step # "idle" => r.user \in Users
        /\ r.step = "store" /\ r.found => r.row \in DOMAIN invites[r.user]
        /\ r.step \in {"deliver", "undo"} => r.row \in DOMAIN invites[r.user]

TeamInv ==
  TypeOK /\ CallsAreNamed /\ LooksFoundAnother /\ RequestsHoldRows

-----------------------------------------------------------------------------
(* What may happen to the invitations: none is withdrawn, none is opened   *)
(* again.                                                                  *)
InvitesMove ==
  /\ invites' \in [Users -> Seq(Invitations)]
  /\ \A u \in Users :
       /\ DOMAIN invites[u] \subseteq DOMAIN invites'[u]
       /\ \A k \in DOMAIN invites[u] :
            invites'[u][k].status = "pending" => invites[u][k].status = "pending"

LEMMA InvitesTyped ==
  ASSUME TypeOK, NEW u \in Users
  PROVE  /\ invites \in [Users -> Seq(Invitations)]
         /\ invites[u] \in Seq(Invitations)
         /\ Len(invites[u]) \in Nat
         /\ DOMAIN invites[u] = 1 .. Len(invites[u])
         /\ \A k \in DOMAIN invites[u] : invites[u][k] \in Invitations
BY DEF TypeOK

LEMMA InviteEdited ==
  ASSUME TypeOK, NEW u \in Users, NEW k \in DOMAIN invites[u],
         NEW e \in Invitations,
         e.status = "pending" => invites[u][k].status = "pending",
         invites' = [invites EXCEPT ![u] = [invites[u] EXCEPT ![k] = e]]
  PROVE  InvitesMove
<1> DEFINE q == [invites[u] EXCEPT ![k] = e]
<1>1. /\ q \in Seq(Invitations) /\ DOMAIN q = DOMAIN invites[u] /\ q[k] = e
      /\ \A n \in DOMAIN invites[u] : n # k => q[n] = invites[u][n]
  BY InvitesTyped
<1>2. invites' = [invites EXCEPT ![u] = q] /\ invites \in [Users -> Seq(Invitations)]
  BY InvitesTyped
<1> HIDE DEF q
<1>3. /\ invites' \in [Users -> Seq(Invitations)]
      /\ \A v \in Users : invites'[v] = IF v = u THEN q ELSE invites[v]
  BY <1>1, <1>2
<1> QED BY <1>1, <1>3 DEF InvitesMove

LEMMA InviteAdded ==
  ASSUME TypeOK, NEW u \in Users, NEW e \in Invitations,
         invites' = [invites EXCEPT ![u] = Append(invites[u], e)]
  PROVE  /\ InvitesMove
         /\ Len(invites[u]) + 1 \in DOMAIN invites'[u]
<1> DEFINE q == Append(invites[u], e)
<1>1. /\ q \in Seq(Invitations)
      /\ DOMAIN invites[u] \subseteq DOMAIN q /\ Len(invites[u]) + 1 \in DOMAIN q
      /\ \A n \in DOMAIN invites[u] : q[n] = invites[u][n]
  BY InvitesTyped
<1>2. invites' = [invites EXCEPT ![u] = q] /\ invites \in [Users -> Seq(Invitations)]
  BY InvitesTyped
<1> HIDE DEF q
<1>3. /\ invites' \in [Users -> Seq(Invitations)]
      /\ \A v \in Users : invites'[v] = IF v = u THEN q ELSE invites[v]
  BY <1>1, <1>2
<1> QED BY <1>1, <1>3 DEF InvitesMove

LEMMA InvitesStay ==
  ASSUME TypeOK, UNCHANGED invites
  PROVE  InvitesMove
BY DEF TypeOK, InvitesMove

LEMMA InvitationEdits ==
  \A a \in Invitations :
    /\ \A role \in Roles :
         /\ Renewed(a, role) \in Invitations
         /\ Renewed(a, role).status = a.status
    /\ Withdrawn(a) \in Invitations /\ Withdrawn(a).status = "revoked"
    /\ [a EXCEPT !.stale = TRUE] \in Invitations
    /\ [a EXCEPT !.stale = TRUE].status = a.status
BY DEF Invitations, Renewed, Withdrawn

LEMMA SetInvitationMoves ==
  ASSUME TypeOK, NEW u \in Users, NEW k \in DOMAIN invites[u],
         NEW status \in {"accepted", "revoked", "expired"},
         SetInvitation(u, k, status)
  PROVE  InvitesMove /\ invites'[u][k].status = status
<1> DEFINE e == [invites[u][k] EXCEPT !.status = status]
<1>1. e \in Invitations /\ e.status = status
  <2>1. \A a \in Invitations :
          /\ [a EXCEPT !.status = status] \in Invitations
          /\ [a EXCEPT !.status = status].status = status
    BY DEF Invitations
  <2> QED BY <2>1, InvitesTyped, Zenon
<1>2. invites' = [invites EXCEPT ![u] = [invites[u] EXCEPT ![k] = e]]
  BY Zenon DEF SetInvitation
<1>3. InvitesMove
  <2>1. e.status # "pending"
    BY <1>1
  <2> HIDE DEF e
  <2> QED BY <1>1, <1>2, <2>1, InviteEdited
<1>4. invites'[u][k] = e
  <2> HIDE DEF e
  <2> QED BY <1>2, InvitesTyped
<1> QED BY <1>1, <1>3, <1>4

LEMMA StoreMoves ==
  ASSUME TeamInv, NEW q \in Requests, Store(q)
  PROVE  /\ InvitesMove
         /\ request[q].found \/ UNCHANGED invites
              \/ Len(invites[request[q].user]) + 1 \in DOMAIN invites'[request[q].user]
<1> DEFINE r == request[q]
<1>1. TypeOK /\ r \in RequestStates
  BY DEF TeamInv, TypeOK
<1>2. PICK u \in Users : u = r.user
  BY DEF TeamInv, RequestsHoldRows, Store
<1>3. r.role \in Roles
  BY <1>1 DEF RequestStates
<1>4. CASE /\ r.found
           /\ invites' = [invites EXCEPT ![u] =
                [invites[u] EXCEPT ![r.row] = Renewed(invites[u][r.row], r.role)]]
  <2>1. r.row \in DOMAIN invites[u]
    BY <1>2, <1>4 DEF TeamInv, RequestsHoldRows, Store
  <2> DEFINE e == Renewed(invites[u][r.row], r.role)
  <2>2. e \in Invitations /\ e.status = invites[u][r.row].status
    BY <1>1, <1>3, <2>1, InvitesTyped, InvitationEdits, Zenon
  <2>3. invites' = [invites EXCEPT ![u] = [invites[u] EXCEPT ![r.row] = e]]
    BY <1>4
  <2>4. e.status = "pending" => invites[u][r.row].status = "pending"
    BY <2>2
  <2>5. InvitesMove
    <3> HIDE DEF e, r
    <3> QED BY <1>1, <2>1, <2>2, <2>3, <2>4, InviteEdited
  <2> QED BY <1>4, <2>5
<1>5. CASE invites' = [invites EXCEPT ![u] = Append(invites[u], Pending(r.role))]
  <2>1. Pending(r.role) \in Invitations
    BY <1>3 DEF Pending, Invitations
  <2> QED BY <1>1, <1>2, <1>5, <2>1, InviteAdded
<1>6. CASE UNCHANGED invites
  BY <1>1, <1>6, InvitesStay
<1> QED BY <1>2, <1>4, <1>5, <1>6, Zenon DEF Store

LEMMA UndoMoves ==
  ASSUME TeamInv, NEW q \in Requests, Undo(q)
  PROVE  InvitesMove
<1> DEFINE r == request[q]
<1>1. TypeOK
  BY DEF TeamInv
<1>2. PICK u \in Users : u = r.user
  BY DEF TeamInv, RequestsHoldRows, Undo
<1>3. r.row \in DOMAIN invites[u]
  BY <1>2 DEF TeamInv, RequestsHoldRows, Undo
<1>4. CASE invites' = [invites EXCEPT ![u] =
                [invites[u] EXCEPT ![r.row] = Withdrawn(invites[u][r.row])]]
  <2> DEFINE e == Withdrawn(invites[u][r.row])
  <2>2. e \in Invitations /\ e.status = "revoked"
    BY <1>1, <1>3, InvitesTyped, InvitationEdits, Zenon
  <2>3. invites' = [invites EXCEPT ![u] = [invites[u] EXCEPT ![r.row] = e]]
    BY <1>4
  <2> HIDE DEF e, r
  <2> QED BY <1>1, <1>3, <2>2, <2>3, InviteEdited
<1>5. CASE UNCHANGED invites
  BY <1>1, <1>5, InvitesStay
<1> QED BY <1>2, <1>4, <1>5, Zenon DEF Undo

LEMMA LapseMoves ==
  ASSUME TypeOK, NEW u \in Users, NEW k \in DOMAIN invites[u], Lapse(u, k)
  PROVE  InvitesMove
<1> DEFINE e == [invites[u][k] EXCEPT !.stale = TRUE]
<1>1. e \in Invitations /\ e.status = invites[u][k].status
  BY InvitesTyped, InvitationEdits, Zenon
<1>2. invites' = [invites EXCEPT ![u] = [invites[u] EXCEPT ![k] = e]]
  BY Zenon DEF Lapse
<1> HIDE DEF e
<1> QED BY <1>1, <1>2, InviteEdited

LEMMA InvitationsMove ==
  ASSUME TeamInv, [Next]_vars
  PROVE  InvitesMove
<1>1. TypeOK
  BY DEF TeamInv
<1>2. CASE UNCHANGED invites
  BY <1>1, <1>2, InvitesStay
<1>3. ASSUME NEW t \in Invitees, NEW k \in DOMAIN invites[t],
             \/ Claim(t, k) \/ Expire(t, k) \/ Lapse(t, k)
             \/ \E u \in Users : Revoke(u, t, k)
      PROVE  InvitesMove
  <2>1. t \in Users
    BY DEF TeamAssumptions
  <2> QED BY <1>1, <1>3, <2>1, SetInvitationMoves, LapseMoves
          DEF Claim, Expire, Revoke
<1> QED
  BY <1>2, <1>3, StoreMoves, UndoMoves
  DEF Next, vars, SetRole, SetStatus, RequestClosing, Ask, Look, Write, Invite,
      CheckMember, FindPending, Deliver, Drop, Proceed

-----------------------------------------------------------------------------
(* What may happen to a membership.                                        *)
LEMMA MemberTyped ==
  ASSUME TypeOK, NEW u \in Users
  PROVE  /\ member \in [Users -> Memberships]
         /\ member[u] \in Memberships
         /\ u \in Active <=> member[u].status = "active"
         /\ u \in Admins <=> member[u].status = "active" /\ member[u].role = "admin"
BY DEF TypeOK, Active, Admins

LEMMA WriteMoves ==
  ASSUME TeamInv, NEW c \in Calls, Write(c)
  PROVE  /\ call[c].target \in Users /\ Written(c) \in Memberships
         /\ member' = [member EXCEPT ![call[c].target] = Written(c)]
         /\ call[c].op # "status" /\ Written(c).status = "active"
              => member[call[c].target].status = "active"
         /\ call[c].to = "admin"
              => Written(c).role = "admin"
                 /\ Written(c).status = member[call[c].target].status
<1> DEFINE t == call[c].target
           m == member[t]
<1>1. t \in Users /\ TypeOK
  BY DEF TeamInv, CallsAreNamed, Write
<1>2. m \in Memberships /\ call[c] \in CallStates
  BY <1>1 DEF TypeOK
<1>3. member' = [member EXCEPT ![t] = Written(c)]
  BY DEF Write
<1>4. CASE call[c].op = "role"
  <2>1. call[c].to \in Roles
    BY <1>4 DEF TeamInv, CallsAreNamed, Write
  <2>2. Written(c) = [m EXCEPT !.role = call[c].to]
    BY <1>4 DEF Written
  <2> HIDE DEF m
  <2>3. /\ Written(c) \in Memberships /\ Written(c).role = call[c].to
        /\ Written(c).status = m.status
    BY <1>2, <2>1, <2>2 DEF Memberships
  <2> QED BY <1>1, <1>3, <2>3 DEF m
<1>5. CASE call[c].op = "status"
  <2>1. call[c].to \in {"active", "suspended"}
    BY <1>5 DEF TeamInv, CallsAreNamed, Write
  <2>2. Written(c) = [m EXCEPT !.status = call[c].to]
    BY <1>5 DEF Written
  <2> HIDE DEF m
  <2>3. Written(c) \in Memberships
    BY <1>2, <2>1, <2>2 DEF Memberships, Status
  <2> QED BY <1>1, <1>3, <1>5, <2>1, <2>3 DEF m
<1>6. CASE call[c].op = "close"
  <2>1. call[c].to = "suspended"
    BY <1>6 DEF TeamInv, CallsAreNamed, Write
  <2>2. Written(c) = IF m.status = "active" THEN [m EXCEPT !.status = "suspended"]
                     ELSE m
    BY <1>6 DEF Written
  <2> HIDE DEF m
  <2>3. Written(c) \in Memberships /\ Written(c).status # "active"
    BY <1>2, <2>1, <2>2 DEF Memberships, Status
  <2> QED BY <1>1, <1>3, <2>1, <2>3 DEF m
<1> QED BY <1>2, <1>4, <1>5, <1>6 DEF CallStates

LEMMA ClaimMoves ==
  ASSUME TypeOK, NEW u \in Users, NEW k, Claim(u, k)
  PROVE  LET m == Joined(u, invites[u][k].role)
         IN  /\ member' = [member EXCEPT ![u] = m]
             /\ m \in Memberships
             /\ u \in Admins => m.status = "active" /\ m.role = "admin"
<1>1. k \in DOMAIN invites[u] /\ invites[u][k].role \in Roles
  BY InvitesTyped DEF Claim, Open, Invitations
<1>2. member[u] \in Memberships
  BY MemberTyped
<1> QED BY <1>1, <1>2 DEF Claim, Joined, Memberships, Status, Admins

(* Only a write and a claim change memberships.                            *)
LEMMA MembersMove ==
  ASSUME [Next]_vars
  PROVE  \/ UNCHANGED member
         \/ \E c \in Calls : Write(c)
         \/ \E t \in Invitees : \E k \in DOMAIN invites[t] : Claim(t, k)
BY DEF Next, vars, SetRole, SetStatus, RequestClosing, Ask, Look, Invite,
       CheckMember, FindPending, Store, Deliver, Undo, Drop, Proceed, Expire,
       Revoke, Lapse

LEMMA MembersTyped ==
  ASSUME TeamInv, [Next]_vars
  PROVE  member' \in [Users -> Memberships]
<1>1. TypeOK /\ member \in [Users -> Memberships]
  BY DEF TeamInv, TypeOK
<1>2. ASSUME NEW c \in Calls, Write(c)
      PROVE  member' \in [Users -> Memberships]
  <2>1. PICK t \in Users, m \in Memberships : member' = [member EXCEPT ![t] = m]
    BY <1>2, WriteMoves
  <2> QED BY <1>1, <2>1
<1>3. ASSUME NEW t \in Invitees, NEW k, Claim(t, k)
      PROVE  member' \in [Users -> Memberships]
  <2>1. t \in Users
    BY DEF TeamAssumptions
  <2>2. PICK m \in Memberships : member' = [member EXCEPT ![t] = m]
    BY <1>1, <1>3, <2>1, ClaimMoves
  <2> QED BY <1>1, <2>1, <2>2
<1> QED BY <1>1, <1>2, <1>3, MembersMove

-----------------------------------------------------------------------------
(* The calls in flight.                                                    *)
LEMMA NoCallTyped == NoCall \in CallStates
BY DEF NoCall, CallStates, Status

LEMMA AskMoves ==
  ASSUME TeamInv, NEW c \in Calls, NEW op \in {"role", "status", "close"},
         NEW t \in Users, NEW to \in Roles \cup Status, Ask(c, op, t, to),
         op = "role" => to \in Roles,
         op = "status" => to \in {"active", "suspended"},
         op = "close" => to = "suspended"
  PROVE  /\ call' \in [Calls -> CallStates]
         /\ CallsAreNamed' /\ LooksFoundAnother'
<1> DEFINE e == [step |-> "asked", op |-> op, target |-> t, to |-> to, seen |-> {}]
<1>1. e \in CallStates
  BY DEF CallStates
<1>2. call \in [Calls -> CallStates]
  BY DEF TeamInv, TypeOK
<1>3. call' = [call EXCEPT ![c] = e]
  BY DEF Ask
<1>4. /\ call' \in [Calls -> CallStates]
      /\ \A d \in Calls : call'[d] = IF d = c THEN e ELSE call[d]
  <2> HIDE DEF e
  <2> QED BY <1>1, <1>2, <1>3
<1>5. CallsAreNamed'
  BY <1>4 DEF TeamInv, CallsAreNamed
<1>6. LooksFoundAnother'
  BY <1>4 DEF TeamInv, LooksFoundAnother
<1> QED BY <1>4, <1>5, <1>6

(* What a look permits leaves an admin, of those it sees.                  *)
LEMMA PermitsLeavesAnother ==
  ASSUME TeamInv, NEW c \in Calls, call[c].step = "asked", Permits(c),
         call[c].target \in Admins, call[c].to # "admin"
  PROVE  Admins \ {call[c].target} # {}
<1>1. call[c] \in CallStates
  BY DEF TeamInv, TypeOK
<1>2. Removes(c)
  BY DEF Removes
<1>3. call[c].op \in {"role", "status", "close"}
  BY <1>1 DEF CallStates
<1>4. Others(call[c].target) # {}
  BY <1>2, <1>3 DEF Permits
<1> QED BY <1>4 DEF Others

LEMMA LookMoves ==
  ASSUME TeamInv, NEW c \in Calls, Look(c)
  PROVE  /\ call' \in [Calls -> CallStates]
         /\ CallsAreNamed' /\ LooksFoundAnother'
<1> DEFINE e == [call[c] EXCEPT !.step = "write", !.seen = Admins]
<1>1. /\ call \in [Calls -> CallStates] /\ call[c] \in CallStates
      /\ Admins \subseteq Users
  BY DEF TeamInv, TypeOK, Admins, Active
<1>2. /\ e \in CallStates
      /\ e.step = "write" /\ e.seen = Admins /\ e.op = call[c].op
      /\ e.target = call[c].target /\ e.to = call[c].to
  BY <1>1 DEF CallStates
<1>3. call' = [call EXCEPT ![c] = IF Permits(c) THEN e ELSE NoCall]
  BY DEF Look
<1>4. \A d \in Calls :
        call'[d] = IF d # c THEN call[d] ELSE IF Permits(c) THEN e ELSE NoCall
  <2> HIDE DEF e
  <2> QED BY <1>1, <1>3
<1>5. call' \in [Calls -> CallStates]
  <2> HIDE DEF e
  <2> QED BY <1>1, <1>2, <1>3, NoCallTyped
<1>6. NoCall.step = "idle"
  BY DEF NoCall
<1>7. CallsAreNamed'
  <2> HIDE DEF e
  <2>1. call[c].step # "idle"
    BY DEF Look
  <2> QED BY <1>2, <1>4, <1>6, <2>1 DEF TeamInv, CallsAreNamed
<1>8. LooksFoundAnother'
  <2> HIDE DEF e
  <2>1. call[c].step = "asked"
    BY DEF Look
  <2>2. Permits(c) /\ call[c].target \in Admins /\ call[c].to # "admin"
          => Admins \ {call[c].target} # {}
    BY <2>1, PermitsLeavesAnother
  <2>3. ASSUME NEW d \in Calls, call'[d].step = "write",
               call'[d].target \in call'[d].seen, call'[d].to # "admin"
        PROVE  call'[d].seen \ {call'[d].target} # {}
    <3>1. CASE d # c
      BY <1>4, <2>3, <3>1 DEF TeamInv, LooksFoundAnother
    <3>2. CASE d = c
      <4>1. Permits(c) /\ call'[d] = e
        BY <1>4, <1>6, <2>3, <3>2
      <4> QED BY <1>2, <2>2, <2>3, <4>1
    <3> QED BY <3>1, <3>2
  <2> QED BY <2>3 DEF LooksFoundAnother
<1> QED BY <1>5, <1>7, <1>8

LEMMA CallsMove ==
  ASSUME TeamInv, [Next]_vars
  PROVE  /\ call' \in [Calls -> CallStates]
         /\ CallsAreNamed' /\ LooksFoundAnother'
<1>1. call \in [Calls -> CallStates]
  BY DEF TeamInv, TypeOK
<1>2. CASE UNCHANGED call
  BY <1>1, <1>2 DEF TeamInv, CallsAreNamed, LooksFoundAnother
<1>3. ASSUME NEW c \in Calls, NEW u \in Users, NEW t \in Users,
             NEW role \in Roles, SetRole(c, u, t, role)
      PROVE  /\ call' \in [Calls -> CallStates]
             /\ CallsAreNamed' /\ LooksFoundAnother'
  BY <1>3, AskMoves DEF SetRole
<1>4. ASSUME NEW c \in Calls, NEW u \in Users, NEW t \in Users,
             NEW status \in {"active", "suspended"}, SetStatus(c, u, t, status)
      PROVE  /\ call' \in [Calls -> CallStates]
             /\ CallsAreNamed' /\ LooksFoundAnother'
  <2>1. status \in Roles \cup Status
    BY DEF Status
  <2> QED BY <1>4, <2>1, AskMoves DEF SetStatus
<1>5. ASSUME NEW c \in Calls, NEW u \in Users, RequestClosing(c, u)
      PROVE  /\ call' \in [Calls -> CallStates]
             /\ CallsAreNamed' /\ LooksFoundAnother'
  <2>1. "suspended" \in Roles \cup Status
    BY DEF Status
  <2> QED BY <1>5, <2>1, AskMoves DEF RequestClosing
<1>6. ASSUME NEW c \in Calls, Write(c)
      PROVE  /\ call' \in [Calls -> CallStates]
             /\ CallsAreNamed' /\ LooksFoundAnother'
  <2>1. call' = [call EXCEPT ![c] = NoCall] /\ NoCall.step = "idle"
    BY <1>6 DEF Write, NoCall
  <2>2. /\ call' \in [Calls -> CallStates]
        /\ \A d \in Calls : call'[d] = IF d = c THEN NoCall ELSE call[d]
    BY <1>1, <2>1, NoCallTyped
  <2> QED BY <2>1, <2>2 DEF TeamInv, CallsAreNamed, LooksFoundAnother
<1> QED
  BY <1>2, <1>3, <1>4, <1>5, <1>6, LookMoves
  DEF Next, vars, Invite, CheckMember, FindPending, Store, Deliver, Undo, Drop,
      Proceed, Claim, Expire, Revoke, Lapse, SetInvitation

-----------------------------------------------------------------------------
(* The requests in flight.                                                 *)
Holds(r, rows) ==
  /\ r.step # "idle" => r.user \in Users
  /\ r.step = "store" /\ r.found => r.row \in DOMAIN rows[r.user]
  /\ r.step \in {"deliver", "undo"} => r.row \in DOMAIN rows[r.user]

LEMMA NoRequestTyped ==
  /\ NoRequest \in RequestStates /\ NoRequest.step = "idle"
  /\ NoRequest.found = FALSE
BY DEF NoRequest, RequestStates, Roles

(* A request that proceeds to r leaves the others as they are, and their   *)
(* rows are not withdrawn.                                                 *)
LEMMA ProceedMoves ==
  ASSUME TeamInv, InvitesMove, NEW q \in Requests, NEW r \in RequestStates,
         Proceed(q, r), Holds(r, invites')
  PROVE  request' \in [Requests -> RequestStates] /\ RequestsHoldRows'
<1>1. request \in [Requests -> RequestStates]
  BY DEF TeamInv, TypeOK
<1>2. /\ request' \in [Requests -> RequestStates]
      /\ \A p \in Requests : request'[p] = IF p = q THEN r ELSE request[p]
  BY <1>1 DEF Proceed
<1>3. \A u \in Users : DOMAIN invites[u] \subseteq DOMAIN invites'[u]
  BY DEF InvitesMove
<1>4. ASSUME NEW p \in Requests
      PROVE  Holds(request'[p], invites')
  BY <1>2, <1>3 DEF TeamInv, RequestsHoldRows, Holds
<1> QED BY <1>2, <1>4 DEF RequestsHoldRows, Holds

LEMMA RequestEdits ==
  \A r \in RequestStates :
    /\ \A step \in {"idle", "asked", "new", "store", "deliver", "undo"} :
         LET e == [r EXCEPT !.step = step]
         IN  /\ e \in RequestStates /\ e.step = step /\ e.user = r.user
             /\ e.row = r.row /\ e.found = r.found
    /\ \A k \in Nat :
         LET e == [r EXCEPT !.step = "store", !.row = k, !.found = k # 0]
         IN  /\ e \in RequestStates /\ e.step = "store" /\ e.user = r.user
             /\ e.row = k /\ e.found = (k # 0)
    /\ \A k \in Nat :
         LET e == [r EXCEPT !.step = "deliver", !.row = k]
         IN  /\ e \in RequestStates /\ e.step = "deliver" /\ e.user = r.user
             /\ e.row = k
    /\ \A u \in Users, role \in Roles :
         LET e == [r EXCEPT !.step = "asked", !.user = u, !.role = role]
         IN  e \in RequestStates /\ e.step = "asked" /\ e.user = u
<1> TAKE r \in RequestStates
<1>1. \A step \in {"idle", "asked", "new", "store", "deliver", "undo"} :
        LET e == [r EXCEPT !.step = step]
        IN  /\ e \in RequestStates /\ e.step = step /\ e.user = r.user
            /\ e.row = r.row /\ e.found = r.found
  BY DEF RequestStates
<1>2. \A k \in Nat :
        LET e == [r EXCEPT !.step = "store", !.row = k, !.found = k # 0]
        IN  /\ e \in RequestStates /\ e.step = "store" /\ e.user = r.user
            /\ e.row = k /\ e.found = (k # 0)
  BY DEF RequestStates
<1>3. \A k \in Nat :
        LET e == [r EXCEPT !.step = "deliver", !.row = k]
        IN  /\ e \in RequestStates /\ e.step = "deliver" /\ e.user = r.user
            /\ e.row = k
  BY DEF RequestStates
<1>4. \A u \in Users, role \in Roles :
        LET e == [r EXCEPT !.step = "asked", !.user = u, !.role = role]
        IN  e \in RequestStates /\ e.step = "asked" /\ e.user = u
  BY DEF RequestStates
<1> QED BY <1>1, <1>2, <1>3, <1>4

LEMMA RequestsMove ==
  ASSUME TeamInv, [Next]_vars
  PROVE  request' \in [Requests -> RequestStates] /\ RequestsHoldRows'
<1> DEFINE Goal == request' \in [Requests -> RequestStates] /\ RequestsHoldRows'
<1>1. TypeOK /\ InvitesMove
  BY InvitationsMove DEF TeamInv
<1>2. request \in [Requests -> RequestStates]
  BY <1>1 DEF TypeOK
<1>3. CASE UNCHANGED request
  <2>1. \A u \in Users : DOMAIN invites[u] \subseteq DOMAIN invites'[u]
    BY <1>1 DEF InvitesMove
  <2> QED BY <1>2, <1>3, <2>1 DEF TeamInv, RequestsHoldRows
<1>4. ASSUME NEW q \in Requests, Proceed(q, NoRequest)
      PROVE  Goal
  <2>1. Holds(NoRequest, invites')
    BY NoRequestTyped DEF Holds
  <2> QED BY <1>1, <1>4, <2>1, NoRequestTyped, ProceedMoves
<1>5. ASSUME NEW q \in Requests, NEW u, NEW t \in Invitees, NEW role \in Roles,
             Invite(q, u, t, role)
      PROVE  Goal
  <2> DEFINE e == [NoRequest EXCEPT !.step = "asked", !.user = t, !.role = role]
  <2>1. t \in Users
    BY DEF TeamAssumptions
  <2>2. e \in RequestStates /\ e.step = "asked" /\ e.user = t
    BY <2>1 DEF NoRequest, RequestStates, Roles
  <2>3. Proceed(q, e)
    BY <1>5 DEF Invite
  <2> HIDE DEF e
  <2>4. Holds(e, invites')
    BY <2>1, <2>2 DEF Holds
  <2> QED BY <1>1, <2>2, <2>3, <2>4, ProceedMoves
<1>6. ASSUME NEW q \in Requests, CheckMember(q)
      PROVE  Goal
  <2> DEFINE e == [request[q] EXCEPT !.step = "new"]
  <2>1. request[q] \in RequestStates /\ request[q].user \in Users
    BY <1>2, <1>6 DEF TeamInv, RequestsHoldRows, CheckMember
  <2>2. e \in RequestStates /\ e.step = "new" /\ e.user = request[q].user
    BY <2>1, RequestEdits
  <2>3. Proceed(q, NoRequest) \/ Proceed(q, e)
    BY <1>6 DEF CheckMember
  <2> HIDE DEF e
  <2>4. Holds(e, invites')
    BY <2>1, <2>2 DEF Holds
  <2> QED BY <1>1, <1>4, <2>2, <2>3, <2>4, ProceedMoves
<1>7. ASSUME NEW q \in Requests, FindPending(q)
      PROVE  Goal
  <2> DEFINE u == request[q].user
  <2>1. request[q] \in RequestStates /\ u \in Users
    BY <1>2, <1>7 DEF TeamInv, RequestsHoldRows, FindPending
  <2>2. PICK k \in IF Open(u) = {} THEN {0} ELSE Open(u) :
          Proceed(q, [request[q] EXCEPT !.step = "store", !.row = k,
                                        !.found = k # 0])
    BY <1>7 DEF FindPending
  <2>3. k = 0 \/ k \in DOMAIN invites[u]
    BY <2>2 DEF Open
  <2>4. k \in Nat
    BY <1>1, <2>1, <2>3, InvitesTyped
  <2> DEFINE e == [request[q] EXCEPT !.step = "store", !.row = k, !.found = k # 0]
  <2>5. /\ e \in RequestStates /\ e.step = "store" /\ e.user = u
        /\ e.row = k /\ e.found = (k # 0)
    BY <2>1, <2>4 DEF RequestStates
  <2>6. Proceed(q, e)
    BY <2>2
  <2> HIDE DEF e
  <2>7. DOMAIN invites[u] \subseteq DOMAIN invites'[u]
    BY <1>1, <2>1 DEF InvitesMove
  <2>8. Holds(e, invites')
    BY <2>1, <2>3, <2>5, <2>7 DEF Holds
  <2> QED BY <1>1, <2>5, <2>6, <2>8, ProceedMoves
<1>8. ASSUME NEW q \in Requests, Store(q)
      PROVE  Goal
  <2> DEFINE u == request[q].user
             kept == [request[q] EXCEPT !.step = "deliver"]
             new == [request[q] EXCEPT !.step = "deliver",
                                       !.row = Len(invites[u]) + 1]
  <2>1. request[q] \in RequestStates /\ u \in Users
    BY <1>2, <1>8 DEF TeamInv, RequestsHoldRows, Store
  <2>2. Len(invites[u]) + 1 \in Nat
    BY <1>1, <2>1, InvitesTyped
  <2>3. /\ kept \in RequestStates /\ kept.step = "deliver" /\ kept.user = u
        /\ kept.row = request[q].row
        /\ new \in RequestStates /\ new.step = "deliver" /\ new.user = u
        /\ new.row = Len(invites[u]) + 1
    BY <2>1, <2>2 DEF RequestStates
  <2>4. DOMAIN invites[u] \subseteq DOMAIN invites'[u]
    BY <1>1, <2>1 DEF InvitesMove
  <2>5. CASE request[q].found /\ Proceed(q, kept)
    <3>1. request[q].row \in DOMAIN invites[u]
      BY <1>8, <2>5 DEF TeamInv, RequestsHoldRows, Store
    <3> HIDE DEF kept, new
    <3>2. Holds(kept, invites')
      BY <2>1, <2>3, <2>4, <3>1 DEF Holds
    <3> QED BY <1>1, <2>3, <2>5, <3>2, ProceedMoves
  <2>6. CASE /\ ~ request[q].found /\ Proceed(q, new)
             /\ invites' = [invites EXCEPT ![u] =
                              Append(invites[u], Pending(request[q].role))]
    <3>1. Pending(request[q].role) \in Invitations
      BY <2>1 DEF Pending, Invitations, RequestStates
    <3>2. Len(invites[u]) + 1 \in DOMAIN invites'[u]
      BY <1>1, <2>1, <2>6, <3>1, InviteAdded
    <3> HIDE DEF kept, new
    <3>3. Holds(new, invites')
      BY <2>1, <2>3, <3>2 DEF Holds
    <3> QED BY <1>1, <2>3, <2>6, <3>3, ProceedMoves
  <2>7. CASE Proceed(q, NoRequest)
    BY <1>4, <2>7
  <2> QED BY <1>8, <2>5, <2>6, <2>7, Zenon DEF Store
<1>9. ASSUME NEW q \in Requests, Deliver(q)
      PROVE  Goal
  <2> DEFINE e == [request[q] EXCEPT !.step = "undo"]
  <2>1. /\ request[q] \in RequestStates /\ request[q].user \in Users
        /\ request[q].row \in DOMAIN invites[request[q].user]
    BY <1>2, <1>9 DEF TeamInv, RequestsHoldRows, Deliver
  <2>2. /\ e \in RequestStates /\ e.step = "undo" /\ e.user = request[q].user
        /\ e.row = request[q].row
    BY <2>1, RequestEdits
  <2>3. Proceed(q, NoRequest) \/ Proceed(q, e)
    BY <1>9 DEF Deliver
  <2> HIDE DEF e
  <2>4. Holds(e, invites')
    BY <1>1, <2>1, <2>2 DEF Holds, InvitesMove
  <2> QED BY <1>1, <1>4, <2>2, <2>3, <2>4, ProceedMoves
<1>10. ASSUME NEW q \in Requests, Undo(q) \/ Drop(q)
       PROVE  Goal
  <2>1. Proceed(q, NoRequest)
    BY <1>10 DEF Undo, Drop
  <2> QED BY <1>4, <2>1
<1> QED
  BY <1>3, <1>5, <1>6, <1>7, <1>8, <1>9, <1>10
  DEF Next, vars, SetRole, SetStatus, RequestClosing, Ask, Look, Write, Claim,
      Expire, Revoke, Lapse, SetInvitation

-----------------------------------------------------------------------------
LEMMA TeamInvStarts == Init => TeamInv
<1> SUFFICES ASSUME Init PROVE TeamInv
  OBVIOUS
<1>1. TypeOK
  BY NoCallTyped, NoRequestTyped DEF Init, TypeOK
<1>2. \A c \in Calls : call[c].step = "idle"
  BY DEF Init, NoCall
<1>3. \A q \in Requests : request[q].step = "idle"
  BY NoRequestTyped DEF Init
<1> QED
  BY <1>1, <1>2, <1>3
  DEF TeamInv, CallsAreNamed, LooksFoundAnother, RequestsHoldRows

LEMMA TeamInvStays == TeamInv /\ [Next]_vars => TeamInv'
<1> SUFFICES ASSUME TeamInv, [Next]_vars PROVE TeamInv'
  OBVIOUS
<1>1. closing' \subseteq Users
  <2>1. closing \subseteq Users
    BY DEF TeamInv, TypeOK
  <2>2. ASSUME NEW c \in Calls, Write(c)
        PROVE  closing' \subseteq Users
    BY <2>1, <2>2, WriteMoves DEF Write
  <2> QED
    BY <2>1, <2>2
    DEF Next, vars, SetRole, SetStatus, RequestClosing, Ask, Look, Invite,
        CheckMember, FindPending, Store, Deliver, Undo, Drop, Proceed, Claim,
        Expire, Revoke, Lapse, SetInvitation
<1>2. TypeOK'
  BY <1>1, MembersTyped, InvitationsMove, CallsMove, RequestsMove
  DEF TypeOK, InvitesMove
<1> QED BY <1>2, CallsMove, RequestsMove DEF TeamInv

LEMMA TeamInvAlways == Spec => []TeamInv
BY TeamInvStarts, TeamInvStays, PTL DEF Spec

(* Every reachable state of an organization is well-typed: memberships,    *)
(* invitations, calls and requests are those the tables and the functions  *)
(* allow, and what a request holds exists.                                 *)
THEOREM TeamTypeCorrect == Spec => []TypeOK
<1>1. TeamInv => TypeOK
  BY DEF TeamInv
<1> QED BY <1>1, TeamInvAlways, PTL

(* However many calls are in flight, the last admin is lost only when one  *)
(* of them writes on a count of admins that is out of date.                *)
THEOREM LockoutsNeedAStaleCount == Spec => LockoutNeedsStaleCount
<1> DEFINE Stale ==
      \E c \in Calls :
        /\ call[c].step = "write" /\ call'[c].step = "idle"
        /\ call[c].seen # Admins
<1>1. TeamInv /\ [Next]_vars
        => [Admins # {} /\ Admins' = {} => Stale]_member
  <2> SUFFICES ASSUME TeamInv, [Next]_vars, Admins # {}, Admins' = {}
               PROVE  Stale
    OBVIOUS
  <2>1. /\ TypeOK /\ member \in [Users -> Memberships]
        /\ call \in [Calls -> CallStates]
    BY DEF TeamInv, TypeOK
  <2>2. ASSUME NEW t \in Users, NEW m \in Memberships,
               member' = [member EXCEPT ![t] = m]
        PROVE  /\ Admins = {t}
               /\ ~ (m.status = "active" /\ m.role = "admin")
    BY <2>1, <2>2 DEF Admins, Active
  <2>3. ASSUME NEW c \in Calls, Write(c)
        PROVE  Stale
    <3>1. PICK t \in Users : t = call[c].target
      BY <2>3, WriteMoves
    <3>2. /\ Written(c) \in Memberships
          /\ member' = [member EXCEPT ![t] = Written(c)]
      BY <2>3, <3>1, WriteMoves
    <3>3. Admins = {t} /\ ~ (Written(c).status = "active" /\ Written(c).role = "admin")
      BY <2>2, <3>2
    <3>4. member[t].status = "active"
      BY <3>3 DEF Admins, Active
    <3>5. call[c].to # "admin"
      BY <2>3, <3>1, <3>3, <3>4, WriteMoves
    <3>6. call[c].step = "write"
      BY <2>3 DEF Write
    <3>7. call[c].seen # {t}
      BY <3>1, <3>5, <3>6 DEF TeamInv, LooksFoundAnother
    <3>8. call'[c].step = "idle"
      BY <2>1, <2>3 DEF Write, NoCall
    <3> QED BY <3>3, <3>6, <3>7, <3>8
  <2>4. ASSUME NEW t \in Invitees, NEW k \in DOMAIN invites[t], Claim(t, k)
        PROVE  Stale
    <3>1. t \in Users
      BY DEF TeamAssumptions
    <3>2. PICK m \in Memberships :
            /\ member' = [member EXCEPT ![t] = m]
            /\ t \in Admins => m.status = "active" /\ m.role = "admin"
      BY <2>1, <2>4, <3>1, ClaimMoves
    <3>3. Admins = {t} /\ ~ (m.status = "active" /\ m.role = "admin")
      BY <2>2, <3>1, <3>2
    <3> QED BY <3>2, <3>3
  <2>5. ~ UNCHANGED member
    BY DEF Admins, Active
  <2> QED BY <2>3, <2>4, <2>5, MembersMove
<1> QED BY <1>1, TeamInvAlways, PTL DEF Spec, LockoutNeedsStaleCount

(* However requests, claims, looks and revocations meet, an invitation is  *)
(* spent once, and nobody becomes active without one or an admin's call.   *)
THEOREM InvitationsAreSpentOnce == Spec => InvitationIsSpentOnce
<1> DEFINE SpentOnce ==
      \A u \in Users :
        /\ \A k \in DOMAIN invites[u] :
             invites'[u][k].status = "pending" => k \in Open(u)
        /\ u \notin Active /\ u \in Active' =>
             \/ \E c \in Calls : call[c].op = "status" /\ call[c].target = u
             \/ \E k \in Open(u) : ~invites[u][k].stale
                                   /\ invites'[u][k].status = "accepted"
<1>1. TeamInv /\ [Next]_vars => SpentOnce
  <2> SUFFICES ASSUME TeamInv, [Next]_vars, NEW u \in Users
               PROVE  /\ \A k \in DOMAIN invites[u] :
                           invites'[u][k].status = "pending" => k \in Open(u)
                      /\ u \notin Active /\ u \in Active' =>
                           \/ \E c \in Calls :
                                call[c].op = "status" /\ call[c].target = u
                           \/ \E k \in Open(u) :
                                /\ ~invites[u][k].stale
                                /\ invites'[u][k].status = "accepted"
    OBVIOUS
  <2>1. TypeOK /\ member \in [Users -> Memberships]
    BY DEF TeamInv, TypeOK
  <2>2. \A k \in DOMAIN invites[u] :
          invites'[u][k].status = "pending" => k \in Open(u)
    BY InvitationsMove DEF InvitesMove, Open
  <2>3. ASSUME u \notin Active, u \in Active'
        PROVE  \/ \E c \in Calls :
                    call[c].op = "status" /\ call[c].target = u
               \/ \E k \in Open(u) :
                    /\ ~invites[u][k].stale
                    /\ invites'[u][k].status = "accepted"
    <3>1. member[u].status # "active" /\ member'[u].status = "active"
      BY <2>3 DEF Active
    <3>2. ASSUME NEW c \in Calls, Write(c)
          PROVE  call[c].op = "status" /\ call[c].target = u
      <4>1. member' = [member EXCEPT ![call[c].target] = Written(c)]
        BY <3>2, WriteMoves
      <4>2. call[c].target = u /\ Written(c).status = "active"
        BY <2>1, <3>1, <4>1
      <4> QED BY <3>1, <3>2, <4>2, WriteMoves
    <3>3. ASSUME NEW t \in Invitees, NEW k \in DOMAIN invites[t], Claim(t, k)
          PROVE  /\ k \in Open(u) /\ ~invites[u][k].stale
                 /\ invites'[u][k].status = "accepted"
      <4>1. t \in Users
        BY DEF TeamAssumptions
      <4>2. t = u
        BY <2>1, <3>1, <3>3 DEF Claim
      <4>3. invites'[u][k].status = "accepted"
        BY <2>1, <3>3, <4>1, <4>2, SetInvitationMoves DEF Claim
      <4> QED BY <3>3, <4>2, <4>3 DEF Claim
    <3> QED BY <3>1, <3>2, <3>3, MembersMove
  <2> QED BY <2>2, <2>3
<1>2. TeamInv /\ [Next]_vars => [SpentOnce]_vars
  BY <1>1
<1> QED BY <1>2, TeamInvAlways, PTL DEF Spec, InvitationIsSpentOnce
-----------------------------------------------------------------------------
(* What would keep the sentence of the docs true: one call at a time       *)
(* between the count of the admins and the write that takes rights away.   *)
Takes(c) == call[c].step = "write" /\ call[c].to \in {"member", "suspended"}

OneTakesAtATime == \A c, d \in Calls : Takes(c) /\ Takes(d) => c = d

(* The admins a lone call saw when it looked are admins still.             *)
LoneTakerSeesTheAdmins ==
  /\ Admins # {}
  /\ \A c \in Calls : Takes(c) => call[c].seen # {} /\ call[c].seen \subseteq Admins

LEMMA TakersStay ==
  ASSUME TeamInv, [Next]_vars, NEW c \in Calls, Takes(c)', ~ Look(c)
  PROVE  Takes(c) /\ call'[c] = call[c]
<1>1. call \in [Calls -> CallStates]
  BY DEF TeamInv, TypeOK
<1>2. CASE UNCHANGED call
  BY <1>2 DEF Takes
<1>3. ASSUME NEW d \in Calls, NEW r, r.step # "write", call' = [call EXCEPT ![d] = r]
      PROVE  Takes(c) /\ call'[c] = call[c]
  BY <1>1, <1>3 DEF Takes
<1>4. NoCall.step # "write"
  BY DEF NoCall
<1>5. ASSUME NEW d \in Calls, Write(d)
      PROVE  Takes(c) /\ call'[c] = call[c]
  BY <1>3, <1>4, <1>5 DEF Write
<1>6. ASSUME NEW d \in Calls, NEW op, NEW t, NEW to, Ask(d, op, t, to)
      PROVE  Takes(c) /\ call'[c] = call[c]
  BY <1>3, <1>6 DEF Ask
<1>7. ASSUME NEW d \in Calls, Look(d), d # c
      PROVE  Takes(c) /\ call'[c] = call[c]
  BY <1>1, <1>7 DEF Look, Takes
<1>8. \/ UNCHANGED call
      \/ \E d \in Calls, u, t \in Users :
           \/ \E role \in Roles : SetRole(d, u, t, role)
           \/ \E status \in {"active", "suspended"} : SetStatus(d, u, t, status)
           \/ RequestClosing(d, u)
      \/ \E d \in Calls : Look(d) \/ Write(d)
  BY Zenon DEF Next, vars, Invite, CheckMember, FindPending, Store, Deliver, Undo, Drop,
         Proceed, Claim, Expire, Revoke, Lapse, SetInvitation
<1> QED
  BY <1>2, <1>5, <1>6, <1>7, <1>8 DEF SetRole, SetStatus, RequestClosing

(* A write that takes nothing away and a claim leave every admin one.      *)
LEMMA AdminsStay ==
  ASSUME TeamInv, [Next]_vars,
         \A c \in Calls : Write(c) => ~ Takes(c)
  PROVE  Admins \subseteq Admins'
<1>1. TypeOK /\ member \in [Users -> Memberships]
  BY DEF TeamInv, TypeOK
<1>2. ASSUME NEW t \in Users, NEW m \in Memberships,
             member' = [member EXCEPT ![t] = m],
             t \in Admins => m.status = "active" /\ m.role = "admin"
      PROVE  Admins \subseteq Admins'
  BY <1>1, <1>2 DEF Admins, Active
<1>3. ASSUME NEW c \in Calls, Write(c)
      PROVE  Admins \subseteq Admins'
  <2>1. PICK t \in Users : t = call[c].target
    BY <1>3, WriteMoves
  <2>2. /\ Written(c) \in Memberships
        /\ member' = [member EXCEPT ![t] = Written(c)]
    BY <1>3, <2>1, WriteMoves
  <2>3. call[c].step = "write" /\ call[c].to \notin {"member", "suspended"}
    BY <1>3 DEF Write, Takes
  <2>4. CASE call[c].to = "admin"
    <3>1. t \in Admins => Written(c).status = "active" /\ Written(c).role = "admin"
      BY <1>1, <1>3, <2>1, <2>4, WriteMoves, MemberTyped
    <3> QED BY <1>2, <2>2, <3>1
  <2>5. CASE call[c].to # "admin"
    <3>1. call[c].op = "status" /\ call[c].to = "active"
      <4>1. call[c].op \in {"role", "status", "close"}
        BY <1>1 DEF TypeOK, CallStates
      <4> QED BY <2>3, <2>5, <4>1 DEF TeamInv, CallsAreNamed, Roles
    <3>2. Written(c) = [member[t] EXCEPT !.status = "active"]
      BY <2>1, <3>1 DEF Written
    <3>3. t \in Admins => Written(c).status = "active" /\ Written(c).role = "admin"
      BY <1>1, <3>2, MemberTyped DEF Memberships
    <3> QED BY <1>2, <2>2, <3>3
  <2> QED BY <2>4, <2>5
<1>4. ASSUME NEW t \in Invitees, NEW k, Claim(t, k)
      PROVE  Admins \subseteq Admins'
  <2>1. t \in Users
    BY DEF TeamAssumptions
  <2>2. PICK m \in Memberships :
          /\ member' = [member EXCEPT ![t] = m]
          /\ t \in Admins => m.status = "active" /\ m.role = "admin"
    BY <1>1, <1>4, <2>1, ClaimMoves
  <2> QED BY <1>2, <2>1, <2>2
<1>5. CASE UNCHANGED member
  BY <1>5 DEF Admins, Active
<1> QED BY <1>3, <1>4, <1>5, MembersMove

LEMMA LoneTakerStays ==
  TeamInv /\ LoneTakerSeesTheAdmins /\ OneTakesAtATime /\ [Next]_vars
    => LoneTakerSeesTheAdmins'
<1> SUFFICES ASSUME TeamInv, LoneTakerSeesTheAdmins, OneTakesAtATime, [Next]_vars
             PROVE  LoneTakerSeesTheAdmins'
  OBVIOUS
<1>1. TypeOK /\ member \in [Users -> Memberships] /\ call \in [Calls -> CallStates]
  BY DEF TeamInv, TypeOK
<1>2. ASSUME NEW c \in Calls, Write(c), Takes(c)
      PROVE  LoneTakerSeesTheAdmins'
  <2>1. PICK t \in Users : t = call[c].target
    BY <1>2, WriteMoves
  <2>2. PICK m \in Memberships : member' = [member EXCEPT ![t] = m]
    BY <1>2, <2>1, WriteMoves
  <2>3. Admins \ {t} \subseteq Admins'
    BY <1>1, <2>2 DEF Admins, Active
  <2>4. call[c].seen # {} /\ call[c].seen \subseteq Admins
    BY <1>2 DEF LoneTakerSeesTheAdmins
  <2>5. call[c].seen \ {t} # {}
    BY <1>2, <2>1, <2>4 DEF TeamInv, LooksFoundAnother, Takes
  <2>6. Admins' # {}
    BY <2>3, <2>4, <2>5
  <2>7. ASSUME NEW d \in Calls, Takes(d)'
        PROVE  FALSE
    <3>1. ~ Look(d)
      BY <1>2, <2>7, <1>1 DEF Look, Write, NoCall, Takes
    <3>2. Takes(d)
      BY <2>7, <3>1, TakersStay
    <3>3. d = c
      BY <1>2, <3>2 DEF OneTakesAtATime
    <3> QED BY <1>1, <1>2, <2>7, <3>3 DEF Write, NoCall, Takes
  <2> QED BY <2>6, <2>7 DEF LoneTakerSeesTheAdmins
<1>3. ASSUME \A c \in Calls : Write(c) => ~ Takes(c)
      PROVE  LoneTakerSeesTheAdmins'
  <2>1. Admins \subseteq Admins' /\ Admins # {}
    BY <1>3, AdminsStay DEF LoneTakerSeesTheAdmins
  <2>2. ASSUME NEW c \in Calls, Takes(c)'
        PROVE  call'[c].seen # {} /\ call'[c].seen \subseteq Admins'
    <3>1. CASE Look(c)
      <4>1. call'[c].seen = Admins
        BY <1>1, <2>2, <3>1 DEF Look, NoCall, Takes, CallStates
      <4> QED BY <2>1, <4>1
    <3>2. CASE ~ Look(c)
      <4>1. Takes(c) /\ call'[c] = call[c]
        BY <2>2, <3>2, TakersStay
      <4> QED BY <2>1, <4>1 DEF LoneTakerSeesTheAdmins
    <3> QED BY <3>1, <3>2
  <2>3. Admins' # {}
    BY <2>1
  <2> QED BY <2>2, <2>3 DEF LoneTakerSeesTheAdmins
<1> QED BY <1>2, <1>3

(* An organization whose calls come one at a time, from the count to the   *)
(* write, never loses its last admin: whatever roles, suspensions,         *)
(* closings, invitations and claims come in between, the lockout the docs  *)
(* promise against needs two of them at once.                              *)
THEOREM LoneCallsLeaveAnAdmin ==
  Spec /\ []OneTakesAtATime => []AnAdminRemains
<1>1. Init => LoneTakerSeesTheAdmins
  BY DEF Init, NoCall, Takes, LoneTakerSeesTheAdmins
<1>2. LoneTakerSeesTheAdmins => AnAdminRemains
  BY DEF LoneTakerSeesTheAdmins, AnAdminRemains
<1> QED BY <1>1, <1>2, LoneTakerStays, TeamInvAlways, PTL DEF Spec
===============================================================================
