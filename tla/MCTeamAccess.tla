----------------------------- MODULE MCTeamAccess -----------------------------
(* TeamAccess with few users, in two scopes of which a behaviour keeps one: *)
(* two calls among three users whom nobody invites, and one call next to    *)
(* two requests that invite one user of an organization of two, where      *)
(* nobody closes an account.                                               *)
EXTENDS TeamAccess, TLC

VARIABLE scope

WithinRemovals == request = [q \in Requests |-> NoRequest]

WithinInvitations ==
  /\ closing = {}
  /\ Cardinality({c \in Calls : call[c] # NoCall}) <= 1
  /\ \E u \in Users \ Invitees :
       member[u].status = "none" /\ \A c \in Calls : call[c].target # u

Within == IF scope = "removals" THEN WithinRemovals ELSE WithinInvitations

ScopedInit == Init /\ scope \in {"removals", "invitations"} /\ Within
ScopedNext == Next /\ UNCHANGED scope /\ Within'
ScopedSpec == ScopedInit /\ [][ScopedNext]_<<vars, scope>>

(* Colleagues who are not invited are interchangeable, and so are calls    *)
(* and requests.                                                           *)
Symmetric ==
  Permutations(Users \ Invitees) \cup Permutations(Calls)
    \cup Permutations(Requests)
=============================================================================
