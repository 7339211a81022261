---------------------------- MODULE EventDelivery ----------------------------
(***************************************************************************)
(* What the notification bridge promises, without queue, triggers, retries *)
(* or routing rules: an event is announced, and then either delivered, to  *)
(* all its recipients at once and for good, or abandoned; of what was      *)
(* abandoned only some kinds of event may be taken up again.               *)
(***************************************************************************)
CONSTANTS
  Users,
  References,  \* the events
  Revivable    \* those that are taken up again after being abandoned

VARIABLES
  fate,  \* of each event
  told   \* <<user, event>>: who was told of what

deliveryVars == <<fate, told>>

DeliveryTypeOK ==
  /\ fate \in [References -> {"none", "open", "delivered", "abandoned"}]
  /\ told \subseteq Users \X References

Init ==
  /\ fate = [r \in References |-> "none"]
  /\ told = {}

Announce(r) ==
  /\ fate[r] = "none"
  /\ fate' = [fate EXCEPT ![r] = "open"]
  /\ UNCHANGED told

Deliver(r) ==
  /\ fate[r] = "open"
  /\ fate' = [fate EXCEPT ![r] = "delivered"]
  /\ \E recipients \in (SUBSET Users) \ {{}} :
       told' = told \cup recipients \X {r}

Abandon(r) ==
  /\ fate[r] = "open"
  /\ fate' = [fate EXCEPT ![r] = "abandoned"]
  /\ UNCHANGED told

Revive(r) ==
  /\ r \in Revivable
  /\ fate[r] = "abandoned"
  /\ fate' = [fate EXCEPT ![r] = "open"]
  /\ UNCHANGED told

Next ==
  \E r \in References : Announce(r) \/ Deliver(r) \/ Abandon(r) \/ Revive(r)

Spec == Init /\ [][Next]_deliveryVars
=============================================================================
