-------------------------- MODULE MCRfqDeliveryScopes --------------------------
(* RfqDelivery within steps that keep it small: a supplier opens its link  *)
(* and answers, the deadline passes and an address is suppressed while at  *)
(* most one server action is at work, on an invitation that was not tried  *)
(* and reported on more often than MaxVersion says; and a fault strikes    *)
(* only a server action that works alone, on rows nobody changed since it  *)
(* read them.                                                              *)
EXTENDS MCRfqDelivery

WithinAnswers ==
  /\ Cardinality({w \in Workers : worker[w] # Idle}) <= 1
  /\ \A s \in Suppliers :
       dispatch[s].version + dispatch[s].attempts + Cardinality(emitted)
         <= MaxVersion + 1

WithinActions ==
  /\ suppressed = {} /\ ~overdue
  /\ \A s \in Suppliers : quotes[s] = <<>> /\ ~dispatch[s].opened

Alone ==
  /\ Cardinality({w \in Workers : worker[w] # Idle}) <= 1
  /\ \A s \in Suppliers : dispatch[s].attempts > 0 => ~ ReadBefore(s)

(* No server action dies, loses its result or the provider's reply.        *)
Undisturbed ==
  \A w \in Workers :
    /\ ~Crash(w) /\ ~LoseMark(w)
    /\ mail' # mail => worker'[w].result = worker[w].result
                       \/ worker'[w].result # "error"

(* The steps that TLC follows.                                             *)
WithinScope == (WithinAnswers' \/ WithinActions') /\ (Alone \/ Undisturbed)
=============================================================================
