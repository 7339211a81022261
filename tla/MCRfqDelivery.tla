---------------------------- MODULE MCRfqDelivery ----------------------------
(* RfqDelivery with small sets of suppliers and server actions.            *)
EXTENDS RfqDelivery, TLC

(* Server actions are interchangeable, and so are suppliers.               *)
Symmetric == Permutations(Suppliers) \cup Permutations(Workers)

(* Suppressed addresses are passed over alike: one is enough beside one    *)
(* that is not.                                                            *)
OneSuppressed == Cardinality(suppressed') <= 1
=============================================================================
