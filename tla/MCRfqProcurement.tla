--------------------------- MODULE MCRfqProcurement ---------------------------
(* RfqProcurement with small sets.                                         *)
EXTENDS RfqProcurement, TLC

(* Terms differ only in being different, and so do windows, and so do      *)
(* members as long as no member is an admin.                               *)
Symmetric ==
  Permutations(Terms) \cup Permutations(Windows) \cup Permutations(Members)
=============================================================================
