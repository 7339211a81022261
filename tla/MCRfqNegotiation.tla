--------------------------- MODULE MCRfqNegotiation ---------------------------
(* RfqNegotiation with small sets.                                         *)
EXTENDS RfqNegotiation, TLC

CONSTANTS PortalActivity, TalkActivity, MailActivity

(* The portal alone, with uploads; the conversation with the form, every   *)
(* mail going well; and the conversation with everything a mail can meet.  *)
PortalCast ==
  [tabs |-> Tabs, uploads |-> Uploads, windows |-> {},
   activity |-> PortalActivity, results |-> {}, faults |-> TRUE]
TalkCast ==
  [tabs |-> Tabs, uploads |-> {}, windows |-> Windows,
   activity |-> TalkActivity, results |-> {"sent"}, faults |-> FALSE]
MailCast ==
  [tabs |-> {}, uploads |-> {}, windows |-> Windows,
   activity |-> MailActivity, results |-> {"sent", "failed", "skipped"},
   faults |-> TRUE]
SmallCasts == {PortalCast, TalkCast, MailCast}

(* Those who never open their link are written to once, and not at all     *)
(* with everything a mail can meet.                                        *)
WithinTalk ==
  \A s \in Suppliers \ Responders :
    Len(messages'[s]) <= IF cast = MailCast THEN 0 ELSE 1

(* Tabs, uploads, windows, files and complete answers differ only in being *)
(* different; suppliers do not, for not all of them open their link.       *)
Symmetric ==
  Permutations(Tabs) \cup Permutations(Uploads)
    \cup Permutations(Windows) \cup Permutations(Files)
    \cup Permutations(Offers)
=============================================================================
