--------------------------- MODULE NotificationBell ---------------------------
(***************************************************************************)
(* The bell in the header of one reader's page, which shows the inbox that *)
(* SourceBridge fills.  It reads the inbox when the page is shown, every   *)
(* 90 seconds, when asked to, and some time after a hint that it changed;  *)
(* besides, every render of the layout by the server brings a copy.        *)
(*                                                                         *)
(* What makes it hard: a reply may be of a page that was left (the effect  *)
(* of the bell runs anew for every path), hints get lost with their        *)
(* connection, a hidden page reads nothing, and rights end silently.       *)
(*                                                                         *)
(* Another organization has a bell of its own (the component's key), so    *)
(* one organization is enough.  That a verified inbox becomes "unknown"    *)
(* after three minutes is a matter of display and left out.                *)
(***************************************************************************)
EXTENDS SourceBridge

CONSTANT Reader  \* whose page it is

ASSUME BellAssumption == Reader \in Users

VARIABLES
  signed,     \* the reader's session
  visible,    \* the page is in the foreground and online
  shown,      \* the inbox the bell shows
  call,       \* the request in flight of this run of the effect
  orphan,     \* one of an earlier run
  cooling,    \* less than 10 seconds since the last request
  listening,  \* subscribed to changes of the reader's rows
  timer,      \* a hint waits to be followed
  render,     \* a server render under way, with the inbox it read
  applied     \* history: the last inbox a reply brought

bellVars ==
  <<signed, visible, shown, call, orphan, cooling, listening, timer, render,
    applied>>
vars == <<bridgeVars, bellVars>>

Unverified == [verified |-> FALSE, inbox |-> {}]
Inboxes == SUBSET {r \in References : Reader \in Audience[r[1]]}

(* What a reader may be shown: an inbox, or that it cannot be verified.    *)
Answers == [verified : {TRUE}, inbox : Inboxes] \cup {Unverified}
NoCall == [step |-> "none", answer |-> Unverified]
CallStates == [step : {"none", "asked", "answered"}, answer : Answers]
NoRender == [step |-> "none", answer |-> Unverified]
RenderStates == [step : {"none", "read"}, answer : Answers]

TypeOK ==
  /\ BridgeTypeOK
  /\ signed \in BOOLEAN /\ visible \in BOOLEAN
  /\ shown \in Answers
  /\ call \in CallStates /\ orphan \in CallStates
  /\ cooling \in BOOLEAN /\ listening \in BOOLEAN /\ timer \in BOOLEAN
  /\ render \in RenderStates
  /\ applied \in Inboxes

(* What the reader's inbox is to the server: who has no session or no      *)
(* active membership is refused.                                           *)
Inbox ==
  IF signed /\ Reader \in member
  THEN [verified |-> TRUE, inbox |-> {r \in References : <<Reader, r>> \in told}]
  ELSE Unverified

Init ==
  /\ BridgeInit
  /\ signed = TRUE /\ visible = TRUE
  /\ shown \in {Unverified, Inbox}
  /\ call = NoCall /\ orphan = NoCall
  /\ cooling = FALSE /\ listening = FALSE /\ timer = FALSE
  /\ render = NoRender
  /\ applied = {}

-----------------------------------------------------------------------------
(* Requests and their replies.                                             *)

(* No other request of this run is in flight.                              *)
Free == call.step = "none"

Ask ==
  /\ call' = [step |-> "asked", answer |-> Unverified]
  /\ cooling' = TRUE

MayAsk == visible /\ Free /\ ~cooling

(* mutant: as long as it listens for hints there is no need to poll *)
PollAsFallback == MayAsk /\ ~listening

PollIsDue == MayAsk

(* The poll, and the return to a page that was hidden or out of focus.     *)
Poll ==
  /\ PollIsDue
  /\ Ask
  /\ UNCHANGED <<signed, visible, shown, orphan, listening, timer, render,
                 applied>>

(* "Aggiorna" does not wait for the cooldown.                              *)
Refresh ==
  /\ visible /\ Free
  /\ Ask
  /\ UNCHANGED <<signed, visible, shown, orphan, listening, timer, render,
                 applied>>

Cool ==
  /\ cooling
  /\ cooling' = FALSE
  /\ UNCHANGED <<signed, visible, shown, call, orphan, listening, timer, render,
                 applied>>

(* The server reads the inbox, or fails.                                   *)
Answered(c) ==
  {[step |-> "answered", answer |-> a] : a \in {Inbox, Unverified}}

AnswerCall ==
  /\ call.step = "asked"
  /\ call' \in Answered(call)
  /\ UNCHANGED <<signed, visible, shown, orphan, cooling, listening, timer,
                 render, applied>>

AnswerOrphan ==
  /\ orphan.step = "asked"
  /\ orphan' \in Answered(orphan)
  /\ UNCHANGED <<signed, visible, shown, call, cooling, listening, timer, render,
                 applied>>

(* A reply is shown as it is; no inbox is shown rather than an old one.    *)
Show(answer) ==
  /\ shown' = answer
  /\ applied' = IF answer.verified THEN answer.inbox ELSE applied

ReplyArrives ==
  /\ call.step = "answered"
  /\ Show(call.answer)
  /\ call' = NoCall
  /\ UNCHANGED <<signed, visible, orphan, cooling, listening, timer, render>>

(* mutant: a reply is shown whichever run of the effect asked for it *)
ShowOrphan == Show(orphan.answer)

(* The reply to an earlier run is dropped.                                 *)
DropOrphan == UNCHANGED <<shown, applied>>

OrphanArrives ==
  /\ orphan.step = "answered"
  /\ DropOrphan
  /\ orphan' = NoCall
  /\ UNCHANGED <<signed, visible, call, cooling, listening, timer, render>>

-----------------------------------------------------------------------------
(* The page.                                                               *)

(* The path changes: the effect ends and begins anew.  (Bound: one orphan.) *)
Navigate ==
  /\ orphan = NoCall
  /\ orphan' = call
  /\ call' = NoCall
  /\ cooling' = FALSE /\ listening' = FALSE /\ timer' = FALSE
  /\ UNCHANGED <<signed, visible, shown, render, applied>>

(* The server renders the layout, reading the inbox ...                    *)
Render ==
  /\ render = NoRender
  /\ \E a \in {Inbox, Unverified} : render' = [step |-> "read", answer |-> a]
  /\ UNCHANGED <<signed, visible, shown, call, orphan, cooling, listening, timer,
                 applied>>

(* ... and its copy replaces whatever the bell has read meanwhile.         *)
RenderArrives ==
  /\ render # NoRender
  /\ shown' = render.answer
  /\ render' = NoRender
  /\ UNCHANGED <<signed, visible, call, orphan, cooling, listening, timer,
                 applied>>

Hide ==
  /\ visible
  /\ visible' = FALSE
  /\ listening' = FALSE
  /\ UNCHANGED <<signed, shown, call, orphan, cooling, timer, render, applied>>

Return ==
  /\ ~visible
  /\ visible' = TRUE
  /\ UNCHANGED <<signed, shown, call, orphan, cooling, listening, timer, render,
                 applied>>

(* connectRealtime: who cannot be verified is shown nothing.  The two      *)
(* moments of it, before and after it asks who the reader is, look at the  *)
(* same things and are one.                                                *)
Connect ==
  /\ visible /\ ~listening
  /\ \/ /\ signed
        /\ listening' = TRUE
        /\ UNCHANGED shown
     \/ /\ shown' = Unverified
        /\ UNCHANGED listening
  /\ UNCHANGED <<signed, visible, call, orphan, cooling, timer, render, applied>>

(* The subscription begins, or a row of the reader's changes: a hint that  *)
(* may as well get lost, and is followed after a while.                    *)
Hint ==
  /\ listening /\ visible /\ ~timer
  /\ timer' = TRUE
  /\ UNCHANGED <<signed, visible, shown, call, orphan, cooling, listening, render,
                 applied>>

(* Following a hint is given up when the bell may not ask just now.        *)
FollowHint ==
  /\ timer
  /\ timer' = FALSE
  /\ IF MayAsk THEN Ask ELSE UNCHANGED <<call, cooling>>
  /\ UNCHANGED <<signed, visible, shown, orphan, listening, render, applied>>

SignOut ==
  /\ signed
  /\ signed' = FALSE
  /\ shown' = Unverified
  /\ listening' = FALSE
  /\ UNCHANGED <<visible, call, orphan, cooling, timer, render, applied>>

(* A new session or a new token: the connection is made anew.              *)
SignIn ==
  /\ signed' = TRUE
  /\ listening' = FALSE
  /\ UNCHANGED <<visible, shown, call, orphan, cooling, timer, render, applied>>

BellNext ==
  \/ Poll \/ Refresh \/ Cool
  \/ AnswerCall \/ AnswerOrphan \/ ReplyArrives \/ OrphanArrives
  \/ Navigate \/ Render \/ RenderArrives \/ Hide \/ Return
  \/ Connect \/ Hint \/ FollowHint \/ SignOut \/ SignIn

Next ==
  \/ BridgeNext /\ UNCHANGED bellVars
  \/ cast.bell /\ BellNext /\ UNCHANGED bridgeVars

(* The browser keeps its intervals and timers, and every request ends: the *)
(* network gives it up if the server does not answer.  Nobody needs to     *)
(* click, navigate, come back or be told anything.                         *)
BellFairness ==
  /\ WF_bellVars(Poll /\ cast.bell) /\ WF_bellVars(Cool /\ cast.bell)
  /\ WF_bellVars(AnswerCall /\ cast.bell)
  /\ WF_bellVars(ReplyArrives /\ cast.bell)

Spec == Init /\ [][Next]_vars /\ BridgeFairness /\ BellFairness

-----------------------------------------------------------------------------
(* Properties.                                                             *)

(* Replies are applied in the order in which the server read the inbox,    *)
(* across navigations: inboxes only grow, and the one a reply brings never *)
(* lacks what an earlier reply had (loadVerifiedInbox).                    *)
RepliesInOrder == [][applied \subseteq applied']_applied

(* On a page that stays open and in view the bell comes to show the        *)
(* reader's inbox and stays with it, or shows that it is unverified:       *)
(* events that are told appear, and the inbox of a reader whose membership *)
(* or session ended disappears, whichever hints are lost, replies fail or  *)
(* renders are late (docs/nc3-3: "a lost websocket is not a lost inbox").  *)
ScreenCatchesUp ==
  cast.bell /\ <>[][~Navigate]_bellVars =>
    \A inbox \in Answers :
      <>[](visible /\ Inbox = inbox) => <>[](shown \in {inbox, Unverified})
=============================================================================
