-------------------------- MODULE NotificationProofs --------------------------
(***************************************************************************)
(* Proofs about SourceBridge and NotificationBell, for any sources, users, *)
(* revisions, attempts and failures: the bridge keeps the contract of      *)
(* EventDelivery, and the bell applies replies in the order in which the   *)
(* server read the inbox.                                                  *)
(***************************************************************************)
EXTENDS NotificationBell, TLAPS

USE BridgeAssumptions, BellAssumption

(* What waits has an attempt left.                                         *)
WaitingHasAttempts ==
  \A r \in References : Waiting(r) => row[r].attempts < MaxAttempts

(* Only those are told whom the event concerns.                            *)
ToldConcerned ==
  \A u \in Users, r \in References : <<u, r>> \in told => u \in Audience[r[1]]

(* Somebody has been told of an event only if it is delivered.             *)
OnlyDeliveredIsTold ==
  \A r \in References : Announced(r) => row[r].status = "projected"

BridgeInv ==
  BridgeTypeOK /\ WaitingHasAttempts /\ ToldConcerned /\ OnlyDeliveredIsTold

(* The reader's rows, whoever asks for them.                               *)
Told == {r \in References : <<Reader, r>> \in told}

(* A reply under way has everything an applied one had, and neither brings *)
(* anything the reader was not told.                                       *)
RepliesAreFresh ==
  /\ applied \subseteq Told
  /\ call.step = "answered" /\ call.answer.verified
       => applied \subseteq call.answer.inbox /\ call.answer.inbox \subseteq Told

BellTypeOK ==
  /\ signed \in BOOLEAN /\ visible \in BOOLEAN
  /\ shown \in Answers
  /\ call \in CallStates /\ orphan \in CallStates
  /\ cooling \in BOOLEAN /\ listening \in BOOLEAN /\ timer \in BOOLEAN
  /\ render \in RenderStates
  /\ applied \in Inboxes

NotificationInv == BridgeInv /\ BellTypeOK /\ RepliesAreFresh

-----------------------------------------------------------------------------
(* What a step of the bridge does to the row of reference r: it is         *)
(* captured, it goes on waiting, it is given up, it is taken up again, or  *)
(* it is delivered to all whom it concerns.                                *)
RowMoves(r) ==
  \/ row[r].status = "none" /\ row'[r] = Pending /\ UNCHANGED told
  \/ /\ Waiting(r) /\ row'[r].status \in {"pending", "retry"}
     /\ row'[r].attempts < MaxAttempts /\ UNCHANGED told
  \/ Waiting(r) /\ row'[r].status = "dead" /\ UNCHANGED told
  \/ /\ row[r].status = "dead" /\ r \in Matches \X {1}
     /\ row'[r] = Pending /\ UNCHANGED told
  \/ /\ Waiting(r) /\ row'[r].status = "projected" /\ Recipients(r) # {}
     /\ told' = told \cup (Recipients(r) \X {r})

BridgeMoves ==
  \/ UNCHANGED <<row, told>>
  \/ \E r \in References :
       /\ row' \in [References -> Rows]
       /\ \A p \in References : p # r => row'[p] = row[p]
       /\ RowMoves(r)

LEMMA RowsTyped ==
  ASSUME BridgeInv
  PROVE  /\ row \in [References -> Rows] /\ told \subseteq Users \X References
         /\ \A r \in References :
              /\ row[r] \in Rows /\ row[r].attempts \in 0 .. MaxAttempts
              /\ row[r].status \in {"none", "pending", "retry", "projected", "dead"}
              /\ Waiting(r) => row[r].attempts + 1 \in 0 .. MaxAttempts
<1>1. row \in [References -> Rows] /\ told \subseteq Users \X References
  BY DEF BridgeInv, BridgeTypeOK
<1>2. ASSUME NEW r \in References
      PROVE  /\ row[r] \in Rows /\ row[r].attempts \in 0 .. MaxAttempts
             /\ row[r].status \in {"none", "pending", "retry", "projected", "dead"}
             /\ Waiting(r) => row[r].attempts + 1 \in 0 .. MaxAttempts
  <2>1. row[r] \in Rows
    BY <1>1
  <2>2. Waiting(r) => row[r].attempts < MaxAttempts
    BY DEF BridgeInv, WaitingHasAttempts
  <2> QED BY <2>1, <2>2 DEF Rows
<1> QED BY <1>1, <1>2

LEMMA PendingTyped ==
  /\ Pending \in Rows /\ Pending.status = "pending" /\ Pending.attempts = 0
  /\ Pending.attempts < MaxAttempts
BY DEF Pending, Rows

LEMMA QueueMoves ==
  ASSUME BridgeInv, NEW r \in References, NEW q \in Rows, Queue(r, q)
  PROVE  /\ faults' \in 0 .. MaxFaults /\ missed' \subseteq References
         /\ row' \in [References -> Rows]
         /\ \A p \in References : p # r => row'[p] = row[p]
         /\ row'[r] = q \/ UNCHANGED row
<1>1. /\ row \in [References -> Rows] /\ missed \subseteq References
      /\ faults \in 0 .. MaxFaults /\ cast.faults \in 0 .. MaxFaults
  BY DEF BridgeInv, BridgeTypeOK
<1>2. faults' \in 0 .. MaxFaults /\ missed' \subseteq References
  BY <1>1 DEF Queue, Fault
<1> QED BY <1>1, <1>2 DEF Queue

LEMMA HappenMoves ==
  ASSUME BridgeInv, NEW s \in Sources, Happen(s),
         revision[s] = 0 \/ (s \in Incidents /\ revision[s] < MaxRevision)
  PROVE  BridgeTypeOK' /\ BridgeMoves
<1> DEFINE r == <<s, revision[s] + 1>>
<1>1. /\ revision \in [Sources -> 0 .. MaxRevision] /\ revision[s] \in 0 .. MaxRevision
      /\ revision[s] + 1 \in 0 .. MaxRevision /\ live \subseteq Sources
      /\ revision' = [revision EXCEPT ![s] = revision[s] + 1]
  BY DEF BridgeInv, BridgeTypeOK, Happen
<1>2. r \in References
  BY <1>1 DEF References
<1>3. Queue(r, Captured(r)) /\ UNCHANGED told
  BY DEF Happen
<1> HIDE DEF r
<1>4. Captured(r) \in Rows
  BY <1>2, RowsTyped, PendingTyped DEF Captured
<1>5. /\ faults' \in 0 .. MaxFaults /\ missed' \subseteq References
      /\ row' \in [References -> Rows]
      /\ \A p \in References : p # r => row'[p] = row[p]
      /\ row'[r] = Captured(r) \/ UNCHANGED row
  BY <1>2, <1>3, <1>4, QueueMoves
<1>6. BridgeTypeOK'
  BY <1>1, <1>5 DEF BridgeInv, BridgeTypeOK, Happen
<1>7. CASE row[r].status = "none" /\ row'[r] = Pending
  BY <1>2, <1>3, <1>5, <1>6, <1>7 DEF BridgeMoves, RowMoves
<1>8. CASE row'[r] = row[r]
  <2>1. row' = row
    BY <1>5, <1>8, RowsTyped
  <2> QED BY <1>3, <1>6, <2>1 DEF BridgeMoves
<1>9. row'[r] = row[r] \/ (row[r].status = "none" /\ row'[r] = Pending)
  BY <1>5 DEF Captured
<1> QED BY <1>6, <1>7, <1>8, <1>9

LEMMA UnlockMoves ==
  ASSUME BridgeInv, NEW m \in Matches, Unlock(m)
  PROVE  BridgeTypeOK' /\ BridgeMoves
<1> DEFINE r == <<m, 1>>
<1>1. r \in References /\ r \in Matches \X {1}
  BY DEF References, Sources
<1>2. UNCHANGED <<revision, live, member, told, cast>> /\ unlocked' \subseteq Matches
  BY DEF BridgeInv, BridgeTypeOK, Unlock
<1>3. CASE UNCHANGED <<row, faults, missed>>
  BY <1>2, <1>3 DEF BridgeMoves, BridgeInv, BridgeTypeOK
<1>4. CASE Queue(r, Woken(r))
  <2> HIDE DEF r
  <2>1. Woken(r) \in Rows
    BY <1>1, RowsTyped, PendingTyped DEF Woken
  <2>2. /\ faults' \in 0 .. MaxFaults /\ missed' \subseteq References
        /\ row' \in [References -> Rows]
        /\ \A p \in References : p # r => row'[p] = row[p]
        /\ row'[r] = Woken(r) \/ UNCHANGED row
    BY <1>1, <1>4, <2>1, QueueMoves
  <2>3. BridgeTypeOK'
    BY <1>2, <2>2 DEF BridgeInv, BridgeTypeOK
  <2>4. CASE UNCHANGED row
    BY <1>2, <2>3, <2>4 DEF BridgeMoves
  <2>5. CASE row'[r] = Pending
    <3>1. CASE row[r].status = "projected" /\ row'[r] = Woken(r)
      <4>1. row' = row
        BY <2>2, <3>1, RowsTyped DEF Woken
      <4> QED BY <1>2, <2>3, <4>1 DEF BridgeMoves
    <3>2. CASE row[r].status # "projected"
      <4>1. row[r].status \in {"none", "dead"} \/ Waiting(r)
        BY <1>1, <3>2, RowsTyped DEF Waiting
      <4>2. RowMoves(r)
        BY <1>1, <1>2, <2>5, <4>1, PendingTyped DEF RowMoves
      <4> QED BY <1>1, <2>2, <2>3, <4>2 DEF BridgeMoves
    <3> QED BY <2>2, <2>4, <3>1, <3>2
  <2>6. CASE row'[r] = Woken(r) /\ row[r].status = "projected"
    <3>1. row' = row
      BY <2>2, <2>6, RowsTyped DEF Woken
    <3> QED BY <1>2, <2>3, <3>1 DEF BridgeMoves
  <2> QED BY <2>2, <2>4, <2>5, <2>6 DEF Woken
<1> QED BY <1>3, <1>4 DEF Unlock

LEMMA ProcessMoves ==
  ASSUME BridgeInv, NEW r \in References, Process(r)
  PROVE  BridgeTypeOK' /\ BridgeMoves
<1>1. /\ Waiting(r) /\ row \in [References -> Rows] /\ row[r] \in Rows
      /\ row[r].attempts + 1 \in 0 .. MaxAttempts
      /\ row[r].attempts \in 0 .. MaxAttempts
      /\ told \subseteq Users \X References
  BY RowsTyped DEF Process
<1>2. Recipients(r) \subseteq Users
  BY DEF Recipients, References, Sources
<1>3. CASE Route(r)
  <2> DEFINE e == [row[r] EXCEPT !.status = "projected"]
  <2>1. e \in Rows /\ e.status = "projected"
    BY <1>1 DEF Rows
  <2>2. row' = [row EXCEPT ![r] = e]
    BY <1>3, Zenon DEF Route
  <2> HIDE DEF e
  <2>3. /\ row' \in [References -> Rows] /\ row'[r] = e
        /\ \A p \in References : p # r => row'[p] = row[p]
    BY <1>1, <2>1, <2>2
  <2>4. ~Announced(r)
    BY <1>1 DEF BridgeInv, OnlyDeliveredIsTold, Waiting
  <2>5. told' = told \cup (Recipients(r) \X {r}) /\ Recipients(r) # {}
    BY <1>3, <2>4 DEF Route, Routable
  <2>6. told' \subseteq Users \X References
    BY <1>1, <1>2, <2>5
  <2>7. BridgeTypeOK'
    BY <1>3, <2>3, <2>6 DEF BridgeInv, BridgeTypeOK, Process, Route
  <2> QED BY <1>1, <2>1, <2>3, <2>5, <2>7 DEF BridgeMoves, RowMoves
<1>4. CASE Refuse(r)
  <2> DEFINE e == AfterFailure(row[r])
  <2>1. /\ e \in Rows
        /\ \/ e.status = "dead"
           \/ e.status = "retry" /\ e.attempts < MaxAttempts
    <3>1. \A q \in Rows : \A n \in 0 .. MaxAttempts :
            LET d == [q EXCEPT !.status = "dead", !.attempts = n]
            IN  d \in Rows /\ d.status = "dead"
      BY DEF Rows
    <3>2. \A n \in 0 .. MaxAttempts :
            LET d == [status |-> "retry", attempts |-> n, due |-> FALSE]
            IN  d \in Rows /\ d.status = "retry" /\ d.attempts = n
      BY DEF Rows
    <3>3. CASE row[r].attempts + 1 >= MaxAttempts
      BY <1>1, <3>1, <3>3, Zenon DEF AfterFailure
    <3>4. CASE ~ row[r].attempts + 1 >= MaxAttempts
      <4>1. row[r].attempts + 1 < MaxAttempts
        BY <1>1, <3>4
      <4>2. e = [status |-> "retry", attempts |-> row[r].attempts + 1, due |-> FALSE]
        BY <3>4, Zenon DEF AfterFailure
      <4> QED BY <1>1, <3>2, <4>1, <4>2
    <3> QED BY <3>3, <3>4
  <2>2. row' = [row EXCEPT ![r] = e] /\ UNCHANGED told
    BY <1>4 DEF Refuse
  <2> HIDE DEF e
  <2>3. /\ row' \in [References -> Rows] /\ row'[r] = e
        /\ \A p \in References : p # r => row'[p] = row[p]
    BY <1>1, <2>1, <2>2
  <2>4. faults' \in 0 .. MaxFaults
    <3>1. faults \in 0 .. MaxFaults /\ cast.faults \in 0 .. MaxFaults
      BY DEF BridgeInv, BridgeTypeOK
    <3> QED BY <1>4, <3>1 DEF Refuse, Fault
  <2>5. BridgeTypeOK'
    BY <2>2, <2>3, <2>4 DEF BridgeInv, BridgeTypeOK, Process
  <2> QED BY <1>1, <2>1, <2>2, <2>3, <2>5 DEF BridgeMoves, RowMoves
<1> QED BY <1>3, <1>4 DEF Process

LEMMA ElapseMoves ==
  ASSUME BridgeInv, NEW r \in References, Elapse(r)
  PROVE  BridgeTypeOK' /\ BridgeMoves
<1> DEFINE e == [row[r] EXCEPT !.due = TRUE]
<1>1. /\ Waiting(r) /\ row \in [References -> Rows] /\ row[r] \in Rows
      /\ row[r].status = "retry" /\ row[r].attempts < MaxAttempts
  BY RowsTyped DEF Elapse, Waiting, BridgeInv, WaitingHasAttempts
<1>2. e \in Rows /\ e.status = "retry" /\ e.attempts < MaxAttempts
  BY <1>1 DEF Rows
<1>3. row' = [row EXCEPT ![r] = e]
  BY Zenon DEF Elapse
<1> HIDE DEF e
<1>4. /\ row' \in [References -> Rows] /\ row'[r] = e
      /\ \A p \in References : p # r => row'[p] = row[p]
  BY <1>1, <1>2, <1>3
<1>5. BridgeTypeOK' /\ UNCHANGED told
  BY <1>4 DEF BridgeInv, BridgeTypeOK, Elapse
<1> QED BY <1>1, <1>2, <1>4, <1>5 DEF BridgeMoves, RowMoves

LEMMA BridgeSteps ==
  ASSUME BridgeInv, [Next]_vars
  PROVE  BridgeTypeOK' /\ BridgeMoves
<1>1. CASE UNCHANGED bridgeVars
  BY <1>1 DEF bridgeVars, BridgeInv, BridgeTypeOK, BridgeMoves
<1>2. CASE BridgeNext
  <2>1. ASSUME NEW s \in Sources, Record(s)
        PROVE  BridgeTypeOK' /\ BridgeMoves
    BY <2>1, HappenMoves DEF Record
  <2>2. ASSUME NEW s \in Incidents, Raise(s)
        PROVE  BridgeTypeOK' /\ BridgeMoves
    BY <2>2, HappenMoves DEF Raise, Sources
  <2>3. ASSUME NEW s, Settle(s)
        PROVE  BridgeTypeOK' /\ BridgeMoves
    BY <2>3 DEF Settle, BridgeInv, BridgeTypeOK, BridgeMoves
  <2>4. ASSUME NEW m \in Matches, FindMatch(m)
        PROVE  BridgeTypeOK' /\ BridgeMoves
    <3>1. m \in Sources
      BY DEF Sources
    <3>2. CASE live' = live \cup {m} /\ UNCHANGED <<revision, unlocked, member, row,
                                         told, faults, missed, cast>>
      BY <3>1, <3>2 DEF BridgeInv, BridgeTypeOK, BridgeMoves
    <3> QED BY <2>1, <2>4, <3>1, <3>2 DEF FindMatch
  <2>5. ASSUME NEW u \in Users, Join(u) \/ Leave(u)
        PROVE  BridgeTypeOK' /\ BridgeMoves
    BY <2>5 DEF Join, Leave, BridgeInv, BridgeTypeOK, BridgeMoves
  <2> QED
    BY <1>2, <2>1, <2>2, <2>3, <2>4, <2>5, UnlockMoves, ProcessMoves, ElapseMoves
    DEF BridgeNext, Sources, StaleMatch
<1> QED BY <1>1, <1>2 DEF Next, vars

LEMMA BridgeInvKept ==
  ASSUME BridgeInv, [Next]_vars
  PROVE  BridgeInv' /\ told \subseteq told'
<1>1. BridgeTypeOK' /\ BridgeMoves
  BY BridgeSteps
<1>2. CASE UNCHANGED <<row, told>>
  BY <1>1, <1>2
  DEF BridgeInv, WaitingHasAttempts, ToldConcerned, OnlyDeliveredIsTold, Waiting,
      Announced
<1>3. ASSUME NEW r \in References, row' \in [References -> Rows], RowMoves(r),
             \A p \in References : p # r => row'[p] = row[p]
      PROVE  BridgeInv' /\ told \subseteq told'
  <2>1. told \subseteq told'
    BY <1>3 DEF RowMoves
  <2>2. WaitingHasAttempts'
    BY <1>3, PendingTyped DEF BridgeInv, WaitingHasAttempts, Waiting, RowMoves
  <2>3. \A u \in Users, p \in References :
          <<u, p>> \in told' => \/ <<u, p>> \in told
                                \/ /\ p = r /\ u \in Recipients(r)
                                   /\ row'[r].status = "projected"
    BY <1>3 DEF RowMoves
  <2>4. ToldConcerned'
    BY <2>3 DEF BridgeInv, ToldConcerned, Recipients
  <2>5. ASSUME NEW p \in References, NEW u \in Users, <<u, p>> \in told'
        PROVE  row'[p].status = "projected"
    <3>1. CASE p = r /\ row'[r].status = "projected"
      BY <3>1
    <3>2. CASE <<u, p>> \in told
      <4>1. row[p].status = "projected"
        BY <3>2 DEF BridgeInv, OnlyDeliveredIsTold, Announced
      <4> QED BY <1>3, <4>1 DEF RowMoves, Waiting
    <3> QED BY <2>3, <2>5, <3>1, <3>2
  <2>6. OnlyDeliveredIsTold'
    BY <2>5 DEF OnlyDeliveredIsTold, Announced
  <2> QED BY <1>1, <2>1, <2>2, <2>4, <2>6 DEF BridgeInv
<1> QED BY <1>1, <1>2, <1>3 DEF BridgeMoves

-----------------------------------------------------------------------------
(* The bell.                                                               *)

LEMMA AnswersTyped ==
  /\ Unverified \in Answers /\ Unverified.verified = FALSE
  /\ NoCall \in CallStates /\ NoCall.step = "none" /\ NoCall.answer = Unverified
  /\ NoRender \in RenderStates
  /\ \A a \in Answers :
       /\ a.verified => a.inbox \in Inboxes
       /\ \A step \in {"none", "asked", "answered"} :
            [step |-> step, answer |-> a] \in CallStates
       /\ [step |-> "read", answer |-> a] \in RenderStates
<1>1. Unverified \in Answers /\ Unverified.verified = FALSE
  BY DEF Unverified, Answers
<1>2. ASSUME NEW a \in Answers, a.verified
      PROVE  a.inbox \in Inboxes
  <2>1. a # Unverified
    BY <1>1, <1>2
  <2>2. a \in [verified : {TRUE}, inbox : Inboxes]
    BY <2>1 DEF Answers
  <2> QED BY <2>2
<1>3. \A a \in Answers :
        /\ \A step \in {"none", "asked", "answered"} :
             [step |-> step, answer |-> a] \in CallStates
        /\ [step |-> "read", answer |-> a] \in RenderStates
  BY DEF CallStates, RenderStates
<1>4. NoRender \in RenderStates
  BY <1>1 DEF NoRender, RenderStates
<1> QED BY <1>1, <1>2, <1>3, <1>4 DEF NoCall, CallStates

(* The server answers with what the reader was told, or not at all.        *)
LEMMA InboxTyped ==
  ASSUME BridgeInv
  PROVE  /\ Inbox \in Answers
         /\ Inbox.verified => Inbox.inbox = Told
         /\ Told \in Inboxes
<1>1. Told \in Inboxes
  BY DEF BridgeInv, ToldConcerned, Told, Inboxes
<1>2. CASE signed /\ Reader \in member
  <2>1. Inbox = [verified |-> TRUE, inbox |-> Told]
    BY <1>2 DEF Inbox, Told
  <2> QED BY <1>1, <2>1 DEF Answers
<1>3. CASE ~(signed /\ Reader \in member)
  <2>1. Inbox = Unverified
    BY <1>3 DEF Inbox
  <2> QED BY <1>1, <2>1, AnswersTyped
<1> QED BY <1>2, <1>3

LEMMA AskMoves ==
  ASSUME NotificationInv, Ask
  PROVE  /\ call' \in CallStates /\ call'.step = "asked" /\ cooling' \in BOOLEAN
<1>1. call' = [step |-> "asked", answer |-> Unverified] /\ cooling' = TRUE
  BY DEF Ask
<1> QED BY <1>1, AnswersTyped

LEMMA RepliesMove ==
  ASSUME NotificationInv,
         AnswerCall \/ AnswerOrphan \/ ReplyArrives \/ OrphanArrives,
         UNCHANGED told
  PROVE  BellTypeOK' /\ RepliesAreFresh' /\ applied \subseteq applied'
<1>1. BridgeInv /\ BellTypeOK /\ RepliesAreFresh /\ Told' = Told
  BY DEF NotificationInv, Told
<1>2. Inbox \in Answers /\ (Inbox.verified => Inbox.inbox = Told) /\ Told \in Inboxes
  BY <1>1, InboxTyped
<1>3. ASSUME NEW c, c \in Answered(call)
      PROVE  /\ c \in CallStates
             /\ c.answer.verified => c.answer.inbox = Told
  <2>1. PICK a \in {Inbox, Unverified} : c = [step |-> "answered", answer |-> a]
    BY <1>3 DEF Answered
  <2>2. a \in Answers /\ (a.verified => a.inbox = Told)
    BY <1>2, <2>1, AnswersTyped
  <2>3. c \in CallStates /\ c.answer = a
    BY <2>1, <2>2, AnswersTyped
  <2> QED BY <2>2, <2>3
<1>4. CASE AnswerCall
  BY <1>1, <1>3, <1>4 DEF AnswerCall, BellTypeOK, RepliesAreFresh
<1>5. CASE AnswerOrphan
  <2>1. Answered(orphan) = Answered(call)
    BY DEF Answered
  <2> QED BY <1>1, <1>3, <1>5, <2>1 DEF AnswerOrphan, BellTypeOK, RepliesAreFresh
<1>6. CASE ReplyArrives
  <2> DEFINE a == call.answer
  <2>1. a \in Answers /\ call.step = "answered"
    BY <1>1, <1>6 DEF ReplyArrives, BellTypeOK, CallStates
  <2>2. shown' = a /\ applied' = IF a.verified THEN a.inbox ELSE applied
    BY <1>6 DEF ReplyArrives, Show
  <2>3. call' = NoCall /\ UNCHANGED <<signed, visible, orphan, cooling, listening,
                                      timer, render>>
    BY <1>6 DEF ReplyArrives
  <2>4. /\ applied' \in Inboxes /\ applied \subseteq applied'
        /\ applied' \subseteq Told
    BY <1>1, <2>1, <2>2, AnswersTyped DEF BellTypeOK, RepliesAreFresh
  <2> QED BY <1>1, <2>1, <2>2, <2>3, <2>4, AnswersTyped DEF BellTypeOK, RepliesAreFresh
<1>7. CASE OrphanArrives
  BY <1>1, <1>7, AnswersTyped
  DEF OrphanArrives, DropOrphan, BellTypeOK, RepliesAreFresh
<1> QED BY <1>4, <1>5, <1>6, <1>7

LEMMA BellMoves ==
  ASSUME NotificationInv, BellNext, UNCHANGED told
  PROVE  BellTypeOK' /\ RepliesAreFresh' /\ applied \subseteq applied'
<1> DEFINE Goal == BellTypeOK' /\ RepliesAreFresh' /\ applied \subseteq applied'
<1>1. BridgeInv /\ BellTypeOK /\ RepliesAreFresh /\ Told' = Told
  BY DEF NotificationInv, Told
<1>2. CASE Poll \/ Refresh
  BY <1>1, <1>2, AskMoves DEF Poll, Refresh, BellTypeOK, RepliesAreFresh
<1>3. CASE FollowHint
  BY <1>1, <1>3, AskMoves DEF FollowHint, BellTypeOK, RepliesAreFresh
<1>4. CASE Navigate
  BY <1>1, <1>4, AnswersTyped DEF Navigate, BellTypeOK, RepliesAreFresh
<1>5. CASE Render
  <2>1. Inbox \in Answers
    BY <1>1, InboxTyped
  <2>2. render' \in RenderStates
    BY <1>5, <2>1, AnswersTyped DEF Render
  <2> QED BY <1>1, <1>5, <2>2 DEF Render, BellTypeOK, RepliesAreFresh
<1>6. CASE RenderArrives
  <2>1. render.answer \in Answers
    BY <1>1 DEF BellTypeOK, RenderStates
  <2> QED BY <1>1, <1>6, <2>1, AnswersTyped
    DEF RenderArrives, BellTypeOK, RepliesAreFresh
<1>7. CASE Cool \/ Hide \/ Return \/ Connect \/ Hint \/ SignOut \/ SignIn
  BY <1>1, <1>7, AnswersTyped
  DEF Cool, Hide, Return, Connect, Hint, SignOut, SignIn, BellTypeOK,
      RepliesAreFresh
<1> QED BY <1>2, <1>3, <1>4, <1>5, <1>6, <1>7, RepliesMove DEF BellNext

-----------------------------------------------------------------------------
LEMMA NotificationInvStarts == Init => NotificationInv
<1> SUFFICES ASSUME Init PROVE NotificationInv
  OBVIOUS
<1>1. BridgeTypeOK /\ told = {} /\ \A r \in References : row[r] = NoRow
  BY DEF Init, BridgeInit, BridgeTypeOK, Rows, NoRow
<1>2. BridgeInv
  BY <1>1 DEF BridgeInv, WaitingHasAttempts, ToldConcerned, OnlyDeliveredIsTold,
    Waiting, Announced, NoRow
<1>3. BellTypeOK
  BY <1>2, AnswersTyped, InboxTyped DEF Init, BellTypeOK, Inboxes
<1>4. RepliesAreFresh
  BY AnswersTyped DEF Init, RepliesAreFresh
<1> QED BY <1>2, <1>3, <1>4 DEF NotificationInv

LEMMA NotificationInvKept ==
  ASSUME NotificationInv, [Next]_vars
  PROVE  NotificationInv' /\ applied \subseteq applied'
<1>1. BridgeInv' /\ told \subseteq told'
  BY BridgeInvKept DEF NotificationInv
<1>2. CASE BellNext /\ UNCHANGED bridgeVars
  BY <1>1, <1>2, BellMoves DEF NotificationInv, bridgeVars
<1>3. CASE UNCHANGED bellVars
  <2>1. BellTypeOK' /\ UNCHANGED <<applied, call>>
    BY <1>3 DEF NotificationInv, BellTypeOK, bellVars
  <2>2. Told \subseteq Told'
    BY <1>1 DEF Told
  <2>3. RepliesAreFresh'
    BY <2>1, <2>2 DEF NotificationInv, RepliesAreFresh
  <2> QED BY <1>1, <2>1, <2>3 DEF NotificationInv
<1> QED BY <1>2, <1>3 DEF Next, vars

LEMMA NotificationInvAlways == Spec => []NotificationInv
<1>1. NotificationInv /\ [Next]_vars => NotificationInv'
  BY NotificationInvKept
<1> QED BY <1>1, NotificationInvStarts, PTL DEF Spec

-----------------------------------------------------------------------------
(* The queue, the inbox rows and the bell keep their types: above all no   *)
(* row counts more attempts than there may be, no inbox row has another    *)
(* reader than the event concerns, and the bell shows a set of references  *)
(* that concern its reader or that it is unverified.                       *)
THEOREM NotificationTypeCorrect == Spec => []TypeOK
<1>1. NotificationInv => TypeOK
  BY DEF NotificationInv, BridgeInv, BellTypeOK, TypeOK
<1> QED BY <1>1, NotificationInvAlways, PTL

(* Replies are applied in the order in which the server read the inbox:    *)
(* the inbox a reply brings lacks nothing that an earlier one had, however *)
(* often the reader navigates while requests are under way.                *)
THEOREM InboxOnlyGrows == Spec => RepliesInOrder
<1> DEFINE A == applied \subseteq applied'
<1>1. NotificationInv /\ [Next]_vars => [A]_applied
  BY NotificationInvKept
<1> QED BY <1>1, NotificationInvAlways, PTL DEF Spec, RepliesInOrder

-----------------------------------------------------------------------------
(* The contract.                                                           *)

LEMMA FatesFollow ==
  ASSUME BridgeInv, BridgeInv', BridgeMoves
  PROVE  [Delivery!Next]_(Delivery!deliveryVars)
<1> DEFINE fate == [r \in References |-> Fate(r)]
<1>1. CASE UNCHANGED <<row, told>>
  <2>1. \A r \in References : Fate(r)' = Fate(r)
    BY <1>1 DEF Fate, Waiting
  <2>2. fate' = fate
    BY <2>1
  <2> QED BY <1>1, <2>2 DEF Delivery!deliveryVars
<1>2. ASSUME NEW r \in References, RowMoves(r),
             \A p \in References : p # r => row'[p] = row[p]
      PROVE  [Delivery!Next]_(Delivery!deliveryVars)
  <2>1. \A p \in References : p # r => Fate(p)' = Fate(p)
    BY <1>2 DEF Fate, Waiting
  <2>2. fate' = [fate EXCEPT ![r] = Fate(r)']
    BY <2>1
  <2>3. fate[r] = Fate(r)
    OBVIOUS
  <2>4. CASE row[r].status = "none" /\ row'[r] = Pending /\ UNCHANGED told
    <3>1. Fate(r) = "none" /\ Fate(r)' = "open"
      BY <2>4, PendingTyped DEF Fate, Waiting
    <3> QED BY <2>2, <2>3, <2>4, <3>1 DEF Delivery!Next, Delivery!Announce
  <2>5. CASE /\ Waiting(r) /\ row'[r].status \in {"pending", "retry"}
             /\ UNCHANGED told
    <3>1. Fate(r) = "open" /\ Fate(r)' = "open"
      BY <2>5 DEF Fate, Waiting
    <3>2. fate' = fate
      BY <2>1, <3>1
    <3> QED BY <2>5, <3>2 DEF Delivery!deliveryVars
  <2>6. CASE Waiting(r) /\ row'[r].status = "dead" /\ UNCHANGED told
    <3>1. Fate(r) = "open" /\ Fate(r)' = "abandoned"
      BY <2>6 DEF Fate, Waiting
    <3> QED BY <2>2, <2>3, <2>6, <3>1 DEF Delivery!Next, Delivery!Abandon
  <2>7. CASE /\ row[r].status = "dead" /\ r \in Matches \X {1}
             /\ row'[r] = Pending /\ UNCHANGED told
    <3>1. Fate(r) = "abandoned" /\ Fate(r)' = "open"
      BY <2>7, PendingTyped DEF Fate, Waiting
    <3> QED BY <2>2, <2>3, <2>7, <3>1 DEF Delivery!Next, Delivery!Revive
  <2>8. CASE /\ Waiting(r) /\ row'[r].status = "projected" /\ Recipients(r) # {}
             /\ told' = told \cup (Recipients(r) \X {r})
    <3>1. Fate(r) = "open" /\ Fate(r)' = "delivered"
      BY <2>8 DEF Fate, Waiting
    <3>2. Recipients(r) \in (SUBSET Users) \ {{}}
      BY <2>8 DEF Recipients, References, Sources
    <3> QED BY <2>2, <2>3, <2>8, <3>1, <3>2 DEF Delivery!Next, Delivery!Deliver
  <2> QED BY <1>2, <2>4, <2>5, <2>6, <2>7, <2>8 DEF RowMoves
<1> QED BY <1>1, <1>2 DEF BridgeMoves

(* The bridge keeps the contract of EventDelivery: whatever triggers,      *)
(* wakes, retries, refusals and the router do, an event is told at most    *)
(* once, to all its recipients at once and to somebody; what was delivered *)
(* stays so, and what was given up is taken up again only if it is a match *)
(* that has been unlocked.                                                 *)
THEOREM BridgeImplementsDelivery == Spec => BridgeDelivers
<1>1. Init => Delivery!Init
  <2> SUFFICES ASSUME Init PROVE Delivery!Init
    OBVIOUS
  <2>1. told = {} /\ \A r \in References : row[r].status = "none"
    BY DEF Init, BridgeInit, NoRow
  <2>2. \A r \in References : Fate(r) = "none"
    BY <2>1 DEF Fate, Waiting
  <2> QED BY <2>1, <2>2 DEF Delivery!Init
<1>2. NotificationInv /\ [Next]_vars => [Delivery!Next]_(Delivery!deliveryVars)
  <2> SUFFICES ASSUME NotificationInv, [Next]_vars
               PROVE  [Delivery!Next]_(Delivery!deliveryVars)
    OBVIOUS
  <2>1. BridgeInv /\ BridgeMoves /\ BridgeInv'
    BY BridgeSteps, BridgeInvKept DEF NotificationInv
  <2> QED BY <2>1, FatesFollow
<1> QED BY <1>1, <1>2, NotificationInvAlways, PTL DEF Spec, BridgeDelivers, Delivery!Spec
=============================================================================
