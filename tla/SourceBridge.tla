----------------------------- MODULE SourceBridge -----------------------------
(***************************************************************************)
(* From a business event to the inboxes of those it concerns: triggers     *)
(* capture a reference to the event in a queue, a job takes due references *)
(* from it every five minutes, and the router tells everyone who is        *)
(* entitled to know, if the event still is what the reference says.        *)
(*                                                                         *)
(* A trigger runs in the transaction of the event and never fails it: what *)
(* it cannot write is lost.  The job commits a batch as a whole; its rows  *)
(* are locked meanwhile and independent, so one row is one action here.    *)
(* The permanent errors of the router (a kind it does not know) cannot     *)
(* happen to captured references and are left out.                         *)
(***************************************************************************)
EXTENDS Integers

CONSTANTS
  Users,
  Records,      \* what stays true: events of an RFQ, a job that failed
  Incidents,    \* what is settled and may happen again: alerts; claims, once
  Matches,      \* matches of a request and a supplier, which must be unlocked
  Audience,     \* whose role makes them recipients of a source's events
  MaxRevision,  \* bound: occurrences of an incident
  MaxAttempts,  \* 12 in the code
  MaxFaults,    \* bound: statements that fail for no reason of the data
  Casts         \* bound: the sources that take part together

Sources == Records \cup Incidents \cup Matches
References == Sources \X {1} \cup Incidents \X (1 .. MaxRevision)

ASSUME BridgeAssumptions ==
  /\ Audience \in [Sources -> SUBSET Users]
  /\ MaxRevision \in Nat \ {0}
  /\ MaxAttempts \in Nat \ {0}
  /\ MaxFaults \in Nat /\ MaxFaults < MaxAttempts
  /\ Casts \subseteq [sources : SUBSET Sources, faults : 0 .. MaxFaults,
                     bell : BOOLEAN]

VARIABLES
  revision,  \* the last revision of each source; 0: it has not happened
  live,      \* sources that are as their last revision says
  unlocked,  \* matches the supplier's organization has paid for
  member,    \* users whose membership is active
  row,       \* the queue, by reference
  told,      \* <<user, reference>>: the recipients' inbox rows
  faults,    \* how many statements have failed so far
  missed,    \* history: references whose last capture or wake failed
  cast       \* the bound of this behaviour

bridgeVars ==
  <<revision, live, unlocked, member, row, told, faults, missed, cast>>

Rows ==
  [status : {"none", "pending", "retry", "projected", "dead"},
   attempts : 0 .. MaxAttempts, due : BOOLEAN]
NoRow == [status |-> "none", attempts |-> 0, due |-> FALSE]
Pending == [status |-> "pending", attempts |-> 0, due |-> TRUE]

BridgeTypeOK ==
  /\ revision \in [Sources -> 0 .. MaxRevision]
  /\ live \subseteq Sources
  /\ unlocked \subseteq Matches
  /\ member \subseteq Users
  /\ row \in [References -> Rows]
  /\ told \subseteq Users \X References
  /\ faults \in 0 .. MaxFaults
  /\ missed \subseteq References
  /\ cast \in Casts

BridgeInit ==
  /\ revision = [s \in Sources |-> 0]
  /\ live = {}
  /\ unlocked = {}
  /\ member \in SUBSET Users
  /\ row = [r \in References |-> NoRow]
  /\ told = {}
  /\ faults = 0
  /\ missed = {}
  /\ cast \in Casts

-----------------------------------------------------------------------------
(* Capturing a reference, in the transaction of the event.                 *)

(* A statement fails: the bound of the faults.                             *)
Fault ==
  /\ faults < cast.faults
  /\ faults' = faults + 1

(* The trigger writes row q for r, or fails unnoticed.                     *)
Queue(r, q) ==
  \/ /\ row' = [row EXCEPT ![r] = q]
     /\ missed' = missed \ {r}
     /\ UNCHANGED faults
  \/ /\ Fault
     /\ missed' = missed \cup {r}
     /\ UNCHANGED row

(* A reference that is in the queue already is left as it is.              *)
Captured(r) == IF row[r].status = "none" THEN Pending ELSE row[r]

(* Source s happens, for the first time or again.                          *)
Happen(s) ==
  /\ revision' = [revision EXCEPT ![s] = revision[s] + 1]
  /\ live' = live \cup {s}
  /\ LET r == <<s, revision[s] + 1>> IN Queue(r, Captured(r))
  /\ UNCHANGED <<unlocked, member, told, cast>>

Record(s) == revision[s] = 0 /\ Happen(s)

Raise(s) == revision[s] < MaxRevision /\ Happen(s)

(* The alert is acknowledged or resolved, the claim is decided.            *)
Settle(s) ==
  /\ s \in live
  /\ live' = live \ {s}
  /\ UNCHANGED <<revision, unlocked, member, row, told, faults, missed, cast>>

(* The matches of a request are computed: a match is found, again or for   *)
(* the first time, which alone makes the notification that is captured.    *)
FindMatch(m) ==
  \/ Record(m)
  \/ /\ revision[m] = 1
     /\ live' = live \cup {m}
     /\ UNCHANGED <<revision, unlocked, member, row, told, faults, missed, cast>>

(* It is not found any more, or its request closes.                        *)
StaleMatch(m) == Settle(m)

(* mutant: a wake leaves alone what was given up *)
NotRevived(r) == IF row[r].status = "dead" THEN row[r] ELSE Captured(r)

(* A wake starts the reference anew, unless it has been delivered (which   *)
(* it cannot be before the unlock).                                        *)
Woken(r) == IF row[r].status = "projected" THEN row[r] ELSE Pending

(* The unlock wakes the reference of the notification, if there is one.    *)
Unlock(m) ==
  /\ m \notin unlocked
  /\ unlocked' = unlocked \cup {m}
  /\ IF revision[m] = 0 THEN UNCHANGED <<row, faults, missed>>
     ELSE Queue(<<m, 1>>, Woken(<<m, 1>>))
  /\ UNCHANGED <<revision, live, member, told, cast>>

Join(u) ==
  /\ u \notin member
  /\ member' = member \cup {u}
  /\ UNCHANGED <<revision, live, unlocked, row, told, faults, missed, cast>>

Leave(u) ==
  /\ u \in member
  /\ member' = member \ {u}
  /\ UNCHANGED <<revision, live, unlocked, row, told, faults, missed, cast>>

-----------------------------------------------------------------------------
(* The job and the router.                                                 *)

Verified(r) ==
  /\ r[1] \in live
  /\ r[2] = revision[r[1]]
  /\ r[1] \in Matches => r[1] \in unlocked

Recipients(r) == Audience[r[1]] \cap member
Announced(r) == \E u \in Users : <<u, r>> \in told
Waiting(r) == row[r].status \in {"pending", "retry"}

(* mutant: an event that concerns nobody is delivered nevertheless *)
ToAnybody(r) == Verified(r)

Routable(r) == Verified(r) /\ Recipients(r) # {}

(* mutant: a failure is not counted *)
NotCounted(q) == [q EXCEPT !.status = "retry", !.due = FALSE]

(* mutant: failures are counted but nothing is given up *)
RetryForever(q) ==
  [status |-> "retry", attempts |-> q.attempts + 1, due |-> FALSE]

AfterFailure(q) ==
  IF q.attempts + 1 >= MaxAttempts
  THEN [q EXCEPT !.status = "dead", !.attempts = q.attempts + 1]
  ELSE [status |-> "retry", attempts |-> q.attempts + 1, due |-> FALSE]

(* The router tells an event once; asked again it says who was told.       *)
Route(r) ==
  /\ Routable(r)
  /\ row' = [row EXCEPT ![r].status = "projected"]
  /\ told' = told \cup (IF Announced(r) THEN {} ELSE Recipients(r) \X {r})
  /\ UNCHANGED faults

Refuse(r) ==
  /\ IF Routable(r) THEN Fault ELSE UNCHANGED faults
  /\ row' = [row EXCEPT ![r] = AfterFailure(row[r])]
  /\ UNCHANGED told

Process(r) ==
  /\ Waiting(r) /\ row[r].due
  /\ Route(r) \/ Refuse(r)
  /\ UNCHANGED <<revision, live, unlocked, member, missed, cast>>

(* The delay of a retry has passed.                                        *)
Elapse(r) ==
  /\ row[r].status = "retry" /\ ~row[r].due
  /\ row' = [row EXCEPT ![r].due = TRUE]
  /\ UNCHANGED <<revision, live, unlocked, member, told, faults, missed, cast>>

BridgeNext ==
  \/ \E s \in Records \cap cast.sources : Record(s)
  \/ \E s \in Incidents \cap cast.sources : Raise(s) \/ Settle(s)
  \/ \E m \in Matches \cap cast.sources :
       FindMatch(m) \/ StaleMatch(m) \/ Unlock(m)
  \/ \E u \in Users : Join(u) \/ Leave(u)
  \/ \E r \in References : Process(r) \/ Elapse(r)

(* The job runs every five minutes and takes the longest due rows first; a *)
(* row whose delay has passed stays due.                                   *)
BridgeFairness ==
  \A r \in References : WF_bridgeVars(Process(r)) /\ WF_bridgeVars(Elapse(r))

-----------------------------------------------------------------------------
(* Properties.                                                             *)

Fate(r) ==
  CASE row[r].status = "none" -> "none"
    [] Waiting(r) -> "open"
    [] row[r].status = "projected" -> "delivered"
    [] row[r].status = "dead" -> "abandoned"

Delivery == INSTANCE EventDelivery WITH
  Revivable <- Matches \X {1},
  fate <- [r \in References |-> Fate(r)]

(* The bridge keeps the contract of EventDelivery: whatever triggers,      *)
(* wakes, retries and the router do, an event is told once, to all at once *)
(* and to somebody, and what was delivered or given up is not taken up     *)
(* again, but for a match that is unlocked (nc23, nc22_route_notification). *)
BridgeDelivers == Delivery!Spec

(* No reference stays in the queue for good: it is delivered or given up,  *)
(* whatever happens to its source (nc23_process_source_bridge_batch).      *)
QueueSettles ==
  \A r \in References :
    Waiting(r) ~> row[r].status \in {"projected", "dead"}

(* Source and revision have happened and may be told.                      *)
Announceable(r) ==
  /\ revision[r[1]] >= r[2]
  /\ r[1] \in Matches => r[1] \in unlocked

(* An event that lasts is told in the end: from the moment it may be told  *)
(* it stays true, has a recipient, and neither its capture nor its wake    *)
(* failed.  For a match that moment is the later of notification and       *)
(* unlock, however often the router refused it before                      *)
(* (nc23_wake_unlocked_matches).                                           *)
LastingIsTold ==
  \A r \in References :
    [](Announceable(r) => Routable(r) /\ r \notin missed)
      => (Announceable(r) ~> Announced(r))
=============================================================================
