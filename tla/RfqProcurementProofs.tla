------------------------- MODULE RfqProcurementProofs -------------------------
(***************************************************************************)
(* Proofs about RfqProcurement, for any sets of users, suppliers, terms,   *)
(* deadlines and windows and any bounds.                                   *)
(***************************************************************************)
EXTENDS RfqProcurement, TLAPS

USE GateAssumptions, ProcurementAssumptions

-----------------------------------------------------------------------------
(* An element of a sequence may be replaced, and a function on the indices *)
(* of a sequence is one.                                                   *)
LEMMA SequenceExcept ==
  ASSUME NEW S, NEW q \in Seq(S), NEW i \in DOMAIN q, NEW e \in S
  PROVE  /\ [q EXCEPT ![i] = e] \in Seq(S)
         /\ Len([q EXCEPT ![i] = e]) = Len(q)
OBVIOUS

LEMMA SequenceAppend ==
  ASSUME NEW S, NEW q \in Seq(S), NEW e \in S
  PROVE  Append(q, e) \in Seq(S) /\ Len(Append(q, e)) = Len(q) + 1
OBVIOUS

LEMMA FunctionIsSequence ==
  ASSUME NEW S, NEW n \in Nat, NEW f \in [1 .. n -> S]
  PROVE  f \in Seq(S) /\ Len(f) = n
OBVIOUS

-----------------------------------------------------------------------------
(* What the operators of the approval gate return.                         *)
LEMMA RowEdits ==
  ASSUME NEW a \in Approvals(Payloads)
  PROVE  /\ \A status \in ApprovalStatus :
              [a EXCEPT !.status = status] \in Approvals(Payloads)
         /\ \A status \in ApprovalStatus, u \in Users :
              [a EXCEPT !.status = status, !.decider = u] \in Approvals(Payloads)
         /\ [a EXCEPT !.lapsed = TRUE] \in Approvals(Payloads)
BY DEF Approvals

LEMMA RowsTyped ==
  ASSUME GateTypeOK(Payloads)
  PROVE  /\ approvals \in Seq(Approvals(Payloads))
         /\ DOMAIN approvals = 1 .. Len(approvals)
         /\ \A i \in DOMAIN approvals : approvals[i] \in Approvals(Payloads)
BY DEF GateTypeOK

LEMMA SweptTyped ==
  ASSUME GateTypeOK(Payloads), NEW p
  PROVE  /\ Swept(p) \in Seq(Approvals(Payloads))
         /\ Len(Swept(p)) = Len(approvals)
<1>1. approvals \in Seq(Approvals(Payloads))
  BY RowsTyped
<1>2. \A i \in DOMAIN approvals :
         [approvals[i] EXCEPT !.status = "expired"] \in Approvals(Payloads)
  <2>1. "expired" \in ApprovalStatus BY DEF ApprovalStatus
  <2> QED BY <2>1, RowsTyped, RowEdits, Zenon
<1>3. Swept(p) \in [1 .. Len(approvals) -> Approvals(Payloads)]
  <2>1. DOMAIN approvals = 1 .. Len(approvals)
    BY RowsTyped
  <2>2. \A i \in DOMAIN approvals : approvals[i] \in Approvals(Payloads)
    BY RowsTyped
  <2>3. \A i \in DOMAIN approvals :
          Swept(p)[i] \in {approvals[i], [approvals[i] EXCEPT !.status = "expired"]}
    BY Zenon DEF Swept
  <2>4. Swept(p) = [i \in DOMAIN approvals |-> Swept(p)[i]]
    BY Zenon DEF Swept
  <2> QED BY <1>2, <2>1, <2>2, <2>3, <2>4
<1> QED
  BY <1>1, <1>3, FunctionIsSequence

LEMMA RequestTyped ==
  ASSUME GateTypeOK(Payloads), NEW u \in Users, NEW p \in Payloads,
         Request(u, p)
  PROVE  GateTypeOK(Payloads)'
<1> DEFINE new == [payload |-> p, status |-> "pending", by |-> u,
                   decider |-> NoPo, lapsed |-> FALSE]
<1>1. Swept(p) \in Seq(Approvals(Payloads))
  BY SweptTyped
<1>2. new \in Approvals(Payloads)
  BY DEF Approvals, ApprovalStatus
<1>3. approvals' = Swept(p) \/ approvals' = Append(Swept(p), new)
  BY DEF Request
<1>4. approvals' \in Seq(Approvals(Payloads))
  <2> HIDE DEF new
  <2> QED BY <1>1, <1>2, <1>3
<1> QED
  BY <1>4 DEF Request, GateTypeOK

LEMMA ConsumedTyped ==
  ASSUME GateTypeOK(Payloads), NEW i \in {0} \cup DOMAIN approvals
  PROVE  /\ Consumed(i) \in Seq(Approvals(Payloads))
         /\ Len(Consumed(i)) = Len(approvals)
<1>1. approvals \in Seq(Approvals(Payloads))
  BY DEF GateTypeOK
<1>2. CASE i = 0
  BY <1>1, <1>2 DEF Consumed
<1>3. CASE i # 0
  <2>1. [approvals[i] EXCEPT !.status = "consumed"] \in Approvals(Payloads)
    <3>1. "consumed" \in ApprovalStatus /\ i \in DOMAIN approvals
      BY <1>3 DEF ApprovalStatus
    <3> QED BY <3>1, RowsTyped, RowEdits, Zenon
  <2>2. Consumed(i) = [approvals EXCEPT ![i] =
                         [approvals[i] EXCEPT !.status = "consumed"]]
    BY <1>3, Zenon DEF Consumed
  <2> QED BY <1>1, <1>3, <2>1, <2>2, SequenceExcept
<1> QED BY <1>2, <1>3

LEMMA GateTyped ==
  ASSUME NEW p
  PROVE  Gate(p) \subseteq {0} \cup DOMAIN approvals
BY DEF Gate

LEMMA GovernTyped ==
  ASSUME GateTypeOK(Payloads), Govern
  PROVE  GateTypeOK(Payloads)'
<1>1. ASSUME NEW u \in Users, NEW policy \in [ActionType -> BOOLEAN],
             SetGovernance(u, policy)
      PROVE  GateTypeOK(Payloads)'
  BY <1>1 DEF SetGovernance, GateTypeOK
<1>2. ASSUME NEW u \in Users, NEW m \in Members, NEW role \in TeamRole,
             SetTeamMember(u, m, role)
      PROVE  GateTypeOK(Payloads)'
  BY <1>2 DEF SetTeamMember, GateTypeOK
<1>3. ASSUME NEW i \in DOMAIN approvals, Lapse(i)
      PROVE  GateTypeOK(Payloads)'
  <2>1. approvals \in Seq(Approvals(Payloads))
    BY DEF GateTypeOK
  <2>2. [approvals[i] EXCEPT !.lapsed = TRUE] \in Approvals(Payloads)
    BY RowsTyped, RowEdits, Zenon
  <2>3. approvals' = [approvals EXCEPT ![i] =
                        [approvals[i] EXCEPT !.lapsed = TRUE]]
    BY <1>3, Zenon DEF Lapse
  <2>4. approvals' \in Seq(Approvals(Payloads))
    BY <2>1, <2>2, <2>3, SequenceExcept
  <2> QED BY <1>3, <2>4 DEF Lapse, GateTypeOK
<1> QED
  BY <1>1, <1>2, <1>3 DEF Govern

LEMMA DecideTyped ==
  ASSUME GateTypeOK(Payloads), NEW u \in Users, NEW i \in DOMAIN approvals,
         NEW verdict \in {"approved", "rejected"}, Decide(u, i, verdict)
  PROVE  GateTypeOK(Payloads)'
<1> DEFINE row == [approvals[i] EXCEPT !.status = verdict, !.decider = u]
<1>1. approvals \in Seq(Approvals(Payloads))
  BY DEF GateTypeOK
<1>2. row \in Approvals(Payloads)
  <2>1. verdict \in ApprovalStatus BY DEF ApprovalStatus
  <2> QED BY <2>1, RowsTyped, RowEdits, Zenon
<1>3. approvals' = [approvals EXCEPT ![i] = row]
  BY Zenon DEF Decide
<1>4. approvals' \in Seq(Approvals(Payloads))
  <2> HIDE DEF row
  <2> QED BY <1>1, <1>2, <1>3, SequenceExcept
<1> QED
  BY <1>4 DEF Decide, GateTypeOK

LEMMA PayloadsTyped ==
  ASSUME TypeOK
  PROVE  /\ \A winners \in WinnerSets : AwardPayload(winners) \in Payloads
         /\ \A s \in Suppliers, due \in AnyDeadline :
              PoPayload(s, due) \in Payloads
BY DEF TypeOK, AwardPayload, PoPayload, Payloads, WinnerSets, AnyDeadline

-----------------------------------------------------------------------------
(* Type correctness.                                                       *)
LEMMA VersionsTyped ==
  ASSUME TypeOK, NEW s \in Suppliers
  PROVE  /\ versions[s] \in Seq(Versions)
         /\ DOMAIN versions[s] = 1 .. Len(versions[s])
         /\ \A v \in DOMAIN versions[s] : versions[s][v] \in Versions
BY DEF TypeOK

LEMMA SupersededTyped ==
  ASSUME TypeOK, NEW s \in Suppliers
  PROVE  /\ Superseded(s) \in Seq(Versions)
         /\ Len(Superseded(s)) = Len(versions[s])
<1>1. \A row \in Versions : [row EXCEPT !.status = "superseded"] \in Versions
  BY DEF Versions, VersionStatus
<1>2. \A v \in DOMAIN versions[s] :
        /\ versions[s][v] \in Versions
        /\ [versions[s][v] EXCEPT !.status = "superseded"] \in Versions
  BY <1>1, VersionsTyped, Zenon
<1>3. \A v \in DOMAIN versions[s] :
        Superseded(s)[v] \in
          {versions[s][v], [versions[s][v] EXCEPT !.status = "superseded"]}
  BY Zenon DEF Superseded
<1>4. Superseded(s) = [v \in DOMAIN versions[s] |-> Superseded(s)[v]]
  BY Zenon DEF Superseded
<1>5. Superseded(s) \in [1 .. Len(versions[s]) -> Versions]
  BY <1>2, <1>3, <1>4, VersionsTyped
<1>6. Len(versions[s]) \in Nat
  BY VersionsTyped
<1> QED BY <1>5, <1>6, FunctionIsSequence

LEMMA WithVersionTyped ==
  ASSUME TypeOK, NEW s \in Suppliers, NEW v \in DOMAIN versions[s],
         NEW row \in Versions
  PROVE  /\ WithVersion(s, v, row) \in [Suppliers -> Seq(Versions)]
         /\ \A r \in Suppliers : Len(WithVersion(s, v, row)[r]) = Len(versions[r])
<1>1. /\ [versions[s] EXCEPT ![v] = row] \in Seq(Versions)
      /\ Len([versions[s] EXCEPT ![v] = row]) = Len(versions[s])
  BY VersionsTyped, SequenceExcept
<1> DEFINE e == [versions[s] EXCEPT ![v] = row]
<1>2. versions \in [Suppliers -> Seq(Versions)]
  BY DEF TypeOK
<1>3. WithVersion(s, v, row) = [versions EXCEPT ![s] = e]
  BY Zenon DEF WithVersion
<1> HIDE DEF e
<1> QED BY <1>1, <1>2, <1>3 DEF e

LEMMA InitTyped == Init => TypeOK
BY DEF Init, TypeOK, GateInit, GateTypeOK, NoAward, Idle, WindowStates,
       AnyDeadline, Editable, ActionType, TeamRole

LEMMA QuotesTyped ==
  ASSUME TypeOK, NEW s \in Suppliers, NEW t \in Terms,
         ReviseQuote(s, t) \/ SubmitQuote(s)
  PROVE  TypeOK'
<1> DEFINE Quote == [no : 1 .. MaxRevisions, status : {"draft", "submitted"},
                     terms : Terms]
<1>1. quotes \in [Suppliers -> Quote] /\ quotes[s] \in Quote
  BY DEF TypeOK
<1>2. CASE ReviseQuote(s, t)
  <2>1. [no |-> quotes[s].no + 1, status |-> "draft", terms |-> t] \in Quote
    BY <1>1, <1>2 DEF ReviseQuote
  <2>2. quotes' \in [Suppliers -> Quote]
    BY <1>1, <1>2, <2>1 DEF ReviseQuote
  <2> QED BY <1>2, <2>2 DEF TypeOK, ReviseQuote, gateVars, GateTypeOK
<1>3. CASE SubmitQuote(s)
  <2>1. [quotes[s] EXCEPT !.status = "submitted"] \in Quote
    BY <1>1
  <2>2. quotes' \in [Suppliers -> Quote]
    BY <1>1, <1>3, <2>1, Zenon DEF SubmitQuote
  <2> QED BY <1>3, <2>2 DEF TypeOK, SubmitQuote, gateVars, GateTypeOK
<1> QED BY <1>2, <1>3

LEMMA ApprovalsTyped ==
  ASSUME TypeOK, Govern \/ RequestAward \/ RequestIssue \/ DecideApproval
  PROVE  TypeOK'
<1>1. GateTypeOK(Payloads)
  BY DEF TypeOK
<1>2. CASE Govern
  <2>1. GateTypeOK(Payloads)'
    BY <1>1, <1>2, GovernTyped
  <2> QED BY <1>2, <2>1 DEF TypeOK, Govern, unlessGate
<1>3. CASE RequestAward
  <2>1. GateTypeOK(Payloads)'
    BY <1>1, <1>3, RequestTyped, PayloadsTyped DEF RequestAward
  <2> QED BY <1>3, <2>1 DEF TypeOK, RequestAward, unlessGate
<1>4. CASE RequestIssue
  <2>1. GateTypeOK(Payloads)'
    BY <1>1, <1>4, RequestTyped, PayloadsTyped DEF RequestIssue
  <2> QED BY <1>4, <2>1 DEF TypeOK, RequestIssue, unlessGate
<1>5. CASE DecideApproval
  <2> PICK u \in Users, i \in DOMAIN approvals,
           verdict \in {"approved", "rejected"} :
         /\ Decide(u, i, verdict)
         /\ seen' = IF verdict = "approved"
                       /\ approvals[i].payload.action = "award"
                    THEN Append(seen, [approval |-> i, quotes |->
                                 [s \in Suppliers |-> quotes[s].no]])
                    ELSE seen
    BY <1>5 DEF DecideApproval
  <2>1. GateTypeOK(Payloads)'
    BY <1>1, DecideTyped
  <2>2. [s \in Suppliers |-> quotes[s].no] \in [Suppliers -> Nat]
    BY DEF TypeOK
  <2>3. i \in Nat
    BY <1>1, RowsTyped
  <2> DEFINE e == [approval |-> i, quotes |-> [s \in Suppliers |-> quotes[s].no]]
  <2>4. e \in [approval : Nat, quotes : [Suppliers -> Nat]]
    BY <2>2, <2>3
  <2>5. seen' = Append(seen, e) \/ seen' = seen
    OBVIOUS
  <2>6. seen' \in Seq([approval : Nat, quotes : [Suppliers -> Nat]])
    <3>1. seen \in Seq([approval : Nat, quotes : [Suppliers -> Nat]])
      BY DEF TypeOK
    <3> HIDE DEF e
    <3> QED BY <2>4, <2>5, <3>1, SequenceAppend, Zenon
  <2> QED BY <1>5, <2>1, <2>6 DEF TypeOK, DecideApproval, unlessGate
<1> QED BY <1>2, <1>3, <1>4, <1>5

LEMMA AwardTyped ==
  ASSUME TypeOK, NEW winners \in WinnerSets, ConfirmAward(winners)
  PROVE  TypeOK'
<1>1. PICK i \in Gate(AwardPayload(winners)) :
        /\ award' = [winners |-> winners,
                     quotes |-> [s \in Suppliers |->
                                   IF s \in winners THEN quotes[s].no ELSE 0],
                     gated |-> required["award"],
                     review |-> i]
        /\ approvals' = Consumed(i)
  BY DEF ConfirmAward
<1>2. i \in {0} \cup DOMAIN approvals
  BY GateTyped
<1>3. GateTypeOK(Payloads)
  BY DEF TypeOK
<1>4. approvals' \in Seq(Approvals(Payloads))
  BY <1>1, <1>2, <1>3, ConsumedTyped
<1>5. award' \in [winners : SUBSET Suppliers, quotes : [Suppliers -> Nat],
                 gated : BOOLEAN, review : Nat]
  <2>1. i \in Nat
    BY <1>2, <1>3, RowsTyped
  <2>2. [s \in Suppliers |-> IF s \in winners THEN quotes[s].no ELSE 0]
          \in [Suppliers -> Nat]
    BY DEF TypeOK
  <2>3. required["award"] \in BOOLEAN
    BY <1>3 DEF GateTypeOK, ActionType
  <2> QED BY <1>1, <2>1, <2>2, <2>3 DEF WinnerSets
<1>6. drafts' \in [Suppliers ->
        [status : Editable \cup {"none", "issued", "supplier_confirmed"},
         terms : Terms]]
  BY DEF ConfirmAward, TypeOK, Editable
<1> QED
  BY <1>4, <1>5, <1>6 DEF ConfirmAward, TypeOK, GateTypeOK

LEMMA OrdersTyped ==
  ASSUME TypeOK,
         \/ \E s \in Suppliers, t \in Terms : UpdateTerms(s, t)
         \/ \E d \in Deadlines : PassDeadline(d)
         \/ \E w \in Windows, s \in Suppliers, due \in AnyDeadline :
              ReadState(w, s, due)
         \/ \E w \in Windows : Stop(w)
  PROVE  TypeOK'
<1>1. ASSUME NEW s \in Suppliers, NEW t \in Terms, UpdateTerms(s, t)
      PROVE  TypeOK'
  BY <1>1 DEF UpdateTerms, TypeOK, gateVars, GateTypeOK, Editable
<1>2. ASSUME NEW d \in Deadlines, PassDeadline(d)
      PROVE  TypeOK'
  BY <1>2 DEF PassDeadline, TypeOK, gateVars, GateTypeOK
<1>3. ASSUME NEW w \in Windows, NEW s \in Suppliers, NEW due \in AnyDeadline,
             ReadState(w, s, due)
      PROVE  TypeOK'
  <2>1. Len(versions[s]) + 1 \in Nat
    BY VersionsTyped
  <2>2. window' \in [Windows -> WindowStates]
    BY <1>3, <2>1 DEF ReadState, TypeOK, WindowStates
  <2> QED BY <1>3, <2>2 DEF ReadState, TypeOK, gateVars, GateTypeOK
<1>4. ASSUME NEW w \in Windows, Stop(w)
      PROVE  TypeOK'
  <2>1. Idle \in WindowStates
    BY DEF Idle, WindowStates, AnyDeadline
  <2>2. window' \in [Windows -> WindowStates]
    BY <1>4, <2>1 DEF Stop, TypeOK
  <2> QED BY <1>4, <2>2 DEF Stop, TypeOK, gateVars, GateTypeOK
<1> QED BY <1>1, <1>2, <1>3, <1>4

(* The strengthening of TypeOK: a window at work has an order, and past    *)
(* the issue it has a version of that order.                               *)
WindowsHaveOrders ==
  \A w \in Windows :
    /\ window[w].step # "idle" => window[w].po \in Suppliers
    /\ window[w].step \in {"send", "mark"}
         => window[w].next \in DOMAIN versions[window[w].po]
    /\ window[w].step = "mark" => window[w].result # "none"

LEMMA IssueTyped ==
  ASSUME TypeOK, WindowsHaveOrders, NEW w \in Windows, PrepareIssue(w)
  PROVE  TypeOK'
<1> DEFINE s == window[w].po
           due == window[w].due
<1>0. s \in Suppliers
  BY DEF PrepareIssue, WindowsHaveOrders
<1>1. PICK i \in Gate(PoPayload(s, due)) :
        /\ versions' = [versions EXCEPT ![s] =
                          Append(Superseded(s), NewVersion(w, i))]
        /\ approvals' = Consumed(i)
  BY DEF PrepareIssue
<1>2. i \in {0} \cup DOMAIN approvals
  BY GateTyped
<1>3. GateTypeOK(Payloads) /\ window[w] \in WindowStates
  BY DEF TypeOK
<1>4. approvals' \in Seq(Approvals(Payloads))
  BY <1>1, <1>2, <1>3, ConsumedTyped
<1>5. NewVersion(w, i) \in Versions
  <2>1. i \in Nat
    BY <1>2, <1>3, RowsTyped
  <2>2. required["po_issue"] \in BOOLEAN /\ drafts[s].terms \in Terms
    BY <1>0, <1>3 DEF GateTypeOK, ActionType, TypeOK
  <2> QED BY <1>3, <2>1, <2>2 DEF NewVersion, Versions, VersionStatus, WindowStates
<1>6. versions' \in [Suppliers -> Seq(Versions)]
  <2>1. Append(Superseded(s), NewVersion(w, i)) \in Seq(Versions)
    BY <1>0, <1>5, SupersededTyped, SequenceAppend
  <2> QED BY <1>1, <2>1, Zenon DEF TypeOK
<1>7. window' \in [Windows -> WindowStates]
  <2>1. Idle \in WindowStates
    BY DEF Idle, WindowStates, AnyDeadline
  <2>2. [window[w] EXCEPT !.step = "send"] \in WindowStates
    BY <1>3 DEF WindowStates
  <2>3. PICK e \in WindowStates : window' = [window EXCEPT ![w] = e]
    BY <2>1, <2>2, Zenon DEF PrepareIssue
  <2> QED BY <2>3 DEF TypeOK
<1>8. drafts' \in [Suppliers ->
        [status : Editable \cup {"none", "issued", "supplier_confirmed"},
         terms : Terms]]
  BY <1>0 DEF PrepareIssue, TypeOK
<1> QED
  BY <1>4, <1>6, <1>7, <1>8 DEF PrepareIssue, TypeOK, GateTypeOK

LEMMA MailTyped ==
  ASSUME TypeOK, WindowsHaveOrders, NEW w \in Windows,
         SendOrder(w) \/ MarkDelivery(w)
  PROVE  TypeOK'
<1>1. window[w] \in WindowStates
  BY DEF TypeOK
<1>2. window[w].po \in Suppliers
  BY DEF SendOrder, MarkDelivery, WindowsHaveOrders
<1>3. CASE SendOrder(w)
  <2>1. \A result \in {"sent", "failed", "skipped"}, win \in WindowStates :
          Sent(win, result) \in WindowStates
    BY DEF Sent, WindowStates
  <2>2. \E result \in Results : window' = [window EXCEPT ![w] = Sent(window[w], result)]
    BY <1>3 DEF SendOrder
  <2>3. window' \in [Windows -> WindowStates]
    <3> PICK result \in Results :
               window' = [window EXCEPT ![w] = Sent(window[w], result)]
      BY <2>2
    <3>1. result \in {"sent", "failed", "skipped"}
      BY DEF ProcurementAssumptions
    <3>2. Sent(window[w], result) \in WindowStates
      BY <1>1, <2>1, <3>1, Zenon
    <3>3. window \in [Windows -> WindowStates]
      BY DEF TypeOK
    <3> QED BY <3>2, <3>3
  <2>4. links' \subseteq Suppliers \X Nat
    BY <1>1, <1>2, <1>3 DEF SendOrder, TypeOK, WindowStates
  <2> QED BY <1>3, <2>3, <2>4 DEF SendOrder, TypeOK, gateVars, GateTypeOK
<1>4. CASE MarkDelivery(w)
  <2> DEFINE s == window[w].po
             v == window[w].next
             row == [versions[s][v] EXCEPT !.delivery = window[w].result]
  <2>1. v \in DOMAIN versions[s] /\ v \in Nat /\ versions[s][v] \in Versions
    BY <1>1, <1>2, <1>4, VersionsTyped
    DEF MarkDelivery, WindowsHaveOrders, WindowStates
  <2>2. row \in Versions
    <3>1. window[w].result \in {"sent", "failed", "skipped"}
      BY <1>1, <1>4 DEF MarkDelivery, WindowsHaveOrders, WindowStates
    <3>2. \A a \in Versions, d \in {"sent", "failed", "skipped"} :
            [a EXCEPT !.delivery = d] \in Versions
      BY DEF Versions
    <3> QED BY <2>1, <3>1, <3>2, Zenon
  <2>3. versions' \in [Suppliers -> Seq(Versions)]
    <3>1. versions' = versions \/ versions' = WithVersion(s, v, row)
      BY <1>4 DEF MarkDelivery
    <3>2. versions \in [Suppliers -> Seq(Versions)] /\ s \in Suppliers
      BY <1>2 DEF TypeOK
    <3> HIDE DEF s, v, row
    <3>3. WithVersion(s, v, row) \in [Suppliers -> Seq(Versions)]
      BY <2>1, <2>2, <3>2, WithVersionTyped, Zenon
    <3> QED BY <3>1, <3>2, <3>3, Zenon
  <2>4. Idle \in WindowStates
    BY DEF Idle, WindowStates, AnyDeadline
  <2>5. window' \in [Windows -> WindowStates]
    BY <1>4, <2>4 DEF MarkDelivery, TypeOK
  <2>6. links' \subseteq Suppliers \X Nat
    BY <1>2, <1>4, <2>1 DEF MarkDelivery, TypeOK
  <2> QED
    BY <1>4, <2>3, <2>5, <2>6 DEF MarkDelivery, TypeOK, gateVars, GateTypeOK
<1> QED BY <1>3, <1>4

LEMMA AnswerTyped ==
  ASSUME TypeOK, NEW s \in Suppliers, NEW v \in DOMAIN versions[s],
         NEW decision \in Decisions, NEW date \in Terms \cup {NoPo},
         SupplierDecide(s, v, decision, date)
  PROVE  TypeOK'
<1>1. versions[s][v] \in Versions
  BY VersionsTyped
<1>2. [versions[s][v] EXCEPT !.status = decision] \in Versions
  BY <1>1 DEF Versions, VersionStatus, Decisions
<1>3. versions' \in [Suppliers -> Seq(Versions)]
  BY <1>2, WithVersionTyped DEF SupplierDecide
<1> DEFINE terms == IF decision # "supplier_confirmed" THEN drafts[s].terms
                    ELSE IF date = NoPo THEN versions[s][v].terms
                    ELSE date
<1>4. terms \in Terms
  BY <1>1 DEF TypeOK, Versions
<1>5. drafts' = [drafts EXCEPT ![s] = [status |-> decision, terms |-> terms]]
  BY DEF SupplierDecide
<1>6. drafts' \in [Suppliers ->
        [status : Editable \cup {"none", "issued", "supplier_confirmed"},
         terms : Terms]]
  <2> HIDE DEF terms
  <2> QED BY <1>4, <1>5 DEF TypeOK, Editable, Decisions
<1> QED
  BY <1>3, <1>6 DEF SupplierDecide, TypeOK, gateVars, GateTypeOK

LEMMA NextTyped ==
  ASSUME TypeOK, WindowsHaveOrders, [Next]_vars
  PROVE  TypeOK'
<1>1. CASE UNCHANGED vars
  BY <1>1 DEF vars, gateVars, TypeOK, GateTypeOK
<1>2. CASE Next
  <2>1. CASE Govern \/ RequestAward \/ RequestIssue \/ DecideApproval
    BY <2>1, ApprovalsTyped
  <2>2. CASE \E winners \in WinnerSets : ConfirmAward(winners)
    BY <2>2, AwardTyped
  <2>3. CASE \/ \E s \in Suppliers, t \in Terms : ReviseQuote(s, t) \/ UpdateTerms(s, t)
             \/ \E s \in Suppliers : SubmitQuote(s)
    <3>1. CASE \E s \in Suppliers, t \in Terms : ReviseQuote(s, t)
      BY <3>1, QuotesTyped
    <3>2. CASE \E s \in Suppliers, t \in Terms : UpdateTerms(s, t)
      BY <3>2, OrdersTyped
    <3>3. ASSUME NEW s \in Suppliers, SubmitQuote(s) PROVE TypeOK'
      <4>1. quotes[s].terms \in Terms
        BY DEF TypeOK
      <4> QED BY <3>3, <4>1, QuotesTyped
    <3> QED BY <2>3, <3>1, <3>2, <3>3
  <2>4. CASE \/ \E d \in Deadlines : PassDeadline(d)
             \/ \E w \in Windows, s \in Suppliers, due \in AnyDeadline :
                  ReadState(w, s, due)
             \/ \E w \in Windows : Stop(w)
    BY <2>4, OrdersTyped
  <2>5. CASE \E w \in Windows : PrepareIssue(w)
    BY <2>5, IssueTyped
  <2>6. CASE \E w \in Windows : SendOrder(w) \/ MarkDelivery(w)
    BY <2>6, MailTyped
  <2>7. CASE \E s \in Suppliers : \E v \in DOMAIN versions[s] :
               \E decision \in Decisions, date \in Terms \cup {NoPo} :
                 SupplierDecide(s, v, decision, date)
    BY <2>7, AnswerTyped
  <2> QED
    BY <1>2, <2>1, <2>2, <2>3, <2>4, <2>5, <2>6, <2>7, Zenon DEF Next
<1> QED BY <1>1, <1>2

(* No version is ever withdrawn, and only a window's own steps change it.  *)
LEMMA VersionsStay ==
  ASSUME TypeOK, WindowsHaveOrders, [Next]_vars, NEW s \in Suppliers
  PROVE  DOMAIN versions[s] \subseteq DOMAIN versions'[s]
<1>1. CASE UNCHANGED versions
  BY <1>1
<1>2. ASSUME NEW w \in Windows, PrepareIssue(w)
      PROVE  DOMAIN versions[s] \subseteq DOMAIN versions'[s]
  <2>1. PICK e : versions' = [versions EXCEPT ![window[w].po] =
                                Append(Superseded(window[w].po), e)]
    BY <1>2 DEF PrepareIssue
  <2>2. window[w].po \in Suppliers
    BY <1>2 DEF PrepareIssue, WindowsHaveOrders
  <2>3. Superseded(window[w].po) \in Seq(Versions)
    BY <2>2, SupersededTyped
  <2>4. DOMAIN versions[s] = 1 .. Len(versions[s]) /\ Len(versions[s]) \in Nat
    BY VersionsTyped
  <2>5. CASE s = window[w].po
    <3>1. versions'[s] = Append(Superseded(s), e)
      BY <2>1, <2>5 DEF TypeOK
    <3>2. Len(Superseded(s)) = Len(versions[s])
      BY SupersededTyped
    <3>3. DOMAIN Append(Superseded(s), e) = 1 .. Len(Superseded(s)) + 1
      BY <2>3, <2>5
    <3> QED BY <2>4, <3>1, <3>2, <3>3
  <2>6. CASE s # window[w].po
    BY <2>1, <2>6 DEF TypeOK
  <2> QED BY <2>5, <2>6
<1>3. ASSUME NEW r \in Suppliers, NEW v \in DOMAIN versions[r], NEW row,
             versions' = WithVersion(r, v, row)
      PROVE  DOMAIN versions[s] \subseteq DOMAIN versions'[s]
  <2>1. CASE s = r
    BY <1>3, <2>1 DEF WithVersion, TypeOK
  <2>2. CASE s # r
    BY <1>3, <2>2 DEF WithVersion, TypeOK
  <2> QED BY <2>1, <2>2
<1>4. ASSUME NEW w \in Windows, MarkDelivery(w)
      PROVE  DOMAIN versions[s] \subseteq DOMAIN versions'[s]
  <2>1. /\ window[w].po \in Suppliers
        /\ window[w].next \in DOMAIN versions[window[w].po]
    BY <1>4 DEF MarkDelivery, WindowsHaveOrders
  <2> QED BY <1>1, <1>3, <1>4, <2>1 DEF MarkDelivery
<1>5. ASSUME NEW r \in Suppliers, NEW v \in DOMAIN versions[r],
             NEW decision, NEW date, SupplierDecide(r, v, decision, date)
      PROVE  DOMAIN versions[s] \subseteq DOMAIN versions'[s]
  BY <1>3, <1>5 DEF SupplierDecide
<1> QED
  BY <1>1, <1>2, <1>4, <1>5
  DEF Next, vars, Govern, unlessGate, RequestAward, RequestIssue, DecideApproval,
      ConfirmAward, ReviseQuote, UpdateTerms, SubmitQuote, PassDeadline,
      ReadState, SendOrder, Stop

(* An issue adds the version of the next number.                           *)
LEMMA IssueAddsVersion ==
  ASSUME TypeOK, WindowsHaveOrders, NEW w \in Windows, PrepareIssue(w)
  PROVE  /\ window[w].po \in Suppliers
         /\ Len(versions[window[w].po]) + 1 \in DOMAIN versions'[window[w].po]
<1> DEFINE s == window[w].po
<1>1. s \in Suppliers
  BY DEF PrepareIssue, WindowsHaveOrders
<1>2. PICK e : versions' = [versions EXCEPT ![s] = Append(Superseded(s), e)]
  BY DEF PrepareIssue
<1>3. versions'[s] = Append(Superseded(s), e)
  BY <1>1, <1>2 DEF TypeOK
<1>4. /\ Superseded(s) \in Seq(Versions) /\ Len(Superseded(s)) = Len(versions[s])
      /\ Len(versions[s]) \in Nat
  BY <1>1, SupersededTyped, VersionsTyped
<1>5. DOMAIN Append(Superseded(s), e) = 1 .. Len(Superseded(s)) + 1
  BY <1>4
<1> QED BY <1>1, <1>3, <1>4, <1>5

LEMMA WindowsKeepOrders ==
  ASSUME TypeOK, WindowsHaveOrders, [Next]_vars
  PROVE  WindowsHaveOrders'
<1> DEFINE Fits(x) ==
      /\ window'[x].step # "idle" => window'[x].po \in Suppliers
      /\ window'[x].step \in {"send", "mark"}
           => window'[x].next \in DOMAIN versions'[window'[x].po]
      /\ window'[x].step = "mark" => window'[x].result # "none"
<1> SUFFICES ASSUME NEW x \in Windows PROVE Fits(x)
  BY DEF WindowsHaveOrders
<1>1. CASE window'[x] = window[x]
  BY <1>1, VersionsStay DEF WindowsHaveOrders
<1>2. CASE window'[x] = Idle
  BY <1>2 DEF Idle
<1>3. ASSUME NEW s \in Suppliers, NEW due \in AnyDeadline, ReadState(x, s, due)
      PROVE  Fits(x)
  BY <1>3 DEF ReadState, TypeOK
<1>4. CASE PrepareIssue(x)
  <2>1. window'[x] = Idle \/
        /\ window'[x] = [window[x] EXCEPT !.step = "send"]
        /\ window[x].next = Len(versions[window[x].po]) + 1
    BY <1>4 DEF PrepareIssue, TypeOK
  <2>2. window[x] \in WindowStates
    BY DEF TypeOK
  <2>3. ASSUME window'[x] = [window[x] EXCEPT !.step = "send"]
        PROVE  /\ window'[x].step = "send"
               /\ window'[x].po = window[x].po
               /\ window'[x].next = window[x].next
    BY <2>2, <2>3 DEF WindowStates
  <2> QED BY <1>2, <1>4, <2>1, <2>3, IssueAddsVersion
<1>5. CASE SendOrder(x)
  <2>1. \E result \in Results : window' = [window EXCEPT ![x] = Sent(window[x], result)]
    BY <1>5 DEF SendOrder
  <2>2. PICK result \in Results : window'[x] = Sent(window[x], result)
    BY <2>1 DEF TypeOK
  <2>3. window[x] \in WindowStates /\ result # "none"
    BY DEF TypeOK, ProcurementAssumptions
  <2>4. /\ window'[x].step = "mark" /\ window'[x].result = result
        /\ window'[x].po = window[x].po
        /\ window'[x].next = window[x].next
    BY <2>2, <2>3 DEF Sent, WindowStates
  <2> QED BY <1>5, <2>3, <2>4, VersionsStay DEF SendOrder, WindowsHaveOrders
<1>6. ASSUME NEW w \in Windows, MarkDelivery(w) \/ Stop(w) PROVE Fits(x)
  <2>1. window'[x] = window[x] \/ window'[x] = Idle
    BY <1>6 DEF MarkDelivery, Stop, TypeOK
  <2> QED BY <1>1, <1>2, <2>1
<1>7. ASSUME NEW w \in Windows, w # x, NEW s, NEW due,
             PrepareIssue(w) \/ SendOrder(w) \/ ReadState(w, s, due)
      PROVE  Fits(x)
  <2>1. window'[x] = window[x]
    BY <1>7 DEF PrepareIssue, SendOrder, ReadState, TypeOK
  <2> QED BY <1>1, <2>1
<1>8. CASE UNCHANGED window
  BY <1>1, <1>8
<1> QED
  BY <1>3, <1>4, <1>5, <1>6, <1>7, <1>8
  DEF Next, vars, Govern, unlessGate, RequestAward, RequestIssue, DecideApproval,
      ConfirmAward, ReviseQuote, UpdateTerms, SubmitQuote, PassDeadline,
      SupplierDecide

(* Every reachable state of the procurement is well-typed: statuses are    *)
(* those the tables' constraints allow, and every reference resolves.      *)
THEOREM ProcurementTypeCorrect == Spec => [](TypeOK /\ WindowsHaveOrders)
<1>1. Init => TypeOK /\ WindowsHaveOrders
  <2>1. Init => WindowsHaveOrders
    BY DEF Init, WindowsHaveOrders, Idle
  <2> QED BY <2>1, InitTyped
<1>2. TypeOK /\ WindowsHaveOrders /\ [Next]_vars => (TypeOK /\ WindowsHaveOrders)'
  BY NextTyped, WindowsKeepOrders
<1> QED BY <1>1, <1>2, PTL DEF Spec
=============================================================================
