--------------------------- MODULE RfqReviewProofs ---------------------------
(***************************************************************************)
(* Every commitment made under a policy was reviewed, and no approval is   *)
(* spent twice or for nothing: CommitmentsWereReviewed and                 *)
(* ApprovalsAreSpentOnce hold for any users, payloads, windows and number  *)
(* of approvals and versions.  Both rest on two facts that no step         *)
(* disturbs: a consumed approval never changes again, and an issued        *)
(* version keeps what was issued.  An award buys the quotes its approver   *)
(* was shown as long as nobody revises them in between.                    *)
(***************************************************************************)
EXTENDS RfqProcurementProofs

(* The strengthening: what was approved was approved by another.           *)
ApproversAreOthers ==
  \A i \in DOMAIN approvals :
    approvals[i].status \in {"approved", "consumed"}
      => approvals[i].decider \in Users \ {approvals[i].by}
ReviewInv ==
  /\ TypeOK /\ WindowsHaveOrders
  /\ ApproversAreOthers
  /\ CommitmentsWereReviewed

-----------------------------------------------------------------------------
(* What may happen to the approvals in one step.                           *)
Kept(a, b) == b.payload = a.payload /\ b.by = a.by
RowMoves(a, b) ==
  /\ Kept(a, b)
  /\ a.status = "consumed" => b = a
  /\ b.status \in {"approved", "consumed"} => b.decider \in Users \ {b.by}

LEMMA RequestMoves ==
  ASSUME ReviewInv, NEW u \in Users, NEW p \in Payloads, Request(u, p),
         NEW i \in DOMAIN approvals
  PROVE  i \in DOMAIN approvals' /\ RowMoves(approvals[i], approvals'[i])
<1> DEFINE new == [payload |-> p, status |-> "pending", by |-> u,
                   decider |-> NoPo, lapsed |-> FALSE]
<1>1. GateTypeOK(Payloads) /\ ApproversAreOthers
  BY DEF ReviewInv, TypeOK
<1>2. approvals' = Swept(p) \/ approvals' = Append(Swept(p), new)
  BY DEF Request
<1>3. /\ Swept(p) \in Seq(Approvals(Payloads))
      /\ Len(Swept(p)) = Len(approvals)
      /\ i \in 1 .. Len(approvals) /\ Len(approvals) \in Nat
      /\ approvals[i] \in Approvals(Payloads)
  BY <1>1, SweptTyped, RowsTyped
<1>4. i \in DOMAIN approvals' /\ approvals'[i] = Swept(p)[i]
  <2> HIDE DEF new
  <2> QED BY <1>2, <1>3
<1>5. Swept(p)[i] = approvals[i] \/
        /\ Swept(p)[i] = [approvals[i] EXCEPT !.status = "expired"]
        /\ Live(approvals[i])
  BY Zenon DEF Swept
<1>6. RowMoves(approvals[i], approvals[i])
  BY <1>1 DEF RowMoves, Kept, ApproversAreOthers
<1>7. \A a \in Approvals(Payloads) :
        Live(a) => RowMoves(a, [a EXCEPT !.status = "expired"])
  BY DEF Approvals, RowMoves, Kept, Live
<1> QED BY <1>3, <1>4, <1>5, <1>6, <1>7, Zenon

LEMMA GovernMoves ==
  ASSUME ReviewInv, Govern, NEW i \in DOMAIN approvals
  PROVE  i \in DOMAIN approvals' /\ RowMoves(approvals[i], approvals'[i])
<1>1. GateTypeOK(Payloads) /\ ApproversAreOthers
  BY DEF ReviewInv, TypeOK
<1>2. RowMoves(approvals[i], approvals[i])
  BY <1>1 DEF RowMoves, Kept, ApproversAreOthers
<1>3. CASE UNCHANGED approvals
  BY <1>2, <1>3
<1>4. ASSUME NEW j \in DOMAIN approvals, Lapse(j)
      PROVE  i \in DOMAIN approvals' /\ RowMoves(approvals[i], approvals'[i])
  <2>1. approvals' = [approvals EXCEPT ![j] =
                        [approvals[j] EXCEPT !.lapsed = TRUE]]
        /\ Live(approvals[j])
    BY <1>4, Zenon DEF Lapse
  <2>2. \A a \in Approvals(Payloads) :
          Live(a) /\ RowMoves(a, a) => RowMoves(a, [a EXCEPT !.lapsed = TRUE])
    BY DEF Approvals, RowMoves, Kept, Live
  <2>3. CASE i = j
    <3>1. approvals'[i] = [approvals[i] EXCEPT !.lapsed = TRUE]
      BY <2>1, <2>3, Zenon
    <3>2. i \in DOMAIN approvals'
      BY <2>1, Zenon
    <3> QED BY <1>1, <1>2, <2>1, <2>2, <2>3, <3>1, <3>2, RowsTyped, Zenon
  <2>4. CASE i # j
    <3>1. i \in DOMAIN approvals' /\ approvals'[i] = approvals[i]
      BY <2>1, <2>4, Zenon
    <3> QED BY <1>2, <3>1
  <2> QED BY <2>3, <2>4
<1> QED
  BY <1>3, <1>4 DEF Govern, SetGovernance, SetTeamMember

LEMMA DecideMoves ==
  ASSUME ReviewInv, NEW u \in Users, NEW j \in DOMAIN approvals,
         NEW verdict \in {"approved", "rejected"}, Decide(u, j, verdict),
         NEW i \in DOMAIN approvals
  PROVE  i \in DOMAIN approvals' /\ RowMoves(approvals[i], approvals'[i])
<1>1. GateTypeOK(Payloads) /\ ApproversAreOthers
  BY DEF ReviewInv, TypeOK
<1>2. RowMoves(approvals[i], approvals[i])
  BY <1>1 DEF RowMoves, Kept, ApproversAreOthers
<1>3. /\ approvals' = [approvals EXCEPT ![j] =
                 [approvals[j] EXCEPT !.status = verdict, !.decider = u]]
      /\ approvals[j].status = "pending" /\ approvals[j].by # u
  BY Zenon DEF Decide
<1>4. \A a \in Approvals(Payloads) :
        a.status = "pending" /\ a.by # u
          => RowMoves(a, [a EXCEPT !.status = verdict, !.decider = u])
  BY DEF Approvals, RowMoves, Kept
<1>5. CASE i = j
  <2>1. i \in DOMAIN approvals' /\ approvals'[i] =
          [approvals[i] EXCEPT !.status = verdict, !.decider = u]
    BY <1>3, <1>5, Zenon
  <2> QED BY <1>1, <1>3, <1>4, <1>5, <2>1, RowsTyped, Zenon
<1>6. CASE i # j
  <2>1. i \in DOMAIN approvals' /\ approvals'[i] = approvals[i]
    BY <1>3, <1>6, Zenon
  <2> QED BY <1>2, <2>1
<1> QED BY <1>5, <1>6

(* A commit changes the approval it consumes, and nothing else.            *)
LEMMA CommitMoves ==
  ASSUME ReviewInv, NEW p \in Payloads, NEW k \in Gate(p),
         approvals' = Consumed(k)
  PROVE  /\ \A i \in DOMAIN approvals :
              i \in DOMAIN approvals' /\ RowMoves(approvals[i], approvals'[i])
         /\ required[p.action] => ReviewedAs(k, p)'
<1>1. GateTypeOK(Payloads) /\ ApproversAreOthers
  BY DEF ReviewInv, TypeOK
<1>2. \A i \in DOMAIN approvals : RowMoves(approvals[i], approvals[i])
  BY <1>1 DEF RowMoves, Kept, ApproversAreOthers
<1>3. 0 \notin DOMAIN approvals
  BY <1>1, RowsTyped
<1>4. CASE ~ required[p.action]
  <2>1. approvals' = approvals
    BY <1>4 DEF Gate, Consumed
  <2> QED BY <1>2, <1>4, <2>1
<1>5. CASE required[p.action]
  <2>1. k \in DOMAIN approvals /\ Usable(k, p)
    BY <1>5 DEF Gate
  <2>2. approvals' = [approvals EXCEPT ![k] =
                        [approvals[k] EXCEPT !.status = "consumed"]]
    BY <1>3, <2>1, Zenon DEF Consumed
  <2>3. \A a \in Approvals(Payloads) :
          a.status = "approved" /\ RowMoves(a, a)
            => /\ RowMoves(a, [a EXCEPT !.status = "consumed"])
               /\ [a EXCEPT !.status = "consumed"].status = "consumed"
    BY DEF Approvals, RowMoves, Kept
  <2>4. /\ k \in DOMAIN approvals'
        /\ approvals'[k] = [approvals[k] EXCEPT !.status = "consumed"]
        /\ \A i \in DOMAIN approvals : i # k =>
             i \in DOMAIN approvals' /\ approvals'[i] = approvals[i]
    BY <2>1, <2>2, Zenon
  <2>5. /\ RowMoves(approvals[k], approvals'[k])
        /\ approvals'[k].status = "consumed"
    BY <1>1, <1>2, <2>1, <2>3, <2>4, RowsTyped, Zenon DEF Usable
  <2>6. ReviewedAs(k, p)'
    BY <2>1, <2>4, <2>5 DEF ReviewedAs, RowMoves, Kept, Usable
  <2> QED BY <1>2, <2>4, <2>5, <2>6
<1> QED BY <1>4, <1>5

(* Every step moves every approval as above.                               *)
LEMMA ApprovalsMove ==
  ASSUME ReviewInv, [Next]_vars, NEW i \in DOMAIN approvals
  PROVE  i \in DOMAIN approvals' /\ RowMoves(approvals[i], approvals'[i])
<1>1. TypeOK /\ WindowsHaveOrders /\ GateTypeOK(Payloads) /\ ApproversAreOthers
  BY DEF ReviewInv, TypeOK
<1>2. CASE UNCHANGED approvals
  BY <1>1, <1>2 DEF RowMoves, Kept, ApproversAreOthers
<1>3. CASE Govern
  BY <1>3, GovernMoves
<1>4. CASE RequestAward
  BY <1>1, <1>4, RequestMoves, PayloadsTyped DEF RequestAward
<1>5. CASE RequestIssue
  BY <1>1, <1>5, RequestMoves, PayloadsTyped DEF RequestIssue
<1>6. CASE DecideApproval
  BY <1>6, DecideMoves DEF DecideApproval
<1>7. ASSUME NEW winners \in WinnerSets, ConfirmAward(winners)
      PROVE  i \in DOMAIN approvals' /\ RowMoves(approvals[i], approvals'[i])
  BY <1>1, <1>7, CommitMoves, PayloadsTyped DEF ConfirmAward
<1>8. ASSUME NEW w \in Windows, PrepareIssue(w)
      PROVE  i \in DOMAIN approvals' /\ RowMoves(approvals[i], approvals'[i])
  <2>1. window[w].po \in Suppliers /\ window[w].due \in AnyDeadline
    BY <1>1, <1>8 DEF PrepareIssue, WindowsHaveOrders, TypeOK, WindowStates
  <2>2. PoPayload(window[w].po, window[w].due) \in Payloads
    BY <1>1, <2>1, PayloadsTyped
  <2> QED BY <1>8, <2>2, CommitMoves DEF PrepareIssue
<1> QED
  BY <1>2, <1>3, <1>4, <1>5, <1>6, <1>7, <1>8
  DEF Next, vars, gateVars, ReviseQuote, UpdateTerms, SubmitQuote, PassDeadline,
      ReadState, SendOrder, MarkDelivery, Stop, SupplierDecide

LEMMA ReviewsStay ==
  ASSUME ReviewInv, [Next]_vars, NEW i, NEW p, ReviewedAs(i, p)
  PROVE  ReviewedAs(i, p)'
BY ApprovalsMove DEF ReviewedAs, RowMoves, Kept

LEMMA NewRequestsArePending ==
  ASSUME ReviewInv, [Next]_vars,
         NEW i \in DOMAIN approvals', i \notin DOMAIN approvals
  PROVE  approvals'[i].status = "pending"
<1>1. TypeOK /\ WindowsHaveOrders /\ GateTypeOK(Payloads)
  BY DEF ReviewInv, TypeOK
<1>2. CASE DOMAIN approvals' = DOMAIN approvals
  BY <1>2
<1>3. ASSUME NEW u \in Users, NEW p \in Payloads, Request(u, p)
      PROVE  approvals'[i].status = "pending"
  <2> DEFINE new == [payload |-> p, status |-> "pending", by |-> u,
                     decider |-> NoPo, lapsed |-> FALSE]
  <2>1. approvals' = Swept(p) \/ approvals' = Append(Swept(p), new)
    BY <1>3 DEF Request
  <2>2. /\ Swept(p) \in Seq(Approvals(Payloads))
        /\ Len(Swept(p)) = Len(approvals)
        /\ DOMAIN approvals = 1 .. Len(approvals) /\ Len(approvals) \in Nat
    BY <1>1, SweptTyped, RowsTyped
  <2>3. new.status = "pending"
    OBVIOUS
  <2>4. approvals'[i] = new
    <3> HIDE DEF new
    <3> QED BY <2>1, <2>2
  <2> QED BY <2>3, <2>4, Zenon
<1>4. ASSUME NEW j, NEW e, approvals' = [approvals EXCEPT ![j] = e]
      PROVE  approvals'[i].status = "pending"
  BY <1>2, <1>4
<1>5. ASSUME NEW k, approvals' = Consumed(k)
      PROVE  approvals'[i].status = "pending"
  BY <1>2, <1>5 DEF Consumed
<1>6. CASE Govern
  BY <1>2, <1>4, <1>6 DEF Govern, SetGovernance, SetTeamMember, Lapse
<1>7. CASE RequestAward \/ RequestIssue
  BY <1>1, <1>3, <1>7, PayloadsTyped DEF RequestAward, RequestIssue
<1>8. CASE DecideApproval
  BY <1>4, <1>8, Zenon DEF DecideApproval, Decide
<1>9. ASSUME NEW winners, ConfirmAward(winners)
      PROVE  approvals'[i].status = "pending"
  BY <1>5, <1>9 DEF ConfirmAward
<1>10. ASSUME NEW w \in Windows, PrepareIssue(w)
       PROVE  approvals'[i].status = "pending"
  BY <1>5, <1>10 DEF PrepareIssue
<1> QED
  BY <1>2, <1>6, <1>7, <1>8, <1>9, <1>10
  DEF Next, vars, gateVars, ReviseQuote, UpdateTerms, SubmitQuote, PassDeadline,
      ReadState, SendOrder, MarkDelivery, Stop, SupplierDecide

LEMMA ApproversStayOthers ==
  ASSUME ReviewInv, [Next]_vars
  PROVE  ApproversAreOthers'
<1> SUFFICES ASSUME NEW i \in DOMAIN approvals',
                    approvals'[i].status \in {"approved", "consumed"}
             PROVE  approvals'[i].decider \in Users \ {approvals'[i].by}
  BY DEF ApproversAreOthers
<1> QED
  BY ApprovalsMove, NewRequestsArePending DEF RowMoves

-----------------------------------------------------------------------------
(* What may happen to the issued versions in one step.                     *)
SameIssue(a, b) ==
  b.terms = a.terms /\ b.due = a.due /\ b.gated = a.gated /\ b.review = a.review

LEMMA OrderTypes ==
  ASSUME TypeOK, NEW s \in Suppliers
  PROVE  /\ versions \in [Suppliers -> Seq(Versions)]
         /\ drafts \in [Suppliers ->
              [status : Editable \cup {"none", "issued", "supplier_confirmed"},
               terms : Terms]]
         /\ Len(versions[s]) \in Nat
         /\ DOMAIN versions[s] = 1 .. Len(versions[s])
BY VersionsTyped DEF TypeOK

LEMMA VersionsKeepTerms ==
  ASSUME ReviewInv, [Next]_vars, NEW s \in Suppliers, NEW v \in DOMAIN versions[s]
  PROVE  SameIssue(versions[s][v], versions'[s][v])
<1>1. TypeOK /\ WindowsHaveOrders
  BY DEF ReviewInv
<1>2. versions[s][v] \in Versions /\ versions \in [Suppliers -> Seq(Versions)]
  BY <1>1, VersionsTyped DEF TypeOK
<1>3. CASE UNCHANGED versions
  BY <1>3 DEF SameIssue
<1>4. ASSUME NEW w \in Windows, PrepareIssue(w)
      PROVE  SameIssue(versions[s][v], versions'[s][v])
  <2>1. window[w].po \in Suppliers
    BY <1>1, <1>4, IssueAddsVersion
  <2>2. PICK e : versions' = [versions EXCEPT ![window[w].po] =
                                Append(Superseded(window[w].po), e)]
    BY <1>4 DEF PrepareIssue
  <2>3. CASE s # window[w].po
    BY <1>2, <2>2, <2>3 DEF SameIssue
  <2>4. CASE s = window[w].po
    <3>1. /\ Superseded(s) \in Seq(Versions)
          /\ Len(Superseded(s)) = Len(versions[s])
          /\ v \in 1 .. Len(versions[s]) /\ Len(versions[s]) \in Nat
      BY <1>1, SupersededTyped, VersionsTyped
    <3>2. versions'[s] = Append(Superseded(s), e)
      BY <1>2, <2>2, <2>4
    <3>3. versions'[s][v] = Superseded(s)[v]
      BY <3>1, <3>2
    <3>4. Superseded(s)[v] \in
            {versions[s][v], [versions[s][v] EXCEPT !.status = "superseded"]}
      BY Zenon DEF Superseded
    <3>5. \A a \in Versions : SameIssue(a, a) /\
            SameIssue(a, [a EXCEPT !.status = "superseded"])
      BY DEF Versions, SameIssue
    <3> QED BY <1>2, <3>3, <3>4, <3>5, Zenon
  <2> QED BY <2>3, <2>4
<1>5. ASSUME NEW r \in Suppliers, NEW n \in DOMAIN versions[r], NEW row,
             versions' = WithVersion(r, n, row), SameIssue(versions[r][n], row)
      PROVE  SameIssue(versions[s][v], versions'[s][v])
  <2>1. CASE s = r /\ v = n
    BY <1>2, <1>5, <2>1 DEF WithVersion
  <2>2. CASE s # r \/ v # n
    <3>1. versions'[s][v] = versions[s][v]
      BY <1>2, <1>5, <2>2 DEF WithVersion
    <3> QED BY <3>1 DEF SameIssue
  <2> QED BY <2>1, <2>2
<1>6. ASSUME NEW w \in Windows, MarkDelivery(w)
      PROVE  SameIssue(versions[s][v], versions'[s][v])
  <2>1. /\ window[w].po \in Suppliers
        /\ window[w].next \in DOMAIN versions[window[w].po]
    BY <1>1, <1>6 DEF MarkDelivery, WindowsHaveOrders
  <2>2. versions[window[w].po][window[w].next] \in Versions
    BY <1>1, <2>1, VersionsTyped
  <2>3. \A a \in Versions : \A d : SameIssue(a, [a EXCEPT !.delivery = d])
    BY DEF Versions, SameIssue
  <2> QED BY <1>3, <1>5, <1>6, <2>1, <2>2, <2>3, Zenon DEF MarkDelivery
<1>7. ASSUME NEW r \in Suppliers, NEW n \in DOMAIN versions[r],
             NEW decision, NEW date, SupplierDecide(r, n, decision, date)
      PROVE  SameIssue(versions[s][v], versions'[s][v])
  <2>1. versions[r][n] \in Versions
    BY <1>1, VersionsTyped
  <2>2. \A a \in Versions : \A d : SameIssue(a, [a EXCEPT !.status = d])
    BY DEF Versions, SameIssue
  <2> QED BY <1>5, <1>7, <2>1, <2>2, Zenon DEF SupplierDecide
<1> QED
  BY <1>3, <1>4, <1>6, <1>7
  DEF Next, vars, Govern, unlessGate, RequestAward, RequestIssue, DecideApproval,
      ConfirmAward, ReviseQuote, UpdateTerms, SubmitQuote, PassDeadline,
      ReadState, SendOrder, Stop

(* A version that a step adds is the one a window issues.                  *)
LEMMA NewVersionsAreIssued ==
  ASSUME ReviewInv, [Next]_vars, NEW s \in Suppliers,
         NEW v \in DOMAIN versions'[s], v \notin DOMAIN versions[s]
  PROVE  \E w \in Windows :
           /\ PrepareIssue(w) /\ s = window[w].po
           /\ \E i \in Gate(PoPayload(s, window[w].due)) :
                /\ versions'[s][v] = NewVersion(w, i)
                /\ approvals' = Consumed(i)
<1>1. TypeOK /\ WindowsHaveOrders
  BY DEF ReviewInv
<1>2. versions \in [Suppliers -> Seq(Versions)]
  BY <1>1 DEF TypeOK
<1>3. ASSUME NEW r, NEW n, NEW row, versions' = WithVersion(r, n, row)
      PROVE  FALSE
  <2>1. versions'[s] = versions[s]
          \/ versions'[s] = [versions[s] EXCEPT ![n] = row]
    BY <1>2, <1>3, Zenon DEF WithVersion
  <2>2. DOMAIN versions'[s] = DOMAIN versions[s]
    BY <2>1, Zenon
  <2> QED BY <2>2
<1>4. PICK w \in Windows : PrepareIssue(w)
  <2>1. ~ UNCHANGED versions
    OBVIOUS
  <2>2. ASSUME NEW w \in Windows, MarkDelivery(w) PROVE FALSE
    <3>1. \E row : versions' = WithVersion(window[w].po, window[w].next, row)
      BY <2>1, <2>2, Zenon DEF MarkDelivery
    <3>2. PICK row : versions' = WithVersion(window[w].po, window[w].next, row)
      BY <3>1
    <3> QED BY <1>3, <3>2
  <2>3. ASSUME NEW r, NEW n, NEW decision, NEW date,
               SupplierDecide(r, n, decision, date)
        PROVE  FALSE
    <3>1. PICK row : versions' = WithVersion(r, n, row)
      BY <2>3, Zenon DEF SupplierDecide
    <3> QED BY <1>3, <3>1
  <2> QED
    BY <2>1, <2>2, <2>3
    DEF Next, vars, Govern, unlessGate, RequestAward, RequestIssue,
        DecideApproval, ConfirmAward, ReviseQuote, UpdateTerms, SubmitQuote,
        PassDeadline, ReadState, SendOrder, Stop
<1>5. PICK i \in Gate(PoPayload(window[w].po, window[w].due)) :
        /\ versions' = [versions EXCEPT ![window[w].po] =
                          Append(Superseded(window[w].po), NewVersion(w, i))]
        /\ approvals' = Consumed(i)
  BY <1>4 DEF PrepareIssue
<1>6. s = window[w].po
  <2>1. s # window[w].po => versions'[s] = versions[s]
    BY <1>2, <1>5, Zenon
  <2> QED BY <2>1
<1>7. /\ Superseded(s) \in Seq(Versions)
      /\ Len(Superseded(s)) = Len(versions[s])
      /\ DOMAIN versions[s] = 1 .. Len(versions[s]) /\ Len(versions[s]) \in Nat
  BY <1>1, SupersededTyped, VersionsTyped
<1>8. versions'[s] = Append(Superseded(s), NewVersion(w, i))
  BY <1>2, <1>5, <1>6
<1>9. versions'[s][v] = NewVersion(w, i)
  BY <1>7, <1>8
<1> QED BY <1>4, <1>5, <1>6, <1>9

-----------------------------------------------------------------------------
LEMMA AwardStaysReviewed ==
  ASSUME ReviewInv, [Next]_vars, award'.gated
  PROVE  ReviewedAs(award.review, AwardPayload(award.winners))'
<1>1. CASE UNCHANGED award
  <2>1. ReviewedAs(award.review, AwardPayload(award.winners))
    BY <1>1 DEF ReviewInv, CommitmentsWereReviewed
  <2> DEFINE i == award.review
             p == AwardPayload(award.winners)
  <2>2. \A j, q : ReviewedAs(j, q) =>
          /\ j \in DOMAIN approvals' /\ approvals'[j].status = "consumed"
          /\ approvals'[j].payload = q
          /\ approvals'[j].decider \in Users \ {approvals'[j].by}
    BY ReviewsStay DEF ReviewedAs
  <2> QED BY <1>1, <2>1, <2>2 DEF ReviewedAs, AwardPayload
<1>2. ASSUME NEW winners \in WinnerSets, ConfirmAward(winners)
      PROVE  ReviewedAs(award.review, AwardPayload(award.winners))'
  <2>0. PICK i \in Gate(AwardPayload(winners)) :
          /\ award' = [winners |-> winners,
                       quotes |-> [s \in Suppliers |->
                                     IF s \in winners THEN quotes[s].no ELSE 0],
                       gated |-> required["award"],
                       review |-> i]
          /\ approvals' = Consumed(i)
    BY <1>2 DEF ConfirmAward
  <2>1. /\ award'.winners = winners /\ award'.review = i
        /\ award'.gated = required["award"]
        /\ approvals' = Consumed(i)
    BY <2>0
  <2>2. AwardPayload(winners) \in Payloads
    BY PayloadsTyped DEF ReviewInv
  <2>3. required[AwardPayload(winners).action]
    BY <2>1 DEF AwardPayload
  <2>4. ReviewedAs(i, AwardPayload(winners))'
    BY <2>1, <2>2, <2>3, CommitMoves
  <2> QED BY <2>1, <2>4 DEF ReviewedAs, AwardPayload
<1> QED
  BY <1>1, <1>2
  DEF Next, vars, Govern, unlessGate, RequestAward, RequestIssue, DecideApproval,
      ReviseQuote, UpdateTerms, SubmitQuote, PassDeadline, ReadState,
      PrepareIssue, SendOrder, MarkDelivery, Stop, SupplierDecide

LEMMA IssuesStayReviewed ==
  ASSUME ReviewInv, [Next]_vars, NEW s \in Suppliers,
         NEW v \in DOMAIN versions'[s], versions'[s][v].gated
  PROVE  ReviewedAs(versions[s][v].review, IssuePayload(s, v))'
<1>1. CASE v \in DOMAIN versions[s]
  <2>1. SameIssue(versions[s][v], versions'[s][v])
    BY <1>1, VersionsKeepTerms
  <2>2. <<s, v>> \in Issues
    BY <1>1 DEF Issues
  <2>3. ReviewedAs(versions[s][v].review, IssuePayload(s, v))
    BY <2>1, <2>2 DEF ReviewInv, CommitmentsWereReviewed, SameIssue
  <2>4. \A j, q : ReviewedAs(j, q) =>
          /\ j \in DOMAIN approvals' /\ approvals'[j].status = "consumed"
          /\ approvals'[j].payload = q
          /\ approvals'[j].decider \in Users \ {approvals'[j].by}
    BY ReviewsStay DEF ReviewedAs
  <2>5. IssuePayload(s, v)' = IssuePayload(s, v)
    BY <2>1 DEF IssuePayload, SameIssue
  <2> QED BY <2>1, <2>3, <2>4, <2>5 DEF ReviewedAs, SameIssue
<1>2. CASE v \notin DOMAIN versions[s]
  <2>1. PICK w \in Windows :
          /\ PrepareIssue(w) /\ s = window[w].po
          /\ \E i \in Gate(PoPayload(s, window[w].due)) :
               /\ versions'[s][v] = NewVersion(w, i)
               /\ approvals' = Consumed(i)
    BY <1>2, NewVersionsAreIssued
  <2>2. PICK i \in Gate(PoPayload(s, window[w].due)) :
          /\ versions'[s][v] = NewVersion(w, i)
          /\ approvals' = Consumed(i)
    BY <2>1
  <2> DEFINE due == window[w].due
             terms == drafts[s].terms
  <2>3. /\ versions'[s][v].terms = terms /\ versions'[s][v].due = due
        /\ versions'[s][v].gated = required["po_issue"]
        /\ versions'[s][v].review = i
    <3>1. /\ NewVersion(w, i).terms = drafts[window[w].po].terms
          /\ NewVersion(w, i).due = window[w].due
          /\ NewVersion(w, i).gated = required["po_issue"]
          /\ NewVersion(w, i).review = i
      BY DEF NewVersion
    <3>2. s = window[w].po
      BY <2>1
    <3> QED BY <2>2, <3>1, <3>2, Zenon
  <2>4. due \in AnyDeadline
    BY DEF ReviewInv, TypeOK, WindowStates
  <2>5. PoPayload(s, due) \in Payloads
    BY <2>4, PayloadsTyped DEF ReviewInv
  <2>6. required[PoPayload(s, due).action]
    BY <2>3 DEF PoPayload
  <2>7. ASSUME NEW p \in Payloads, NEW k \in Gate(p), approvals' = Consumed(k),
               required[p.action]
        PROVE  /\ k \in DOMAIN approvals' /\ approvals'[k].status = "consumed"
               /\ approvals'[k].payload = p
               /\ approvals'[k].decider \in Users \ {approvals'[k].by}
    BY <2>7, CommitMoves DEF ReviewedAs
  <2>8. /\ i \in DOMAIN approvals' /\ approvals'[i].status = "consumed"
        /\ approvals'[i].payload = PoPayload(s, due)
        /\ approvals'[i].decider \in Users \ {approvals'[i].by}
    BY <2>2, <2>5, <2>6, <2>7
  <2> QED BY <2>3, <2>8 DEF ReviewedAs, IssuePayload, PoPayload
<1> QED BY <1>1, <1>2

LEMMA ReviewInvAlways == Spec => []ReviewInv
<1>1. Init => ReviewInv
  <2>1. Init => TypeOK /\ WindowsHaveOrders
    BY InitTyped DEF Init, WindowsHaveOrders, Idle
  <2>2. Init => ApproversAreOthers
    BY DEF Init, GateInit, ApproversAreOthers
  <2>3. Init => CommitmentsWereReviewed
    BY DEF Init, CommitmentsWereReviewed, NoAward, Issues
  <2> QED BY <2>1, <2>2, <2>3 DEF ReviewInv
<1>2. ReviewInv /\ [Next]_vars => ReviewInv'
  <2> SUFFICES ASSUME ReviewInv, [Next]_vars PROVE ReviewInv'
    OBVIOUS
  <2>1. TypeOK' /\ WindowsHaveOrders'
    BY NextTyped, WindowsKeepOrders DEF ReviewInv
  <2>2. ApproversAreOthers'
    BY ApproversStayOthers
  <2>3. CommitmentsWereReviewed'
    <3>1. \A i \in Issues' : \E s \in Suppliers : \E v \in DOMAIN versions'[s] :
            i[1] = s /\ i[2] = v
      BY DEF Issues
    <3> QED
      BY <3>1, AwardStaysReviewed, IssuesStayReviewed
      DEF CommitmentsWereReviewed
  <2> QED BY <2>1, <2>2, <2>3 DEF ReviewInv
<1> QED BY <1>1, <1>2, PTL DEF Spec

(* Four eyes, for every instance: no award and no issued version escapes   *)
(* the approval policy that was in force when it was made.                 *)
THEOREM CommitmentsAreReviewed == Spec => []CommitmentsWereReviewed
<1>1. ReviewInv => CommitmentsWereReviewed
  BY DEF ReviewInv
<1> QED BY <1>1, ReviewInvAlways, PTL

-----------------------------------------------------------------------------
(* Approvals are spent once.                                               *)

(* Version v of s rests on approval k.                                     *)
IssueRests(k, s, v) ==
  /\ s \in Suppliers /\ v \in DOMAIN versions[s]
  /\ versions[s][v].review = k

(* ApprovalsAreSpentOnce without its sets of commitments.                  *)
SpentOnce(k) ==
  /\ approvals[k].status = "consumed"
       => award.review = k \/ \E s, v : IssueRests(k, s, v)
  /\ award.review = k
       => approvals[k].status = "consumed" /\ \A s, v : ~ IssueRests(k, s, v)
  /\ \A s, v : IssueRests(k, s, v) =>
       /\ approvals[k].status = "consumed"
       /\ \A r, n : IssueRests(k, r, n) => r = s /\ n = v

(* What a commitment names is an approval there is, or none (0), and no    *)
(* award names one before it is made.                                      *)
ReviewsExist ==
  /\ award.review \in {0} \cup DOMAIN approvals
  /\ campaign = "collecting" => award.review = 0
  /\ \A s \in Suppliers : \A v \in DOMAIN versions[s] :
       versions[s][v].review \in {0} \cup DOMAIN approvals

SpentInv ==
  /\ ReviewInv
  /\ ReviewsExist
  /\ \A k \in DOMAIN approvals : SpentOnce(k)

(* A commit consumes the approval it rests on, which was not consumed.     *)
LEMMA CommitSpends ==
  ASSUME ReviewInv, NEW p \in Payloads, NEW i \in Gate(p),
         approvals' = Consumed(i)
  PROVE  /\ DOMAIN approvals' = DOMAIN approvals
         /\ i \in {0} \cup DOMAIN approvals /\ 0 \notin DOMAIN approvals
         /\ \A k \in DOMAIN approvals :
              IF k = i
              THEN /\ approvals[k].status = "approved"
                   /\ approvals'[k].status = "consumed"
              ELSE approvals'[k].status = approvals[k].status
<1>1. GateTypeOK(Payloads)
  BY DEF ReviewInv, TypeOK
<1>2. i \in {0} \cup DOMAIN approvals /\ 0 \notin DOMAIN approvals
  BY <1>1, GateTyped, RowsTyped
<1>3. CASE i = 0
  <2>1. approvals' = approvals
    BY <1>3 DEF Consumed
  <2> QED BY <1>2, <1>3, <2>1
<1>4. CASE i # 0
  <2>1. approvals' = [approvals EXCEPT ![i] =
                        [approvals[i] EXCEPT !.status = "consumed"]]
    BY <1>4, Zenon DEF Consumed
  <2>2. approvals[i].status = "approved"
    BY <1>4 DEF Gate, Usable
  <2>3. \A a \in Approvals(Payloads) :
          [a EXCEPT !.status = "consumed"].status = "consumed"
    BY DEF Approvals
  <2>4. approvals[i] \in Approvals(Payloads)
    BY <1>1, <1>2, <1>4, RowsTyped
  <2>5. /\ DOMAIN approvals' = DOMAIN approvals
        /\ approvals'[i] = [approvals[i] EXCEPT !.status = "consumed"]
        /\ \A k \in DOMAIN approvals : k # i => approvals'[k] = approvals[k]
    BY <1>2, <1>4, <2>1, Zenon
  <2>6. approvals'[i].status = "consumed"
    BY <2>3, <2>4, <2>5, Zenon
  <2> QED BY <1>2, <2>2, <2>5, <2>6
<1> QED BY <1>3, <1>4

(* Nothing but a commit consumes an approval.                              *)
LEMMA OthersSpendNothing ==
  ASSUME ReviewInv, [Next]_vars,
         \A winners \in WinnerSets : ~ ConfirmAward(winners),
         \A w \in Windows : ~ PrepareIssue(w)
  PROVE  /\ DOMAIN approvals \subseteq DOMAIN approvals'
         /\ \A k \in DOMAIN approvals' :
              approvals'[k].status = "consumed"
                <=> k \in DOMAIN approvals /\ approvals[k].status = "consumed"
<1>1. TypeOK /\ GateTypeOK(Payloads)
  BY DEF ReviewInv, TypeOK
<1>2. \A k \in DOMAIN approvals :
        /\ k \in DOMAIN approvals'
        /\ approvals[k].status = "consumed" => approvals'[k].status = "consumed"
  BY ApprovalsMove DEF RowMoves
<1>3. \A k \in DOMAIN approvals' \ DOMAIN approvals : approvals'[k].status = "pending"
  BY NewRequestsArePending
<1>4. ASSUME NEW k \in DOMAIN approvals, approvals[k].status # "consumed"
      PROVE  approvals'[k].status # "consumed"
  <2>1. CASE UNCHANGED approvals
    BY <1>4, <2>1
  <2>2. ASSUME NEW u \in Users, NEW p \in Payloads, Request(u, p)
        PROVE  approvals'[k].status # "consumed"
    <3> DEFINE new == [payload |-> p, status |-> "pending", by |-> u,
                       decider |-> NoPo, lapsed |-> FALSE]
    <3>1. approvals' = Swept(p) \/ approvals' = Append(Swept(p), new)
      BY <2>2 DEF Request
    <3>2. /\ Swept(p) \in Seq(Approvals(Payloads))
          /\ Len(Swept(p)) = Len(approvals)
          /\ k \in 1 .. Len(approvals) /\ Len(approvals) \in Nat
          /\ approvals[k] \in Approvals(Payloads)
      BY <1>1, SweptTyped, RowsTyped
    <3>3. approvals'[k] = Swept(p)[k]
      <4> HIDE DEF new
      <4> QED BY <3>1, <3>2
    <3>4. Swept(p)[k] \in {approvals[k], [approvals[k] EXCEPT !.status = "expired"]}
      BY Zenon DEF Swept
    <3>5. \A a \in Approvals(Payloads) :
            [a EXCEPT !.status = "expired"].status = "expired"
      BY DEF Approvals
    <3>6. approvals'[k].status \in {approvals[k].status, "expired"}
      BY <3>2, <3>3, <3>4, <3>5, Zenon
    <3> QED BY <1>4, <3>6
  <2>3. ASSUME NEW j \in DOMAIN approvals, Lapse(j)
        PROVE  approvals'[k].status # "consumed"
    <3>1. approvals' = [approvals EXCEPT ![j] =
                          [approvals[j] EXCEPT !.lapsed = TRUE]]
      BY <2>3, Zenon DEF Lapse
    <3>2. \A a \in Approvals(Payloads) : [a EXCEPT !.lapsed = TRUE].status = a.status
      BY DEF Approvals
    <3>3. approvals'[k] = approvals[k]
            \/ approvals'[k] = [approvals[k] EXCEPT !.lapsed = TRUE]
      BY <3>1, Zenon
    <3>4. approvals'[k].status = approvals[k].status
      BY <1>1, <3>2, <3>3, RowsTyped, Zenon
    <3> QED BY <1>4, <3>4
  <2>4. ASSUME NEW u \in Users, NEW j \in DOMAIN approvals,
               NEW verdict \in {"approved", "rejected"}, Decide(u, j, verdict)
        PROVE  approvals'[k].status # "consumed"
    <3>1. approvals' = [approvals EXCEPT ![j] =
                 [approvals[j] EXCEPT !.status = verdict, !.decider = u]]
      BY <2>4, Zenon DEF Decide
    <3>2. \A a \in Approvals(Payloads) :
            [a EXCEPT !.status = verdict, !.decider = u].status = verdict
      BY DEF Approvals
    <3>3. approvals'[k] = approvals[k] \/ approvals'[k] =
            [approvals[k] EXCEPT !.status = verdict, !.decider = u]
      BY <3>1, Zenon
    <3>4. approvals'[k].status \in {approvals[k].status, verdict}
      BY <1>1, <3>2, <3>3, RowsTyped, Zenon
    <3> QED BY <1>4, <3>4
  <2>5. CASE Govern
    BY <2>1, <2>3, <2>5 DEF Govern, SetGovernance, SetTeamMember
  <2>6. CASE RequestAward \/ RequestIssue
    BY <1>1, <2>2, <2>6, PayloadsTyped DEF RequestAward, RequestIssue
  <2>7. CASE DecideApproval
    BY <2>4, <2>7 DEF DecideApproval
  <2> QED
    BY <2>1, <2>5, <2>6, <2>7
    DEF Next, vars, gateVars, ReviseQuote, UpdateTerms, SubmitQuote,
        PassDeadline, ReadState, SendOrder, MarkDelivery, Stop, SupplierDecide
<1> QED BY <1>2, <1>3, <1>4

(* An issue adds one version, which rests on the approval it consumes.     *)
LEMMA IssueRestsOnIt ==
  ASSUME ReviewInv, NEW w \in Windows, PrepareIssue(w)
  PROVE  \E p \in Payloads : \E i \in Gate(p) :
           /\ approvals' = Consumed(i)
           /\ \E s \in Suppliers : \E n : n \notin DOMAIN versions[s] /\
                \A k, r, v : IssueRests(k, r, v)'
                  <=> IssueRests(k, r, v) \/ (k = i /\ r = s /\ v = n)
<1>1. TypeOK /\ WindowsHaveOrders
  BY DEF ReviewInv
<1>2. PICK s \in Suppliers : s = window[w].po
  BY <1>1 DEF PrepareIssue, WindowsHaveOrders
<1>3. window[w].due \in AnyDeadline
  BY <1>1 DEF TypeOK, WindowStates
<1>4. PICK i \in Gate(PoPayload(s, window[w].due)) :
        /\ versions' = [versions EXCEPT ![s] =
                          Append(Superseded(s), NewVersion(w, i))]
        /\ approvals' = Consumed(i)
  BY <1>2 DEF PrepareIssue
<1> DEFINE p == PoPayload(s, window[w].due)
           n == Len(versions[s]) + 1
           new == NewVersion(w, i)
<1>5. p \in Payloads
  BY <1>1, <1>3, PayloadsTyped
<1>6. /\ Superseded(s) \in Seq(Versions) /\ Len(Superseded(s)) = Len(versions[s])
      /\ DOMAIN versions[s] = 1 .. Len(versions[s]) /\ Len(versions[s]) \in Nat
  BY <1>1, SupersededTyped, VersionsTyped
<1>7. new.review = i
  BY DEF NewVersion
<1>8. versions'[s] = Append(Superseded(s), new)
  BY <1>1, <1>4, OrderTypes, Zenon
<1>9. \A r \in Suppliers : r # s => versions'[r] = versions[r]
  BY <1>1, <1>4, OrderTypes, Zenon
<1>10. /\ DOMAIN versions'[s] = DOMAIN versions[s] \cup {n}
       /\ n \notin DOMAIN versions[s]
       /\ versions'[s][n].review = i
  <2> HIDE DEF new
  <2> QED BY <1>6, <1>7, <1>8
<1>11. \A v \in DOMAIN versions[s] : versions'[s][v].review = versions[s][v].review
  <2>1. [Next]_vars
    BY <1>2 DEF Next
  <2> QED BY <2>1, VersionsKeepTerms DEF SameIssue
<1>12. \A k, r, v : IssueRests(k, r, v)'
         <=> IssueRests(k, r, v) \/ (k = i /\ r = s /\ v = n)
  <2> SUFFICES ASSUME NEW k, NEW r, NEW v
               PROVE  IssueRests(k, r, v)'
                        <=> IssueRests(k, r, v) \/ (k = i /\ r = s /\ v = n)
    OBVIOUS
  <2> HIDE DEF n
  <2>1. CASE r # s
    BY <1>9, <2>1 DEF IssueRests
  <2>2. CASE r = s
    BY <1>10, <1>11, <2>2 DEF IssueRests
  <2> QED BY <2>1, <2>2
<1> HIDE DEF p, n
<1>13. n \notin DOMAIN versions[s]
  BY <1>10
<1> QED BY <1>4, <1>5, <1>12, <1>13 DEF p

LEMMA IssuesSpendOnce ==
  ASSUME SpentInv, NEW w \in Windows, PrepareIssue(w)
  PROVE  /\ ReviewsExist'
         /\ \A k \in DOMAIN approvals' : SpentOnce(k)'
<1>0. PICK p \in Payloads : \E i \in Gate(p) :
        /\ approvals' = Consumed(i)
        /\ \E s \in Suppliers : \E n : n \notin DOMAIN versions[s] /\
             \A k, r, v : IssueRests(k, r, v)'
               <=> IssueRests(k, r, v) \/ (k = i /\ r = s /\ v = n)
  BY IssueRestsOnIt DEF SpentInv
<1>1. PICK i \in Gate(p) :
        /\ approvals' = Consumed(i)
        /\ \E s \in Suppliers : \E n : n \notin DOMAIN versions[s] /\
             \A k, r, v : IssueRests(k, r, v)'
               <=> IssueRests(k, r, v) \/ (k = i /\ r = s /\ v = n)
  BY <1>0
<1>2. PICK s \in Suppliers : \E n :
        /\ n \notin DOMAIN versions[s]
        /\ \A k, r, v : IssueRests(k, r, v)'
             <=> IssueRests(k, r, v) \/ (k = i /\ r = s /\ v = n)
  BY <1>1
<1>2a. PICK n :
        /\ n \notin DOMAIN versions[s]
        /\ \A k, r, v : IssueRests(k, r, v)'
             <=> IssueRests(k, r, v) \/ (k = i /\ r = s /\ v = n)
  BY <1>2
<1>3. /\ DOMAIN approvals' = DOMAIN approvals
      /\ i \in {0} \cup DOMAIN approvals /\ 0 \notin DOMAIN approvals
      /\ \A k \in DOMAIN approvals :
           IF k = i
           THEN /\ approvals[k].status = "approved"
                /\ approvals'[k].status = "consumed"
           ELSE approvals'[k].status = approvals[k].status
  BY <1>1, CommitSpends DEF SpentInv
<1>4. UNCHANGED <<award, campaign>>
  BY DEF PrepareIssue
<1>5. ReviewsExist'
  <2>1. ASSUME NEW r \in Suppliers, NEW v \in DOMAIN versions'[r], NEW k,
               k = versions'[r][v].review
        PROVE  k \in {0} \cup DOMAIN approvals
    <3>1. IssueRests(k, r, v)'
      BY <2>1 DEF IssueRests
    <3>2. IssueRests(k, r, v) \/ k = i
      BY <1>2a, <3>1
    <3>3. IssueRests(k, r, v) => k \in {0} \cup DOMAIN approvals
      BY DEF SpentInv, ReviewsExist, IssueRests
    <3> QED BY <1>3, <3>2, <3>3
  <2> QED BY <1>3, <1>4, <2>1 DEF SpentInv, ReviewsExist
<1>6. ASSUME NEW k \in DOMAIN approvals
      PROVE  SpentOnce(k)'
  <2>1. SpentOnce(k)
    BY DEF SpentInv
  <2>2. \A r, v : IssueRests(k, r, v)'
          <=> IssueRests(k, r, v) \/ (k = i /\ r = s /\ v = n)
    BY <1>2a
  <2>3. CASE k = i
    <3>1. award.review # k /\ \A r, v : ~ IssueRests(k, r, v)
      BY <1>3, <2>1, <2>3 DEF SpentOnce
    <3> QED BY <1>3, <1>4, <2>2, <2>3, <3>1 DEF SpentOnce
  <2>4. CASE k # i
    BY <1>3, <1>4, <2>1, <2>2, <2>4 DEF SpentOnce
  <2> QED BY <2>3, <2>4
<1> QED BY <1>3, <1>5, <1>6

LEMMA AwardsSpendOnce ==
  ASSUME SpentInv, NEW winners \in WinnerSets, ConfirmAward(winners)
  PROVE  /\ ReviewsExist'
         /\ \A k \in DOMAIN approvals' : SpentOnce(k)'
<1>1. PICK i \in Gate(AwardPayload(winners)) :
        award'.review = i /\ approvals' = Consumed(i)
  BY DEF ConfirmAward
<1>2. AwardPayload(winners) \in Payloads
  BY PayloadsTyped DEF SpentInv, ReviewInv
<1>3. /\ DOMAIN approvals' = DOMAIN approvals
      /\ i \in {0} \cup DOMAIN approvals /\ 0 \notin DOMAIN approvals
      /\ \A k \in DOMAIN approvals :
           IF k = i
           THEN /\ approvals[k].status = "approved"
                /\ approvals'[k].status = "consumed"
           ELSE approvals'[k].status = approvals[k].status
  BY <1>1, <1>2, CommitSpends DEF SpentInv
<1>4. UNCHANGED versions /\ campaign' = "awarded" /\ award.review = 0
  BY DEF ConfirmAward, SpentInv, ReviewsExist
<1>5. ReviewsExist'
  BY <1>1, <1>3, <1>4 DEF SpentInv, ReviewsExist
<1>6. \A k, r, v : IssueRests(k, r, v)' <=> IssueRests(k, r, v)
  BY <1>4 DEF IssueRests
<1>7. ASSUME NEW k \in DOMAIN approvals
      PROVE  SpentOnce(k)'
  <2>1. SpentOnce(k) /\ award.review # k
    BY <1>3, <1>4 DEF SpentInv
  <2>2. CASE k = i
    <3>1. \A r, v : ~ IssueRests(k, r, v)
      BY <1>3, <2>1, <2>2 DEF SpentOnce
    <3> QED BY <1>1, <1>3, <1>6, <2>2, <3>1 DEF SpentOnce
  <2>3. CASE k # i
    BY <1>1, <1>3, <1>6, <2>1, <2>3 DEF SpentOnce
  <2> QED BY <2>2, <2>3
<1> QED BY <1>3, <1>5, <1>7

LEMMA OthersCommitNothing ==
  ASSUME SpentInv, [Next]_vars,
         \A winners \in WinnerSets : ~ ConfirmAward(winners),
         \A w \in Windows : ~ PrepareIssue(w)
  PROVE  /\ ReviewsExist'
         /\ \A k \in DOMAIN approvals' : SpentOnce(k)'
<1>1. ReviewInv /\ TypeOK /\ WindowsHaveOrders
  BY DEF SpentInv, ReviewInv
<1>2. /\ DOMAIN approvals \subseteq DOMAIN approvals'
      /\ \A k \in DOMAIN approvals' :
           approvals'[k].status = "consumed"
             <=> k \in DOMAIN approvals /\ approvals[k].status = "consumed"
  BY <1>1, OthersSpendNothing
<1>3. UNCHANGED award /\ UNCHANGED campaign
  BY DEF Next, vars, Govern, unlessGate, RequestAward, RequestIssue,
         DecideApproval, ReviseQuote, UpdateTerms, SubmitQuote, PassDeadline,
         ReadState, SendOrder, MarkDelivery, Stop, SupplierDecide
<1>4. ASSUME NEW s \in Suppliers
      PROVE  /\ DOMAIN versions'[s] = DOMAIN versions[s]
             /\ \A v \in DOMAIN versions[s] :
                  versions'[s][v].review = versions[s][v].review
  <2>1. DOMAIN versions[s] \subseteq DOMAIN versions'[s]
    BY <1>1, VersionsStay
  <2>2. \A v \in DOMAIN versions'[s] : v \in DOMAIN versions[s]
    BY <1>1, NewVersionsAreIssued
  <2>3. \A v \in DOMAIN versions[s] : SameIssue(versions[s][v], versions'[s][v])
    BY <1>1, VersionsKeepTerms
  <2> QED BY <2>1, <2>2, <2>3 DEF SameIssue
<1>5. \A k, r, v : IssueRests(k, r, v)' <=> IssueRests(k, r, v)
  BY <1>4 DEF IssueRests
<1>6. ReviewsExist'
  BY <1>2, <1>3, <1>4 DEF SpentInv, ReviewsExist
<1>7. ASSUME NEW k \in DOMAIN approvals'
      PROVE  SpentOnce(k)'
  <2>1. CASE k \in DOMAIN approvals
    <3>1. SpentOnce(k)
      BY <2>1 DEF SpentInv
    <3> QED BY <1>2, <1>3, <1>5, <2>1, <3>1 DEF SpentOnce
  <2>2. CASE k \notin DOMAIN approvals
    <3>1. DOMAIN approvals' \subseteq Nat \ {0}
      <4>1. GateTypeOK(Payloads)'
        BY <1>1, NextTyped DEF TypeOK
      <4> QED BY <4>1 DEF GateTypeOK
    <3>2. award.review # k /\ \A r, v : ~ IssueRests(k, r, v)
      BY <2>2, <3>1 DEF SpentInv, ReviewsExist, IssueRests
    <3> QED BY <1>2, <1>3, <1>5, <2>2, <3>2 DEF SpentOnce
  <2> QED BY <2>1, <2>2
<1> QED BY <1>6, <1>7

(* No approval pays for two commitments, none is consumed for nothing, and *)
(* what rests on an approval has consumed it.                              *)
THEOREM ApprovalsAreSpent == Spec => []ApprovalsAreSpentOnce
<1>1. Init => SpentInv
  <2> SUFFICES ASSUME Init PROVE SpentInv
    OBVIOUS
  <2>1. /\ approvals = <<>> /\ award.review = 0
        /\ \A s \in Suppliers : versions[s] = <<>>
    BY DEF Init, GateInit, NoAward
  <2>2. ReviewInv
    <3>1. TypeOK /\ WindowsHaveOrders
      BY InitTyped DEF Init, WindowsHaveOrders, Idle
    <3>2. ApproversAreOthers
      BY <2>1 DEF ApproversAreOthers
    <3>3. CommitmentsWereReviewed
      BY <2>1 DEF Init, CommitmentsWereReviewed, NoAward, Issues
    <3> QED BY <3>1, <3>2, <3>3 DEF ReviewInv
  <2> QED BY <2>1, <2>2 DEF SpentInv, ReviewsExist
<1>2. SpentInv /\ [Next]_vars /\ ReviewInv' => SpentInv'
  <2> SUFFICES ASSUME SpentInv, [Next]_vars, ReviewInv' PROVE SpentInv'
    OBVIOUS
  <2>1. ReviewsExist' /\ \A k \in DOMAIN approvals' : SpentOnce(k)'
    BY AwardsSpendOnce, IssuesSpendOnce, OthersCommitNothing
  <2> QED BY <2>1 DEF SpentInv
<1>3. SpentInv => ApprovalsAreSpentOnce
  <2> SUFFICES ASSUME SpentInv, NEW k \in DOMAIN approvals
               PROVE  /\ approvals[k].status = "consumed" <=> RestOn(k) # {}
                      /\ \A c, d \in RestOn(k) : c = d
    BY DEF ApprovalsAreSpentOnce
  <2>1. SpentOnce(k)
    BY DEF SpentInv
  <2>2. \A s, v : IssueRests(k, s, v) => <<"po_issue", s, v>> \in RestOn(k)
    <3> SUFFICES ASSUME NEW s, NEW v, IssueRests(k, s, v)
                 PROVE  <<"po_issue", s, v>> \in RestOn(k)
      OBVIOUS
    <3> DEFINE j == <<s, v>>
    <3>1. j \in Issues /\ versions[j[1]][j[2]].review = k
      BY DEF IssueRests, Issues
    <3>2. <<"po_issue", j[1], j[2]>> \in RestOn(k)
      BY <3>1 DEF RestOn
    <3> QED BY <3>2
  <2>3. award.review = k => <<"award", NoPo, 0>> \in RestOn(k)
    BY DEF RestOn
  <2>4. ASSUME NEW c \in RestOn(k)
        PROVE  \/ award.review = k /\ c = <<"award", NoPo, 0>>
               \/ \E s, v : IssueRests(k, s, v) /\ c = <<"po_issue", s, v>>
    <3>1. CASE award.review = k /\ c = <<"award", NoPo, 0>>
      BY <3>1
    <3>2. ASSUME NEW i \in Issues, versions[i[1]][i[2]].review = k,
                 c = <<"po_issue", i[1], i[2]>>
          PROVE  \E s, v : IssueRests(k, s, v) /\ c = <<"po_issue", s, v>>
      <4>1. \E s \in Suppliers : \E v \in DOMAIN versions[s] : i = <<s, v>>
        BY DEF Issues
      <4> QED BY <3>2, <4>1 DEF IssueRests
    <3> QED BY <3>1, <3>2 DEF RestOn
  <2>5. approvals[k].status = "consumed" <=> RestOn(k) # {}
    BY <2>1, <2>2, <2>3, <2>4 DEF SpentOnce
  <2>6. \A c, d \in RestOn(k) : c = d
    BY <2>1, <2>4 DEF SpentOnce
  <2> QED BY <2>5, <2>6
<1>4. Spec => []ReviewInv
  BY ReviewInvAlways
<1> QED BY <1>1, <1>2, <1>3, <1>4, PTL DEF Spec
-----------------------------------------------------------------------------
(* What would keep the sentence of the runbook true: no supplier revises a *)
(* quote from the approval of an award that buys it to the award.          *)
AwardApproved(i) ==
  approvals[i].status = "approved" /\ approvals[i].payload.action = "award"

QuotesHold ==
  \A i \in DOMAIN approvals :
    AwardApproved(i) =>
      \A s \in approvals[i].payload.body : quotes'[s].no = quotes[s].no

(* The strengthening: what an approved award would buy was shown.          *)
ShownAs(i, k) ==
  /\ k \in DOMAIN seen
  /\ seen[k].approval = i
  /\ \A s \in approvals[i].payload.body : seen[k].quotes[s] = quotes[s].no

ApprovedWasShown ==
  \A i \in DOMAIN approvals : AwardApproved(i) => \E k : ShownAs(i, k)

HeldInv == ReviewInv /\ ApprovedWasShown /\ AwardAsReviewed

(* The history only grows, by the decisions.                               *)
LEMMA HistoryGrows ==
  ASSUME TypeOK, [Next]_vars, NEW k \in DOMAIN seen
  PROVE  k \in DOMAIN seen' /\ seen'[k] = seen[k]
<1>1. seen \in Seq([approval : Nat, quotes : [Suppliers -> Nat]])
  BY DEF TypeOK
<1>2. CASE UNCHANGED seen
  BY <1>2
<1>3. CASE DecideApproval
  <2>1. PICK e : seen' = Append(seen, e) \/ seen' = seen
    BY <1>3 DEF DecideApproval
  <2> QED BY <1>1, <2>1
<1> QED
  BY <1>2, <1>3
  DEF Next, vars, Govern, RequestAward, RequestIssue, ConfirmAward, ReviseQuote,
      UpdateTerms, SubmitQuote, PassDeadline, ReadState, PrepareIssue, SendOrder,
      MarkDelivery, Stop, SupplierDecide

(* Only a decision approves: whatever else happens, what is approved was.  *)
LEMMA ApprovedByDecision ==
  ASSUME ReviewInv, [Next]_vars, ~ DecideApproval,
         NEW i \in DOMAIN approvals', approvals'[i].status = "approved"
  PROVE  i \in DOMAIN approvals /\ approvals[i].status = "approved"
<1>1. TypeOK /\ WindowsHaveOrders /\ GateTypeOK(Payloads)
  BY DEF ReviewInv, TypeOK
<1>2. i \in DOMAIN approvals /\ approvals[i] \in Approvals(Payloads)
  BY <1>1, NewRequestsArePending, RowsTyped
<1>3. CASE UNCHANGED approvals
  BY <1>2, <1>3
<1>4. ASSUME NEW u \in Users, NEW p \in Payloads, Request(u, p)
      PROVE  approvals[i].status = "approved"
  <2> DEFINE new == [payload |-> p, status |-> "pending", by |-> u,
                     decider |-> NoPo, lapsed |-> FALSE]
  <2>1. approvals' = Swept(p) \/ approvals' = Append(Swept(p), new)
    BY <1>4 DEF Request
  <2>2. /\ Swept(p) \in Seq(Approvals(Payloads))
        /\ Len(Swept(p)) = Len(approvals)
        /\ i \in 1 .. Len(approvals) /\ Len(approvals) \in Nat
    BY <1>1, <1>2, SweptTyped, RowsTyped
  <2>3. approvals'[i] = Swept(p)[i]
    <3> HIDE DEF new
    <3> QED BY <2>1, <2>2
  <2>4. Swept(p)[i] = approvals[i] \/
          Swept(p)[i] = [approvals[i] EXCEPT !.status = "expired"]
    BY <1>2, Zenon DEF Swept
  <2>5. [approvals[i] EXCEPT !.status = "expired"].status = "expired"
    BY <1>2 DEF Approvals
  <2> QED BY <2>3, <2>4, <2>5
<1>5. ASSUME NEW j \in DOMAIN approvals, Lapse(j)
      PROVE  approvals[i].status = "approved"
  <2>1. approvals' = [approvals EXCEPT ![j] =
                        [approvals[j] EXCEPT !.lapsed = TRUE]]
    BY <1>5, Zenon DEF Lapse
  <2>2. [approvals[i] EXCEPT !.lapsed = TRUE].status = approvals[i].status
    BY <1>2 DEF Approvals
  <2>3. approvals'[i] = IF i = j THEN [approvals[i] EXCEPT !.lapsed = TRUE]
                        ELSE approvals[i]
    BY <1>2, <2>1, Zenon
  <2> QED BY <2>2, <2>3
<1>6. ASSUME NEW p \in Payloads, NEW k \in Gate(p), approvals' = Consumed(k)
      PROVE  approvals[i].status = "approved"
  <2>1. IF i = k THEN approvals'[i].status = "consumed"
        ELSE approvals'[i].status = approvals[i].status
    BY <1>2, <1>6, CommitSpends
  <2> QED BY <2>1
<1>7. CASE Govern
  <2>1. UNCHANGED approvals \/ \E j \in DOMAIN approvals : Lapse(j)
    BY <1>7 DEF Govern, SetGovernance, SetTeamMember
  <2> QED BY <1>2, <1>3, <1>5, <2>1
<1>8. CASE RequestAward \/ RequestIssue
  <2>1. \E u \in Users : \E p \in Payloads : Request(u, p)
    BY <1>1, <1>8, PayloadsTyped DEF RequestAward, RequestIssue
  <2> QED BY <1>2, <1>4, <2>1
<1>9. ASSUME NEW winners \in WinnerSets, ConfirmAward(winners)
      PROVE  approvals[i].status = "approved"
  BY <1>1, <1>6, <1>9, PayloadsTyped DEF ConfirmAward
<1>10. ASSUME NEW w \in Windows, PrepareIssue(w)
       PROVE  approvals[i].status = "approved"
  <2>1. window[w].po \in Suppliers /\ window[w].due \in AnyDeadline
    BY <1>1, <1>10 DEF PrepareIssue, WindowsHaveOrders, TypeOK, WindowStates
  <2>2. PoPayload(window[w].po, window[w].due) \in Payloads
    BY <1>1, <2>1, PayloadsTyped
  <2> QED BY <1>6, <1>10, <2>2 DEF PrepareIssue
<1> QED
  BY <1>2, <1>3, <1>7, <1>8, <1>9, <1>10
  DEF Next, vars, gateVars, ReviseQuote, UpdateTerms, SubmitQuote, PassDeadline,
      ReadState, SendOrder, MarkDelivery, Stop, SupplierDecide

(* An approval shown stays shown while the quotes hold.                    *)
LEMMA ShownStaysShown ==
  ASSUME HeldInv, [Next]_vars, QuotesHold,
         NEW i \in DOMAIN approvals, AwardApproved(i)
  PROVE  \E k : ShownAs(i, k)'
<1>1. TypeOK /\ ReviewInv
  BY DEF HeldInv, ReviewInv
<1>2. PICK k : ShownAs(i, k)
  BY DEF HeldInv, ApprovedWasShown
<1>3. k \in DOMAIN seen' /\ seen'[k] = seen[k]
  BY <1>1, <1>2, HistoryGrows DEF ShownAs
<1>4. approvals'[i].payload = approvals[i].payload
  BY <1>1, ApprovalsMove DEF RowMoves, Kept
<1>5. \A s \in approvals[i].payload.body : quotes'[s].no = quotes[s].no
  BY DEF QuotesHold
<1> QED BY <1>2, <1>3, <1>4, <1>5 DEF ShownAs

(* A decision shows what it approves.                                      *)
LEMMA DecisionsShow ==
  ASSUME HeldInv, [Next]_vars, QuotesHold, DecideApproval,
         NEW i \in DOMAIN approvals', AwardApproved(i)'
  PROVE  \E k : ShownAs(i, k)'
<1>1. /\ TypeOK /\ ReviewInv /\ GateTypeOK(Payloads)
      /\ seen \in Seq([approval : Nat, quotes : [Suppliers -> Nat]])
  BY DEF HeldInv, ReviewInv, TypeOK
<1>2. /\ i \in DOMAIN approvals /\ approvals[i] \in Approvals(Payloads)
      /\ approvals'[i].payload = approvals[i].payload
  BY <1>1, NewRequestsArePending, ApprovalsMove, RowsTyped
  DEF RowMoves, Kept, AwardApproved
<1>3. CASE approvals[i].status = "approved"
  BY <1>2, <1>3, ShownStaysShown DEF AwardApproved
<1>4. CASE approvals[i].status # "approved"
  <2> DEFINE shown == [s \in Suppliers |-> quotes[s].no]
  <2>1. PICK u \in Users, j \in DOMAIN approvals,
             verdict \in {"approved", "rejected"} :
          /\ Decide(u, j, verdict)
          /\ seen' = IF verdict = "approved"
                        /\ approvals[j].payload.action = "award"
                     THEN Append(seen, [approval |-> j, quotes |-> shown])
                     ELSE seen
          /\ UNCHANGED quotes
    BY <1>4 DEF DecideApproval, unlessGate
  <2>2. approvals' = [approvals EXCEPT ![j] =
                 [approvals[j] EXCEPT !.status = verdict, !.decider = u]]
    BY <2>1, Zenon DEF Decide
  <2>3. i = j
    BY <1>2, <1>4, <2>2, Zenon DEF AwardApproved
  <2>4. verdict = "approved"
    <3>1. approvals'[i] = [approvals[i] EXCEPT !.status = verdict, !.decider = u]
      BY <1>2, <2>2, <2>3, Zenon
    <3>2. [approvals[i] EXCEPT !.status = verdict, !.decider = u].status = verdict
      BY <1>2 DEF Approvals
    <3> QED BY <3>1, <3>2 DEF AwardApproved
  <2>5. approvals[j].payload.action = "award"
    BY <1>2, <2>3 DEF AwardApproved
  <2> DEFINE e == [approval |-> i, quotes |-> shown]
             k == Len(seen) + 1
  <2>6. seen' = Append(seen, e)
    BY <2>1, <2>3, <2>4, <2>5
  <2>7. e.approval = i /\ e.quotes = shown
    OBVIOUS
  <2>8. k \in DOMAIN seen' /\ seen'[k] = e
    <3> HIDE DEF e
    <3> QED BY <1>1, <2>6
  <2>9. approvals[i].payload.body \subseteq Suppliers
    BY <1>2, <2>3, <2>5 DEF Approvals, Payloads, WinnerSets
  <2>10. \A s \in approvals[i].payload.body : shown[s] = quotes'[s].no
    BY <2>1, <2>9
  <2> HIDE DEF e, k, shown
  <2> QED BY <1>2, <2>7, <2>8, <2>10 DEF ShownAs
<1> QED BY <1>3, <1>4

LEMMA ApprovedStaysShown ==
  ASSUME HeldInv, [Next]_vars, QuotesHold
  PROVE  ApprovedWasShown'
<1> SUFFICES ASSUME NEW i \in DOMAIN approvals', AwardApproved(i)'
             PROVE  \E k : ShownAs(i, k)'
  BY DEF ApprovedWasShown
<1>1. CASE DecideApproval
  BY <1>1, DecisionsShow
<1>2. CASE ~ DecideApproval
  <2>1. i \in DOMAIN approvals /\ approvals[i].status = "approved"
    BY <1>2, ApprovedByDecision DEF HeldInv, AwardApproved
  <2>2. approvals'[i].payload = approvals[i].payload
    BY <2>1, ApprovalsMove DEF HeldInv, RowMoves, Kept
  <2>3. AwardApproved(i)
    BY <2>1, <2>2 DEF AwardApproved
  <2> QED BY <2>1, <2>3, ShownStaysShown
<1> QED BY <1>1, <1>2

(* An award that needs an approval buys what its approval was shown.       *)
LEMMA AwardsBuyWhatWasShown ==
  ASSUME HeldInv, NEW winners \in WinnerSets, ConfirmAward(winners),
         award'.gated
  PROVE  AwardAsReviewed'
<1> DEFINE bought == [s \in Suppliers |-> IF s \in winners THEN quotes[s].no ELSE 0]
<1>1. PICK i \in Gate(AwardPayload(winners)) :
        award' = [winners |-> winners, quotes |-> bought,
                  gated |-> required["award"], review |-> i]
  BY DEF ConfirmAward
<1>2. /\ award'.winners = winners /\ award'.review = i /\ required["award"]
      /\ award'.quotes = bought
  <2> HIDE DEF bought
  <2> QED BY <1>1
<1>3. i \in DOMAIN approvals /\ Usable(i, AwardPayload(winners))
  BY <1>2 DEF Gate, AwardPayload
<1>4. AwardApproved(i) /\ approvals[i].payload.body = winners
  BY <1>3 DEF Usable, AwardPayload, AwardApproved
<1>5. PICK k : ShownAs(i, k)
  BY <1>3, <1>4 DEF HeldInv, ApprovedWasShown
<1>6. UNCHANGED seen
  BY DEF ConfirmAward
<1>7. \A s \in winners : bought[s] = quotes[s].no
  BY DEF WinnerSets
<1> HIDE DEF bought
<1> QED BY <1>2, <1>4, <1>5, <1>6, <1>7 DEF ShownAs, AwardAsReviewed

LEMMA AwardStaysAsReviewed ==
  ASSUME HeldInv, [Next]_vars
  PROVE  AwardAsReviewed'
<1>1. CASE UNCHANGED award
  <2>1. \A k \in DOMAIN seen : k \in DOMAIN seen' /\ seen'[k] = seen[k]
    BY HistoryGrows DEF HeldInv, ReviewInv
  <2> QED BY <1>1, <2>1 DEF HeldInv, AwardAsReviewed
<1>2. ASSUME NEW winners \in WinnerSets, ConfirmAward(winners)
      PROVE  AwardAsReviewed'
  BY <1>2, AwardsBuyWhatWasShown DEF AwardAsReviewed
<1> QED
  BY <1>1, <1>2
  DEF Next, vars, Govern, unlessGate, RequestAward, RequestIssue, DecideApproval,
      ReviseQuote, UpdateTerms, SubmitQuote, PassDeadline, ReadState,
      PrepareIssue, SendOrder, MarkDelivery, Stop, SupplierDecide

(* An award under the policy buys the very revisions its approver was      *)
(* shown, as long as no supplier revises a quote that an approved award    *)
(* would buy: the approval's fingerprint leaves out nothing else that an   *)
(* award takes from the quotes.                                            *)
THEOREM HeldQuotesAreAwardedAsReviewed ==
  Spec /\ [][QuotesHold]_vars => []AwardAsReviewed
<1> DEFINE Shown == ApprovedWasShown /\ AwardAsReviewed
<1>1. Init => Shown
  BY DEF Init, GateInit, NoAward, ApprovedWasShown, AwardAsReviewed
<1>2. ReviewInv /\ Shown /\ [Next]_vars /\ [QuotesHold]_vars => Shown'
  <2> SUFFICES ASSUME ReviewInv, Shown, [Next]_vars, [QuotesHold]_vars
               PROVE  Shown'
    OBVIOUS
  <2>1. HeldInv
    BY DEF HeldInv
  <2>2. AwardAsReviewed'
    BY <2>1, AwardStaysAsReviewed
  <2>3. CASE QuotesHold
    BY <2>1, <2>2, <2>3, ApprovedStaysShown
  <2>4. CASE UNCHANGED vars
    BY <2>2, <2>4 DEF vars, gateVars, ApprovedWasShown, AwardApproved, ShownAs
  <2> QED BY <2>3, <2>4
<1>3. Shown => AwardAsReviewed
  OBVIOUS
<1> HIDE DEF Shown
<1> QED BY <1>1, <1>2, <1>3, ReviewInvAlways, PTL DEF Spec
===============================================================================
