---------------------------- MODULE RfqOrderProofs ----------------------------
(***************************************************************************)
(* What a purchase order goes through, for any instance: its versions and  *)
(* its draft stay in step, its links open the version they were mailed     *)
(* for, a confirmed order is final and has the terms that were issued, and *)
(* award and orders keep the contract of OrderContract.                    *)
(*                                                                         *)
(* The proofs rest on one lemma, OrderMoves: of all the steps of the       *)
(* procurement, an order sees only five kinds.                             *)
(***************************************************************************)
EXTENDS RfqReviewProofs

(* An order exists from the award on, and has versions only then.          *)
OrdersFollowAward ==
  \A s \in Suppliers :
    /\ campaign = "collecting" => drafts[s].status = "none"
    /\ drafts[s].status = "none" => Len(versions[s]) = 0

(* While an order is issued or confirmed its draft has the terms of its    *)
(* last version.                                                           *)
IssuedTermsAgree ==
  \A s \in Suppliers :
    drafts[s].status \in {"issued", "supplier_confirmed"}
      => drafts[s].terms = versions[s][Len(versions[s])].terms

(* The number a window has read is at most the next one: it grows stale,   *)
(* but never names a version that was not thought of yet.                  *)
ReadsNameTheNextVersion ==
  \A w \in Windows :
    window[w].step = "read"
      => window[w].next \in 1 .. Len(versions[window[w].po]) + 1

(* Nobody holds the link of an order that is about to be mailed, and no    *)
(* other window is at work on the same version.                            *)
MailsAreFirst ==
  /\ \A l \in links : l[2] \in DOMAIN versions[l[1]]
  /\ \A w \in Windows :
       window[w].step = "send" =>
         /\ <<window[w].po, window[w].next>> \notin links
         /\ \A x \in Windows \ {w} :
              window[x].step \in {"send", "mark"}
                => <<window[x].po, window[x].next>>
                     # <<window[w].po, window[w].next>>

OrderInv ==
  /\ TypeOK /\ WindowsHaveOrders
  /\ OrdersFollowAward
  /\ DraftFollowsVersions
  /\ IssuedTermsAgree
  /\ LinkOpensItsVersion
  /\ ReadsNameTheNextVersion
  /\ MailsAreFirst
  /\ OnlyOpenOrdersAreMailed

-----------------------------------------------------------------------------
(* The kinds of step an order sees.                                        *)
SameButStatus(a, b) == b.token = a.token /\ b.terms = a.terms
SameVersions(s) ==
  /\ Len(versions'[s]) = Len(versions[s])
  /\ \A v \in 1 .. Len(versions[s]) :
       /\ SameButStatus(versions[s][v], versions'[s][v])
       /\ versions'[s][v].status = versions[s][v].status

Untouched(s) == drafts'[s] = drafts[s] /\ SameVersions(s)

Opened(s) ==
  /\ campaign = "collecting" /\ campaign' = "awarded"
  /\ drafts'[s].status = "draft"
  /\ SameVersions(s)

Edited(s) ==
  /\ campaign' = campaign
  /\ drafts[s].status \in Editable
  /\ drafts'[s].status = "draft"
  /\ SameVersions(s)

Issued(s, w) ==
  LET last == Len(versions[s])
  IN  /\ PrepareIssue(w) /\ window[w].po = s /\ window[w].next = last + 1
      /\ drafts[s].status \in Editable
      /\ drafts'[s].status = "issued" /\ drafts'[s].terms = drafts[s].terms
      /\ Len(versions'[s]) = last + 1
      /\ \A v \in 1 .. last :
           /\ SameButStatus(versions[s][v], versions'[s][v])
           /\ versions'[s][v].status =
                IF versions[s][v].status
                     \in {"issued", "supplier_rejected", "change_requested"}
                THEN "superseded" ELSE versions[s][v].status
      /\ versions'[s][last + 1].status = "issued"
      /\ versions'[s][last + 1].token = last + 1
      /\ versions'[s][last + 1].terms = drafts[s].terms

Answered(s, v, decision) ==
  /\ <<s, versions[s][v].token>> \in links
  /\ versions[s][v].status = "issued"
  /\ Len(versions'[s]) = Len(versions[s])
  /\ \A n \in 1 .. Len(versions[s]) :
       /\ SameButStatus(versions[s][n], versions'[s][n])
       /\ versions'[s][n].status =
            IF n = v THEN decision ELSE versions[s][n].status
  /\ drafts'[s].status = decision
  /\ decision = "supplier_confirmed" => drafts'[s].terms = versions[s][v].terms

-----------------------------------------------------------------------------
LEMMA LinkTokens ==
  ASSUME LinkOpensItsVersion, NEW s \in Suppliers, NEW v \in DOMAIN versions[s]
  PROVE  versions[s][v].token = v
<1>1. <<s, v>> \in Issues
  BY DEF Issues
<1> QED BY <1>1 DEF LinkOpensItsVersion

(* FreshToken turns a window away whose number was issued meanwhile.       *)
LEMMA IssuesTheNextNumber ==
  ASSUME OrderInv, NEW w \in Windows, PrepareIssue(w)
  PROVE  /\ window[w].po \in Suppliers
         /\ window[w].next = Len(versions[window[w].po]) + 1
<1> DEFINE s == window[w].po
<1>1. s \in Suppliers
  BY DEF OrderInv, PrepareIssue, WindowsHaveOrders
<1>2. window[w].next \in 1 .. Len(versions[s]) + 1
  BY DEF OrderInv, PrepareIssue, ReadsNameTheNextVersion
<1>3. DOMAIN versions[s] = 1 .. Len(versions[s]) /\ Len(versions[s]) \in Nat
  BY <1>1, OrderTypes DEF OrderInv
<1>4. window[w].next \notin DOMAIN versions[s]
  <2>1. \A v \in DOMAIN versions[s] : versions[s][v].token # window[w].next
    BY DEF PrepareIssue, FreshToken
  <2>2. \A v \in DOMAIN versions[s] : versions[s][v].token = v
    BY <1>1, LinkTokens DEF OrderInv
  <2> QED BY <2>1, <2>2
<1> QED BY <1>1, <1>2, <1>3, <1>4

LEMMA IssueMoves ==
  ASSUME OrderInv, NEW w \in Windows, PrepareIssue(w), NEW s \in Suppliers
  PROVE  Untouched(s) \/ Issued(s, w)
<1>1. TypeOK /\ WindowsHaveOrders /\ window[w].po \in Suppliers
  BY IssuesTheNextNumber DEF OrderInv
<1>2. PICK i \in Gate(PoPayload(window[w].po, window[w].due)) :
        versions' = [versions EXCEPT ![window[w].po] =
                       Append(Superseded(window[w].po), NewVersion(w, i))]
  BY DEF PrepareIssue
<1>3. drafts' = [drafts EXCEPT ![window[w].po] =
                   [status |-> "issued", terms |-> drafts[window[w].po].terms]]
  BY DEF PrepareIssue
<1>4. CASE s # window[w].po
  <2>1. versions'[s] = versions[s] /\ drafts'[s] = drafts[s]
    BY <1>1, <1>2, <1>3, <1>4, OrderTypes, Zenon
  <2> QED BY <2>1 DEF Untouched, SameVersions, SameButStatus
<1>5. CASE s = window[w].po
  <2> DEFINE last == Len(versions[s])
             new == NewVersion(w, i)
  <2>1. drafts'[s] = [status |-> "issued", terms |-> drafts[s].terms]
    BY <1>1, <1>3, <1>5, OrderTypes, Zenon
  <2>2. versions'[s] = Append(Superseded(s), new)
    BY <1>1, <1>2, <1>5, OrderTypes, Zenon
  <2>3. /\ Superseded(s) \in Seq(Versions) /\ Len(Superseded(s)) = last
        /\ last \in Nat /\ DOMAIN versions[s] = 1 .. last
    BY <1>1, SupersededTyped, OrderTypes
  <2>4. /\ Len(versions'[s]) = last + 1
        /\ versions'[s][last + 1] = new
        /\ \A v \in 1 .. last : versions'[s][v] = Superseded(s)[v]
    <3> HIDE DEF new
    <3> QED BY <2>2, <2>3
  <2>5. new.status = "issued" /\ new.token = window[w].next
          /\ new.terms = drafts[s].terms
    BY <1>5 DEF NewVersion
  <2>6. \A a \in Versions :
          LET b == [a EXCEPT !.status = "superseded"]
          IN  SameButStatus(a, b) /\ b.status = "superseded" /\ SameButStatus(a, a)
    BY DEF Versions, SameButStatus
  <2>7. \A v \in 1 .. last :
          /\ SameButStatus(versions[s][v], Superseded(s)[v])
          /\ Superseded(s)[v].status =
               IF versions[s][v].status
                    \in {"issued", "supplier_rejected", "change_requested"}
               THEN "superseded" ELSE versions[s][v].status
    <3> SUFFICES ASSUME NEW v \in DOMAIN versions[s]
                 PROVE  /\ SameButStatus(versions[s][v], Superseded(s)[v])
                        /\ Superseded(s)[v].status =
                             IF versions[s][v].status
                                  \in {"issued", "supplier_rejected", "change_requested"}
                             THEN "superseded" ELSE versions[s][v].status
      BY <2>3
    <3>1. versions[s][v] \in Versions
      BY <1>1, VersionsTyped
    <3>2. Superseded(s)[v] =
            IF versions[s][v].status
                 \in {"issued", "supplier_rejected", "change_requested"}
            THEN [versions[s][v] EXCEPT !.status = "superseded"]
            ELSE versions[s][v]
      BY Zenon DEF Superseded
    <3> QED BY <2>6, <3>1, <3>2
  <2>8. drafts[s].status \in Editable /\ window[w].next = last + 1
    BY <1>5, IssuesTheNextNumber DEF PrepareIssue, MayIssue
  <2>9. drafts'[s].status = "issued" /\ drafts'[s].terms = drafts[s].terms
    BY <2>1
  <2> HIDE DEF new
  <2>10. /\ versions'[s][last + 1].status = "issued"
         /\ versions'[s][last + 1].token = last + 1
         /\ versions'[s][last + 1].terms = drafts[s].terms
    BY <2>4, <2>5, <2>8
  <2>11. \A v \in 1 .. last :
          /\ SameButStatus(versions[s][v], versions'[s][v])
          /\ versions'[s][v].status =
               IF versions[s][v].status
                    \in {"issued", "supplier_rejected", "change_requested"}
               THEN "superseded" ELSE versions[s][v].status
    BY <2>4, <2>7
  <2> QED
    BY <1>5, <2>4, <2>8, <2>9, <2>10, <2>11, Zenon DEF Issued
<1> QED BY <1>4, <1>5

LEMMA MarkMoves ==
  ASSUME OrderInv, NEW w \in Windows, MarkDelivery(w), NEW s \in Suppliers
  PROVE  Untouched(s)
<1> DEFINE r == window[w].po
           n == window[w].next
           row == [versions[r][n] EXCEPT !.delivery = window[w].result]
<1>1. TypeOK /\ r \in Suppliers /\ n \in DOMAIN versions[r]
  BY DEF OrderInv, MarkDelivery, WindowsHaveOrders
<1>2. drafts'[s] = drafts[s]
  BY DEF MarkDelivery
<1>3. CASE versions' = versions
  BY <1>2, <1>3 DEF Untouched, SameVersions, SameButStatus
<1>4. CASE versions' = WithVersion(r, n, row)
  <2>1. versions[r][n] \in Versions
    BY <1>1, VersionsTyped
  <2>2. \A a \in Versions : \A d :
          LET b == [a EXCEPT !.delivery = d]
          IN  SameButStatus(a, b) /\ b.status = a.status
    BY DEF Versions, SameButStatus
  <2>3. SameButStatus(versions[r][n], row) /\ row.status = versions[r][n].status
    BY <2>1, <2>2, Zenon
  <2> HIDE DEF row
  <2>4. /\ versions'[s] = IF s = r THEN [versions[s] EXCEPT ![n] = row]
                          ELSE versions[s]
    BY <1>1, <1>4, OrderTypes DEF WithVersion
  <2>5. /\ Len(versions'[s]) = Len(versions[s])
        /\ \A v \in DOMAIN versions[s] :
             versions'[s][v] = IF s = r /\ v = n THEN row ELSE versions[s][v]
    BY <1>1, <2>4, VersionsTyped
  <2>6. SameVersions(s)
    BY <1>1, <2>3, <2>5, OrderTypes DEF SameVersions, SameButStatus
  <2> QED BY <1>2, <2>6 DEF Untouched
<1> QED BY <1>3, <1>4 DEF MarkDelivery

LEMMA AnswerMoves ==
  ASSUME OrderInv, NEW r \in Suppliers, NEW n \in DOMAIN versions[r],
         NEW decision \in Decisions, NEW date \in Terms \cup {NoPo},
         SupplierDecide(r, n, decision, date), NEW s \in Suppliers
  PROVE  Untouched(s) \/ (s = r /\ Answered(s, n, decision))
<1> DEFINE row == [versions[r][n] EXCEPT !.status = decision]
           terms == IF decision # "supplier_confirmed" THEN drafts[r].terms
                    ELSE IF date = NoPo THEN versions[r][n].terms
                    ELSE date
<1>1. TypeOK
  BY DEF OrderInv
<1>2. versions[r][n] \in Versions
  BY <1>1, VersionsTyped
<1>3. versions' = WithVersion(r, n, row)
  BY DEF SupplierDecide
<1>4. drafts' = [drafts EXCEPT ![r] = [status |-> decision, terms |-> terms]]
  BY DEF SupplierDecide
<1>5. CASE s # r
  <2>1. versions'[s] = versions[s]
    BY <1>1, <1>3, <1>5, OrderTypes, Zenon DEF WithVersion
  <2>2. drafts'[s] = drafts[s]
    BY <1>1, <1>4, <1>5, OrderTypes, Zenon
  <2> QED BY <2>1, <2>2 DEF Untouched, SameVersions, SameButStatus
<1>6. CASE s = r
  <2>1. drafts'[s] = [status |-> decision, terms |-> terms]
    BY <1>1, <1>4, <1>6, OrderTypes, Zenon
  <2>2. decision = "supplier_confirmed" => terms = versions[r][n].terms
    BY DEF SupplierDecide, DateAgrees
  <2>3. \A a \in Versions :
          LET b == [a EXCEPT !.status = decision]
          IN  SameButStatus(a, b) /\ b.status = decision
    BY DEF Versions, SameButStatus
  <2>4. SameButStatus(versions[s][n], row) /\ row.status = decision
    BY <1>2, <1>6, <2>3, Zenon
  <2>5. /\ <<s, versions[s][n].token>> \in links
        /\ versions[s][n].status = "issued"
    BY <1>6 DEF SupplierDecide
  <2> HIDE DEF row, terms
  <2>6. versions'[s] = [versions[s] EXCEPT ![n] = row]
    BY <1>1, <1>3, <1>6, OrderTypes, Zenon DEF WithVersion
  <2>7. /\ Len(versions'[s]) = Len(versions[s])
        /\ \A v \in DOMAIN versions[s] :
             versions'[s][v] = IF v = n THEN row ELSE versions[s][v]
    BY <1>1, <1>6, <2>6, VersionsTyped
  <2>8. /\ drafts'[s].status = decision
        /\ decision = "supplier_confirmed" => drafts'[s].terms = versions[s][n].terms
    BY <1>6, <2>1, <2>2
  <2>9. \A v \in 1 .. Len(versions[s]) :
          /\ SameButStatus(versions[s][v], versions'[s][v])
          /\ versions'[s][v].status =
               IF v = n THEN decision ELSE versions[s][v].status
    BY <1>1, <2>4, <2>7, OrderTypes DEF SameButStatus
  <2> QED BY <1>6, <2>5, <2>7, <2>8, <2>9 DEF Answered
<1> QED BY <1>5, <1>6

(* An order sees five kinds of step; who takes it does not matter to it.   *)
LEMMA OrderMoves ==
  ASSUME OrderInv, [Next]_vars, NEW s \in Suppliers
  PROVE  \/ Untouched(s)
         \/ Opened(s)
         \/ Edited(s)
         \/ \E w \in Windows : Issued(s, w)
         \/ \E v \in DOMAIN versions[s], decision \in Decisions :
              Answered(s, v, decision)
<1>1. TypeOK
  BY DEF OrderInv
<1>2. CASE UNCHANGED <<drafts, versions>>
  BY <1>2 DEF Untouched, SameVersions, SameButStatus
<1>3. ASSUME NEW winners \in WinnerSets, ConfirmAward(winners)
      PROVE  Untouched(s) \/ Opened(s)
  <2>1. drafts'[s] = IF s \in winners
                     THEN [status |-> "draft", terms |-> quotes[s].terms]
                     ELSE drafts[s]
    BY <1>3 DEF ConfirmAward
  <2>2. UNCHANGED versions /\ campaign = "collecting" /\ campaign' = "awarded"
    BY <1>3 DEF ConfirmAward
  <2> QED BY <2>1, <2>2 DEF Untouched, Opened, SameVersions, SameButStatus
<1>4. ASSUME NEW r \in Suppliers, NEW t \in Terms, UpdateTerms(r, t)
      PROVE  Untouched(s) \/ Edited(s)
  <2>1. /\ drafts[r].status \in Editable
        /\ drafts' = [drafts EXCEPT ![r] = [status |-> "draft", terms |-> t]]
        /\ UNCHANGED versions /\ UNCHANGED campaign
    BY <1>4 DEF UpdateTerms
  <2>2. drafts'[s] = drafts[s]
          \/ (s = r /\ drafts'[s] = [status |-> "draft", terms |-> t])
    BY <1>1, <2>1, OrderTypes, Zenon
  <2> QED BY <2>1, <2>2 DEF Untouched, Edited, SameVersions, SameButStatus
<1>5. ASSUME NEW w \in Windows, PrepareIssue(w)
      PROVE  Untouched(s) \/ Issued(s, w)
  BY <1>5, IssueMoves
<1>6. ASSUME NEW w \in Windows, MarkDelivery(w)
      PROVE  Untouched(s)
  BY <1>6, MarkMoves
<1>7. ASSUME NEW r \in Suppliers, NEW n \in DOMAIN versions[r],
             NEW decision \in Decisions, NEW date \in Terms \cup {NoPo},
             SupplierDecide(r, n, decision, date)
      PROVE  Untouched(s) \/ (s = r /\ Answered(s, n, decision))
  BY <1>7, AnswerMoves
<1> QED
  BY <1>2, <1>3, <1>4, <1>5, <1>6, <1>7
  DEF Next, vars, Govern, unlessGate, RequestAward, RequestIssue, DecideApproval,
      ReviseQuote, SubmitQuote, PassDeadline, ReadState, SendOrder, Stop

-----------------------------------------------------------------------------
(* What one order's step does to its part of the invariant.                *)
OrderFollows(s) ==
  LET last == Len(versions[s])
      open == {"issued", "supplier_confirmed"}
  IN  /\ campaign = "collecting" => drafts[s].status = "none"
      /\ drafts[s].status = "none" => last = 0
      /\ \A v \in 1 .. last - 1 : versions[s][v].status = "superseded"
      /\ drafts[s].status \in open \cup {"supplier_rejected", "change_requested"}
            => last > 0 /\ versions[s][last].status = drafts[s].status
      /\ last > 0 /\ versions[s][last].status \in open
            => drafts[s].status = versions[s][last].status
      /\ drafts[s].status \in open => drafts[s].terms = versions[s][last].terms

LEMMA OrdersFollow ==
  ASSUME OrderInv, NEW s \in Suppliers
  PROVE  OrderFollows(s)
BY DEF OrderInv, OrderFollows, OrdersFollowAward, DraftFollowsVersions,
       IssuedTermsAgree

(* An order that leaves the state before the award has the award's step,   *)
(* for nothing else works on an order that does not exist.                 *)
LEMMA CampaignMoves ==
  ASSUME [Next]_vars
  PROVE  campaign' = campaign
           \/ (campaign = "collecting" /\ campaign' = "awarded")
BY DEF Next, vars, Govern, unlessGate, RequestAward, RequestIssue,
       DecideApproval, ConfirmAward, ReviseQuote, UpdateTerms, SubmitQuote,
       PassDeadline, ReadState, PrepareIssue, SendOrder, MarkDelivery, Stop,
       SupplierDecide

LEMMA AnswersCloseTheLast ==
  ASSUME OrderInv, NEW s \in Suppliers, NEW v \in DOMAIN versions[s],
         versions[s][v].status = "issued"
  PROVE  v = Len(versions[s]) /\ drafts[s].status = "issued"
<1>1. OrderFollows(s)
  BY OrdersFollow
<1>2. Len(versions[s]) \in Nat /\ v \in 1 .. Len(versions[s])
  BY OrderTypes DEF OrderInv
<1> QED BY <1>1, <1>2 DEF OrderFollows

LEMMA OrderStaysInStep ==
  ASSUME OrderInv, [Next]_vars, NEW s \in Suppliers
  PROVE  OrderFollows(s)'
<1>1. OrderFollows(s)
  BY OrdersFollow
<1>2. Len(versions[s]) \in Nat /\ DOMAIN versions[s] = 1 .. Len(versions[s])
  BY OrderTypes DEF OrderInv
<1>3. campaign' = campaign
        \/ (campaign = "collecting" /\ campaign' = "awarded")
  BY CampaignMoves
<1>4. CASE Untouched(s)
  BY <1>1, <1>2, <1>3, <1>4
  DEF Untouched, SameVersions, SameButStatus, OrderFollows
<1>5. CASE Opened(s) \/ Edited(s)
  BY <1>1, <1>2, <1>5
  DEF Opened, Edited, SameVersions, SameButStatus, OrderFollows, Editable
<1>6. ASSUME NEW w \in Windows, Issued(s, w)
      PROVE  OrderFollows(s)'
  <2>1. campaign' = "awarded" \/ campaign' = campaign
    BY <1>3
  <2>2. drafts[s].status # "none" /\ drafts[s].status \notin {"issued", "supplier_confirmed"}
    BY <1>6 DEF Issued, Editable
  <2>3. \A v \in 1 .. Len(versions[s]) : versions'[s][v].status = "superseded"
    <3> SUFFICES ASSUME NEW v \in 1 .. Len(versions[s])
                 PROVE  versions'[s][v].status = "superseded"
      OBVIOUS
    <3>1. CASE v < Len(versions[s])
      BY <1>1, <1>2, <1>6, <3>1 DEF Issued, OrderFollows
    <3>2. CASE v = Len(versions[s])
      <4>1. versions[s][v].status \in VersionStatus
        BY <1>2, VersionsTyped DEF OrderInv, Versions
      <4> QED BY <1>1, <1>2, <1>6, <2>2, <3>2, <4>1
              DEF Issued, OrderFollows, VersionStatus
    <3> QED BY <1>2, <3>1, <3>2
  <2> QED BY <1>1, <1>2, <1>6, <2>1, <2>2, <2>3 DEF Issued, OrderFollows
<1>7. ASSUME NEW v \in DOMAIN versions[s], NEW decision \in Decisions,
             Answered(s, v, decision)
      PROVE  OrderFollows(s)'
  <2>1. v = Len(versions[s]) /\ drafts[s].status = "issued"
    BY <1>7, AnswersCloseTheLast DEF Answered
  <2> QED
    BY <1>1, <1>2, <1>3, <1>7, <2>1
    DEF Answered, OrderFollows, Decisions, SameButStatus
<1> QED BY <1>4, <1>5, <1>6, <1>7, OrderMoves

LEMMA LinksOpenTheirs ==
  ASSUME OrderInv, [Next]_vars
  PROVE  LinkOpensItsVersion'
<1> SUFFICES ASSUME NEW s \in Suppliers, NEW v \in DOMAIN versions'[s]
             PROVE  versions'[s][v].token = v
  BY DEF LinkOpensItsVersion, Issues
<1>1. TypeOK /\ TypeOK'
  BY NextTyped DEF OrderInv
<1>2. /\ DOMAIN versions[s] = 1 .. Len(versions[s]) /\ Len(versions[s]) \in Nat
      /\ DOMAIN versions'[s] = 1 .. Len(versions'[s])
  BY <1>1, OrderTypes DEF TypeOK
<1>3. \A n \in 1 .. Len(versions[s]) : versions[s][n].token = n
  BY <1>2, LinkTokens DEF OrderInv
<1>4. CASE Untouched(s) \/ Opened(s) \/ Edited(s)
  BY <1>2, <1>3, <1>4 DEF Untouched, Opened, Edited, SameVersions, SameButStatus
<1>5. ASSUME NEW w \in Windows, Issued(s, w)
      PROVE  versions'[s][v].token = v
  <2> DEFINE last == Len(versions[s])
  <2>1. v \in 1 .. (last + 1) /\ last \in Nat
    BY <1>2, <1>5 DEF Issued
  <2>2. versions'[s][last + 1].token = last + 1
    BY <1>5 DEF Issued
  <2>3. ASSUME NEW n \in 1 .. last PROVE versions'[s][n].token = n
    BY <1>3, <1>5 DEF Issued, SameButStatus
  <2> QED BY <2>1, <2>2, <2>3
<1>6. ASSUME NEW n \in DOMAIN versions[s], NEW decision \in Decisions,
             Answered(s, n, decision)
      PROVE  versions'[s][v].token = v
  BY <1>2, <1>3, <1>6 DEF Answered, SameButStatus
<1> QED BY <1>4, <1>5, <1>6, OrderMoves

-----------------------------------------------------------------------------
(* What a window and the links go through in one step.                     *)
SameJob(x) == window'[x].po = window[x].po /\ window'[x].next = window[x].next

LEMMA WindowMoves ==
  ASSUME OrderInv, [Next]_vars, NEW x \in Windows
  PROVE  \/ window'[x] = window[x]
         \/ window'[x].step = "idle"
         \/ /\ window'[x].step = "read" /\ window'[x].po \in Suppliers
            /\ window'[x].next = Len(versions[window'[x].po]) + 1
            /\ UNCHANGED <<versions, links>>
         \/ /\ PrepareIssue(x) /\ window'[x].step = "send" /\ SameJob(x)
            /\ UNCHANGED links
         \/ /\ SendOrder(x) /\ window'[x].step = "mark" /\ SameJob(x)
            /\ UNCHANGED versions
<1> DEFINE Goal ==
         \/ window'[x] = window[x]
         \/ window'[x].step = "idle"
         \/ /\ window'[x].step = "read" /\ window'[x].po \in Suppliers
            /\ window'[x].next = Len(versions[window'[x].po]) + 1
            /\ UNCHANGED <<versions, links>>
         \/ /\ PrepareIssue(x) /\ window'[x].step = "send" /\ SameJob(x)
            /\ UNCHANGED links
         \/ /\ SendOrder(x) /\ window'[x].step = "mark" /\ SameJob(x)
            /\ UNCHANGED versions
<1>1. /\ window \in [Windows -> WindowStates]
      /\ window[x] \in WindowStates
  BY DEF OrderInv, TypeOK
<1>2. CASE UNCHANGED window
  BY <1>2
<1>3. ASSUME NEW w \in Windows, NEW s \in Suppliers, NEW due \in AnyDeadline,
             ReadState(w, s, due)
      PROVE  Goal
  <2>1. w = x => window'[x] = [step |-> "read", po |-> s,
                   next |-> Len(versions[s]) + 1, due |-> due, result |-> "none"]
    BY <1>1, <1>3, Zenon DEF ReadState
  <2>2. w # x => window'[x] = window[x]
    BY <1>1, <1>3, Zenon DEF ReadState
  <2> QED BY <1>3, <2>1, <2>2 DEF ReadState
<1>4. ASSUME NEW w \in Windows, PrepareIssue(w)
      PROVE  Goal
  <2>1. window'[x] = window[x] \/ w = x
    BY <1>1, <1>4, Zenon DEF PrepareIssue
  <2>2. window'[w] = Idle \/ window'[w] = [window[w] EXCEPT !.step = "send"]
    BY <1>1, <1>4, Zenon DEF PrepareIssue
  <2>3. Idle.step = "idle"
    BY DEF Idle
  <2>4. \A a \in WindowStates :
          LET b == [a EXCEPT !.step = "send"]
          IN  b.step = "send" /\ b.po = a.po /\ b.next = a.next
    BY DEF WindowStates
  <2>5. UNCHANGED links
    BY <1>4 DEF PrepareIssue
  <2> QED BY <1>1, <1>4, <2>1, <2>2, <2>3, <2>4, <2>5, Zenon DEF SameJob
<1>5. ASSUME NEW w \in Windows, SendOrder(w)
      PROVE  Goal
  <2>1. \E result : window' = [window EXCEPT ![w] = Sent(window[w], result)]
    BY <1>5, Zenon DEF SendOrder
  <2>2. window'[x] = window[x]
          \/ (w = x /\ \E result : window'[x] = Sent(window[x], result))
    BY <1>1, <2>1, Zenon
  <2>3. \A a \in WindowStates : \A result :
          LET b == Sent(a, result)
          IN  b.step = "mark" /\ b.po = a.po /\ b.next = a.next
    BY DEF WindowStates, Sent
  <2>4. UNCHANGED versions
    BY <1>5 DEF SendOrder
  <2>5. CASE window'[x] = window[x]
    BY <2>5
  <2>6. CASE w = x /\ \E result : window'[x] = Sent(window[x], result)
    <3>1. PICK result : window'[x] = Sent(window[x], result)
      BY <2>6
    <3>2. LET b == Sent(window[x], result)
          IN  b.step = "mark" /\ b.po = window[x].po /\ b.next = window[x].next
      BY <1>1, <2>3
    <3>3. window'[x].step = "mark" /\ SameJob(x)
      BY <3>1, <3>2 DEF SameJob
    <3>4. SendOrder(x)
      BY <1>5, <2>6
    <3> QED BY <2>4, <3>3, <3>4
  <2> QED BY <2>2, <2>5, <2>6
<1>6. ASSUME NEW w \in Windows, MarkDelivery(w) \/ Stop(w)
      PROVE  Goal
  <2>1. window'[x] = window[x] \/ window'[x] = Idle
    BY <1>1, <1>6, Zenon DEF MarkDelivery, Stop
  <2> QED BY <2>1 DEF Idle
<1> QED
  BY <1>2, <1>3, <1>4, <1>5, <1>6
  DEF Next, vars, Govern, unlessGate, RequestAward, RequestIssue, DecideApproval,
      ConfirmAward, ReviseQuote, UpdateTerms, SubmitQuote, PassDeadline,
      SupplierDecide

(* A link leaves with a window that has issued its version and is mailing  *)
(* or has mailed it.                                                       *)
LEMMA LinksMove ==
  ASSUME OrderInv, [Next]_vars, NEW l \in links', l \notin links
  PROVE  /\ UNCHANGED <<drafts, campaign>>
         /\ \E w \in Windows :
              /\ window[w].step \in {"send", "mark"}
              /\ window'[w].step # "send"
              /\ \A x \in Windows \ {w} : window'[x] = window[x]
              /\ l = <<window[w].po, window[w].next>>
<1>1. window \in [Windows -> WindowStates]
  BY DEF OrderInv, TypeOK
<1>2. ASSUME NEW w \in Windows, SendOrder(w)
      PROVE  /\ UNCHANGED <<drafts, campaign>>
             /\ window[w].step \in {"send", "mark"} /\ window'[w].step # "send"
             /\ \A x \in Windows \ {w} : window'[x] = window[x]
             /\ l = <<window[w].po, window[w].next>>
  <2>1. \E result : window' = [window EXCEPT ![w] = Sent(window[w], result)]
    BY <1>2, Zenon DEF SendOrder
  <2>2. \E result : window'[w] = Sent(window[w], result)
    BY <1>1, <2>1, Zenon
  <2>3. \A a \in WindowStates : \A result : Sent(a, result).step = "mark"
    BY DEF WindowStates, Sent
  <2>4. window'[w].step = "mark"
    <3>1. PICK result : window'[w] = Sent(window[w], result)
      BY <2>2
    <3>2. window[w] \in WindowStates
      BY <1>1
    <3>3. Sent(window[w], result).step = "mark"
      BY <2>3, <3>2
    <3> QED BY <3>1, <3>3
  <2>5. \A x \in Windows \ {w} : window'[x] = window[x]
    BY <1>1, <2>1, Zenon
  <2>6. l = <<window[w].po, window[w].next>>
    BY <1>2, Zenon DEF SendOrder
  <2> QED BY <1>2, <2>4, <2>5, <2>6 DEF SendOrder
<1>3. ASSUME NEW w \in Windows, MarkDelivery(w)
      PROVE  /\ UNCHANGED <<drafts, campaign>>
             /\ window[w].step \in {"send", "mark"} /\ window'[w].step # "send"
             /\ \A x \in Windows \ {w} : window'[x] = window[x]
             /\ l = <<window[w].po, window[w].next>>
  <2>1. window' = [window EXCEPT ![w] = Idle] /\ Idle.step # "send"
    BY <1>3 DEF MarkDelivery, Idle
  <2>2. l = <<window[w].po, window[w].next>>
    BY <1>3, Zenon DEF MarkDelivery
  <2> QED BY <1>1, <1>3, <2>1, <2>2 DEF MarkDelivery
<1>4. \E w \in Windows : SendOrder(w) \/ MarkDelivery(w)
  <2>1. ~ UNCHANGED links
    OBVIOUS
  <2> QED
    BY <2>1 DEF Next, vars, Govern, unlessGate, RequestAward, RequestIssue,
        DecideApproval, ConfirmAward, ReviseQuote, UpdateTerms, SubmitQuote,
        PassDeadline, ReadState, PrepareIssue, Stop, SupplierDecide
<1> QED BY <1>2, <1>3, <1>4, Zenon

LEMMA ReadsStay ==
  ASSUME OrderInv, [Next]_vars
  PROVE  ReadsNameTheNextVersion'
<1> SUFFICES ASSUME NEW x \in Windows, window'[x].step = "read"
             PROVE  window'[x].next \in 1 .. Len(versions'[window'[x].po]) + 1
  BY DEF ReadsNameTheNextVersion
<1>1. TypeOK /\ WindowsHaveOrders /\ TypeOK'
  BY NextTyped DEF OrderInv
<1>2. ASSUME NEW s \in Suppliers
      PROVE  /\ Len(versions[s]) \in Nat /\ Len(versions'[s]) \in Nat
             /\ Len(versions[s]) <= Len(versions'[s])
  <2>1. /\ DOMAIN versions[s] = 1 .. Len(versions[s]) /\ Len(versions[s]) \in Nat
        /\ DOMAIN versions'[s] = 1 .. Len(versions'[s]) /\ Len(versions'[s]) \in Nat
    BY <1>1 DEF TypeOK
  <2>2. DOMAIN versions[s] \subseteq DOMAIN versions'[s]
    BY <1>1, VersionsStay
  <2> QED BY <2>1, <2>2
<1>3. CASE window'[x] = window[x]
  <2>1. window[x].po \in Suppliers
    BY <1>1, <1>3 DEF WindowsHaveOrders
  <2>2. window[x].next \in 1 .. Len(versions[window[x].po]) + 1
    BY <1>3 DEF OrderInv, ReadsNameTheNextVersion
  <2> QED BY <1>2, <1>3, <2>1, <2>2
<1>4. CASE /\ window'[x].po \in Suppliers /\ UNCHANGED versions
           /\ window'[x].next = Len(versions[window'[x].po]) + 1
  BY <1>2, <1>4
<1> QED BY <1>3, <1>4, WindowMoves

LEMMA LinksHaveVersions ==
  ASSUME OrderInv, [Next]_vars, NEW l \in links'
  PROVE  l[2] \in DOMAIN versions'[l[1]]
<1>1. TypeOK /\ WindowsHaveOrders
  BY DEF OrderInv
<1>2. CASE l \in links
  <2>1. l[1] \in Suppliers
    BY <1>1, <1>2 DEF TypeOK
  <2>2. l[2] \in DOMAIN versions[l[1]]
    BY <1>2 DEF OrderInv, MailsAreFirst
  <2> QED BY <1>1, <2>1, <2>2, VersionsStay
<1>3. CASE l \notin links
  <2>1. PICK w \in Windows :
          /\ window[w].step \in {"send", "mark"}
          /\ l = <<window[w].po, window[w].next>>
    BY <1>3, LinksMove
  <2>2. /\ window[w].po \in Suppliers
        /\ window[w].next \in DOMAIN versions[window[w].po]
    BY <1>1, <2>1 DEF WindowsHaveOrders
  <2> QED BY <1>1, <2>1, <2>2, VersionsStay
<1> QED BY <1>2, <1>3

(* A window that comes to mail a version has just issued it: neither a     *)
(* link nor another window can have its number.                            *)
LEMMA NewMailsAreFirst ==
  ASSUME OrderInv, [Next]_vars, NEW w \in Windows, PrepareIssue(w),
         window'[w].step = "send", SameJob(w), UNCHANGED links
  PROVE  /\ <<window'[w].po, window'[w].next>> \notin links'
         /\ \A x \in Windows \ {w} :
              window'[x].step \in {"send", "mark"}
                => <<window'[x].po, window'[x].next>>
                     # <<window'[w].po, window'[w].next>>
<1> DEFINE s == window[w].po
<1>1. TypeOK /\ WindowsHaveOrders
  BY DEF OrderInv
<1>2. s \in Suppliers /\ window[w].next = Len(versions[s]) + 1
  BY IssuesTheNextNumber
<1>3. DOMAIN versions[s] = 1 .. Len(versions[s]) /\ Len(versions[s]) \in Nat
  BY <1>1, <1>2, OrderTypes
<1>4. window[w].next \notin DOMAIN versions[s]
  BY <1>2, <1>3
<1>5. \A l \in links : l[2] \in DOMAIN versions[l[1]]
  BY DEF OrderInv, MailsAreFirst
<1>6. <<window[w].po, window[w].next>> \notin links
  BY <1>4, <1>5
<1>7. \A x \in Windows \ {w} : window'[x] = window[x]
  <2>1. window \in [Windows -> WindowStates]
    BY <1>1 DEF TypeOK
  <2> QED BY <2>1, Zenon DEF PrepareIssue
<1>8. \A x \in Windows \ {w} :
        window[x].step \in {"send", "mark"}
          => window[x].next \in DOMAIN versions[window[x].po]
  BY <1>1 DEF WindowsHaveOrders
<1> QED BY <1>4, <1>6, <1>7, <1>8 DEF SameJob

LEMMA MailsStayFirst ==
  ASSUME OrderInv, [Next]_vars
  PROVE  MailsAreFirst'
<1> SUFFICES ASSUME NEW w \in Windows, window'[w].step = "send"
             PROVE  /\ <<window'[w].po, window'[w].next>> \notin links'
                    /\ \A x \in Windows \ {w} :
                         window'[x].step \in {"send", "mark"}
                           => <<window'[x].po, window'[x].next>>
                                # <<window'[w].po, window'[w].next>>
  BY LinksHaveVersions DEF MailsAreFirst
<1>1. CASE /\ PrepareIssue(w) /\ window'[w].step = "send" /\ SameJob(w)
           /\ UNCHANGED links
  BY <1>1, NewMailsAreFirst
<1>2. CASE window'[w] = window[w]
  <2>1. /\ window[w].step = "send"
        /\ <<window[w].po, window[w].next>> \notin links
        /\ \A x \in Windows \ {w} :
             window[x].step \in {"send", "mark"}
               => <<window[x].po, window[x].next>>
                    # <<window[w].po, window[w].next>>
    BY <1>2 DEF OrderInv, MailsAreFirst
  <2>2. <<window[w].po, window[w].next>> \notin links'
    <3> SUFFICES ASSUME <<window[w].po, window[w].next>> \in links'
                 PROVE  FALSE
      OBVIOUS
    <3>1. PICK x \in Windows :
            /\ window[x].step \in {"send", "mark"} /\ window'[x].step # "send"
            /\ <<window[w].po, window[w].next>> = <<window[x].po, window[x].next>>
      BY <2>1, LinksMove, Zenon
    <3> QED BY <1>2, <2>1, <3>1
  <2>3. ASSUME NEW x \in Windows \ {w}, window'[x].step \in {"send", "mark"}
        PROVE  <<window'[x].po, window'[x].next>> # <<window[w].po, window[w].next>>
    <3>1. CASE window'[x] = window[x]
      BY <2>1, <2>3, <3>1
    <3>2. CASE PrepareIssue(x) /\ window'[x].step = "send" /\ SameJob(x)
                 /\ UNCHANGED links
      <4>1. <<window'[w].po, window'[w].next>> # <<window'[x].po, window'[x].next>>
        BY <1>2, <2>1, <3>2, NewMailsAreFirst
      <4> QED BY <1>2, <4>1
    <3>3. CASE SendOrder(x) /\ SameJob(x)
      <4>1. window[x].step = "send"
        BY <3>3 DEF SendOrder
      <4> QED BY <2>1, <3>3, <4>1 DEF SameJob
    <3> QED BY <2>3, <3>1, <3>2, <3>3, WindowMoves
  <2> QED BY <1>2, <2>2, <2>3
<1> QED BY <1>1, <1>2, WindowMoves

LEMMA MailedOrdersStayOpen ==
  ASSUME OrderInv, [Next]_vars
  PROVE  OnlyOpenOrdersAreMailed'
<1> SUFFICES ASSUME NEW w \in Windows, window'[w].step = "send"
             PROVE  LET s == window'[w].po
                    IN  /\ window'[w].next = Len(versions'[s])
                        /\ versions'[s][window'[w].next].status = "issued"
  BY DEF OnlyOpenOrdersAreMailed
<1> DEFINE s == window[w].po
           last == Len(versions[s])
<1>1. TypeOK /\ WindowsHaveOrders
  BY DEF OrderInv
<1>2. CASE PrepareIssue(w) /\ SameJob(w)
  <2>1. s \in Suppliers
    BY <1>2, IssuesTheNextNumber
  <2>2. Untouched(s) \/ Issued(s, w)
    BY <1>2, <2>1, IssueMoves
  <2>3. last \in Nat /\ last + 1 \in DOMAIN versions'[s]
    BY <1>1, <1>2, <2>1, OrderTypes, IssueAddsVersion
  <2>4. TypeOK'
    BY <1>1, NextTyped
  <2>5. DOMAIN versions'[s] = 1 .. Len(versions'[s])
    BY <2>1, <2>4 DEF TypeOK
  <2>6. Issued(s, w)
    <3>1. Len(versions'[s]) # last
      BY <2>3, <2>5
    <3> QED BY <2>2, <3>1 DEF Untouched, SameVersions
  <2> QED BY <1>2, <2>6 DEF Issued, SameJob
<1>3. CASE window'[w] = window[w]
  <2>1. /\ window[w].next = last /\ versions[s][last].status = "issued"
        /\ s \in Suppliers /\ last \in DOMAIN versions[s]
    BY <1>1, <1>3 DEF OrderInv, OnlyOpenOrdersAreMailed, WindowsHaveOrders
  <2>2. drafts[s].status = "issued" /\ campaign # "collecting"
    BY <2>1, AnswersCloseTheLast, OrdersFollow DEF OrderFollows
  <2>3. last \in Nat /\ DOMAIN versions[s] = 1 .. last
    BY <1>1, <2>1, OrderTypes
  <2>4. CASE Untouched(s)
    BY <1>3, <2>1, <2>3, <2>4 DEF Untouched, SameVersions
  <2>5. ~ Opened(s) /\ ~ Edited(s) /\ \A x \in Windows : ~ Issued(s, x)
    BY <2>2 DEF Opened, Edited, Issued, Editable
  <2>6. ASSUME NEW v \in DOMAIN versions[s], NEW decision \in Decisions,
               Answered(s, v, decision)
        PROVE  FALSE
    <3>1. v = last /\ versions[s][v].token = v
      BY <2>1, <2>6, AnswersCloseTheLast, LinkTokens DEF Answered, OrderInv
    <3>2. <<s, last>> \in links
      BY <2>6, <3>1 DEF Answered
    <3> QED BY <1>3, <2>1, <3>2 DEF OrderInv, MailsAreFirst
  <2> QED BY <2>1, <2>4, <2>5, <2>6, OrderMoves
<1> QED BY <1>2, <1>3, WindowMoves

LEMMA OrderInvStarts == Init => OrderInv
<1> SUFFICES ASSUME Init PROVE OrderInv
  OBVIOUS
<1>1. TypeOK
  BY InitTyped
<1>2. /\ campaign = "collecting" /\ links = {}
      /\ \A s \in Suppliers :
           drafts[s].status = "none" /\ versions[s] = <<>> /\ Len(versions[s]) = 0
      /\ \A w \in Windows : window[w].step = "idle"
  BY DEF Init, Idle
<1>3. Issues = {}
  BY <1>2 DEF Issues
<1>4. OrdersFollowAward /\ DraftFollowsVersions /\ IssuedTermsAgree
  BY <1>2 DEF OrdersFollowAward, DraftFollowsVersions, IssuedTermsAgree
<1>5. LinkOpensItsVersion
  BY <1>3 DEF LinkOpensItsVersion
<1> QED
  BY <1>1, <1>2, <1>4, <1>5
  DEF OrderInv, WindowsHaveOrders, ReadsNameTheNextVersion, MailsAreFirst,
      OnlyOpenOrdersAreMailed

LEMMA OrderInvStays == OrderInv /\ [Next]_vars => OrderInv'
<1> SUFFICES ASSUME OrderInv, [Next]_vars PROVE OrderInv'
  OBVIOUS
<1>1. TypeOK' /\ WindowsHaveOrders'
  BY NextTyped, WindowsKeepOrders DEF OrderInv
<1>2. OrdersFollowAward' /\ DraftFollowsVersions' /\ IssuedTermsAgree'
  BY OrderStaysInStep
  DEF OrderFollows, OrdersFollowAward, DraftFollowsVersions, IssuedTermsAgree
<1> QED
  BY <1>1, <1>2, LinksOpenTheirs, ReadsStay, MailsStayFirst, MailedOrdersStayOpen
  DEF OrderInv

LEMMA OrderInvAlways == Spec => []OrderInv
BY OrderInvStarts, OrderInvStays, PTL DEF Spec

(* Every link ever derived from a version's number opens that version: the *)
(* reply to an old mail never answers a newer order.                       *)
THEOREM LinksOpenTheirVersion == Spec => []LinkOpensItsVersion
<1>1. OrderInv => LinkOpensItsVersion
  BY DEF OrderInv
<1> QED BY <1>1, OrderInvAlways, PTL

(* The draft and its versions tell one story: only the last version can be *)
(* open or answered, and then the draft says the same.                     *)
THEOREM DraftsFollowTheirVersions == Spec => []DraftFollowsVersions
<1>1. OrderInv => DraftFollowsVersions
  BY DEF OrderInv
<1> QED BY <1>1, OrderInvAlways, PTL

(* No window ever mails an order that is closed or was issued anew.        *)
THEOREM MailedOrdersAreOpen == Spec => []OnlyOpenOrdersAreMailed
<1>1. OrderInv => OnlyOpenOrdersAreMailed
  BY DEF OrderInv
<1> QED BY <1>1, OrderInvAlways, PTL

(* What a supplier confirmed is what it was sent.                          *)
THEOREM ConfirmedOrdersAreAsIssued == Spec => []ConfirmedAsIssued
<1>1. OrderInv => ConfirmedAsIssued
  <2> SUFFICES ASSUME OrderInv, NEW s \in Suppliers,
                      drafts[s].status = "supplier_confirmed"
               PROVE  \E v \in DOMAIN versions[s] :
                        /\ versions[s][v].status = "supplier_confirmed"
                        /\ versions[s][v].terms = drafts[s].terms
    BY DEF ConfirmedAsIssued
  <2> DEFINE last == Len(versions[s])
  <2>1. OrderFollows(s)
    BY OrdersFollow
  <2>2. last > 0 /\ versions[s][last].status = "supplier_confirmed"
          /\ versions[s][last].terms = drafts[s].terms
    BY <2>1 DEF OrderFollows
  <2>3. last \in DOMAIN versions[s]
    BY <2>2, OrderTypes DEF OrderInv
  <2> QED BY <2>2, <2>3
<1> QED BY <1>1, OrderInvAlways, PTL

(* A confirmed order is final: no step of anybody edits its draft or       *)
(* issues another version of it.                                           *)
THEOREM ConfirmedOrdersAreFinal == Spec => ConfirmedIsFinal
<1> DEFINE Final ==
      \A s \in Suppliers :
        drafts[s].status = "supplier_confirmed" =>
          /\ drafts'[s] = drafts[s]
          /\ Len(versions'[s]) = Len(versions[s])
<1>1. OrderInv /\ [Next]_vars => [Final]_vars
  <2> SUFFICES ASSUME OrderInv, [Next]_vars, NEW s \in Suppliers,
                      drafts[s].status = "supplier_confirmed"
               PROVE  /\ drafts'[s] = drafts[s]
                      /\ Len(versions'[s]) = Len(versions[s])
    OBVIOUS
  <2>1. OrderFollows(s)
    BY OrdersFollow
  <2>2. ~ Opened(s) /\ ~ Edited(s) /\ \A w \in Windows : ~ Issued(s, w)
    BY <2>1 DEF Opened, Edited, Issued, Editable, OrderFollows
  <2>3. \A v \in DOMAIN versions[s], decision \in Decisions :
          ~ Answered(s, v, decision)
    BY AnswersCloseTheLast DEF Answered
  <2>4. Untouched(s)
    BY <2>2, <2>3, OrderMoves
  <2> QED BY <2>4 DEF Untouched, SameVersions
<1> QED BY <1>1, OrderInvAlways, PTL DEF Spec, ConfirmedIsFinal

-----------------------------------------------------------------------------
(* The refinement of OrderContract.                                        *)
Shown == [s \in Suppliers |-> Order(s)]

(* What each party sees of an order, by the status of its draft.           *)
LEMMA OrderShows ==
  ASSUME NEW s \in Suppliers
  PROVE  /\ drafts[s].status = "none" => Order(s) = Contract!NoOrder
         /\ drafts[s].status \in Editable => Order(s) = Contract!Open
         /\ drafts[s].status = "issued" =>
              Order(s) = Contract!Offered(versions[s][Len(versions[s])].terms)
         /\ drafts[s].status = "supplier_confirmed" =>
              Order(s) = Contract!Agreed(drafts[s].terms)
BY DEF Order, Editable, Contract!NoOrder, Contract!Open, Contract!Offered,
       Contract!Agreed

LEMMA OrderWillShow ==
  ASSUME NEW s \in Suppliers
  PROVE  /\ drafts'[s].status \in Editable => Order(s)' = Contract!Open
         /\ drafts'[s].status = "issued" =>
              Order(s)' = Contract!Offered(versions'[s][Len(versions'[s])].terms)
         /\ drafts'[s].status = "supplier_confirmed" =>
              Order(s)' = Contract!Agreed(drafts'[s].terms)
BY DEF Order, Editable, Contract!Open, Contract!Offered, Contract!Agreed

LEMMA UntouchedOrdersShowTheSame ==
  ASSUME OrderInv, NEW s \in Suppliers, Untouched(s)
  PROVE  Order(s)' = Order(s)
<1> DEFINE last == Len(versions[s])
<1>1. OrderFollows(s) /\ last \in Nat
  BY OrdersFollow, OrderTypes DEF OrderInv
<1>2. drafts'[s] = drafts[s] /\ Len(versions'[s]) = last
  BY DEF Untouched, SameVersions
<1>3. CASE drafts[s].status = "issued"
  <2>1. last \in 1 .. last
    BY <1>1, <1>3 DEF OrderFollows
  <2>2. versions'[s][last].terms = versions[s][last].terms
    BY <2>1 DEF Untouched, SameVersions, SameButStatus
  <2>3. Order(s) = Contract!Offered(versions[s][last].terms)
    BY <1>3, OrderShows
  <2>4. Order(s)' = Contract!Offered(versions'[s][last].terms)
    BY <1>2, <1>3, OrderWillShow
  <2> QED BY <2>2, <2>3, <2>4
<1>4. CASE drafts[s].status # "issued"
  <2>1. drafts[s].status \in Editable \cup {"none", "supplier_confirmed"}
    BY <1>4, OrderTypes DEF OrderInv
  <2> QED BY <1>2, <2>1 DEF Order, Editable
<1> QED BY <1>3, <1>4

LEMMA UntouchedOrdersStutter ==
  ASSUME OrderInv, UNCHANGED campaign, \A s \in Suppliers : Order(s)' = Order(s)
  PROVE  UNCHANGED Contract!contractVars
BY DEF Contract!contractVars

LEMMA AwardsOpenOrders ==
  ASSUME OrderInv, NEW winners \in WinnerSets, ConfirmAward(winners)
  PROVE  Contract!Award
<1>1. campaign = "collecting" /\ campaign' = "awarded"
  BY DEF ConfirmAward
<1>2. winners \in (SUBSET Suppliers) \ {{}}
  BY DEF WinnerSets
<1>3. ASSUME NEW s \in Suppliers
      PROVE  Order(s)' = IF s \in winners THEN Contract!Open ELSE Order(s)
  <2>1. drafts'[s] = IF s \in winners
                     THEN [status |-> "draft", terms |-> quotes[s].terms]
                     ELSE drafts[s]
    BY DEF ConfirmAward
  <2>2. CASE s \in winners
    <3>1. drafts'[s].status \in Editable
      BY <2>1, <2>2 DEF Editable
    <3> QED BY <2>2, <3>1, OrderWillShow
  <2>3. CASE s \notin winners
    <3>1. Untouched(s)
      BY <2>1, <2>3 DEF ConfirmAward, Untouched, SameVersions, SameButStatus
    <3> QED BY <2>3, <3>1, UntouchedOrdersShowTheSame
  <2> QED BY <2>2, <2>3
<1>4. Shown' = [s \in Suppliers |-> IF s \in winners THEN Contract!Open ELSE Shown[s]]
  BY <1>3 DEF Shown
<1> QED BY <1>1, <1>2, <1>4 DEF Contract!Award, Shown

LEMMA IssuesOfferTerms ==
  ASSUME OrderInv, NEW w \in Windows, PrepareIssue(w)
  PROVE  Contract!Offer(window[w].po)
<1>1. PICK s \in Suppliers : s = window[w].po
  BY IssuesTheNextNumber
<1>2. \A r \in Suppliers : r # s => Untouched(r)
  BY <1>1, IssueMoves DEF Issued
<1>3. Issued(s, w)
  <2>1. Untouched(s) \/ Issued(s, w)
    BY <1>1, IssueMoves
  <2>2. drafts'[s] = [status |-> "issued", terms |-> drafts[s].terms]
    BY <1>1, OrderTypes DEF PrepareIssue, OrderInv
  <2>3. drafts[s].status \in Editable
    BY <1>1 DEF PrepareIssue, MayIssue
  <2> QED BY <2>1, <2>2, <2>3 DEF Untouched, Editable
<1> DEFINE t == drafts[s].terms
<1>4. t \in Terms
  BY <1>1, OrderTypes DEF OrderInv
<1>5. Order(s) = Contract!Open
  BY <1>1, <1>3, OrderShows DEF Issued
<1>6. Order(s)' = Contract!Offered(t)
  <2>1. /\ drafts'[s].status = "issued"
        /\ versions'[s][Len(versions'[s])].terms = t
    BY <1>3 DEF Issued
  <2> QED BY <2>1, OrderWillShow
<1>7. \A r \in Suppliers : r # s => Order(r)' = Order(r)
  BY <1>2, UntouchedOrdersShowTheSame
<1>8. Shown' = [Shown EXCEPT ![s] = Contract!Offered(t)]
  BY <1>1, <1>6, <1>7 DEF Shown
<1>9. UNCHANGED campaign /\ Shown[s] = Contract!Open
  BY <1>1, <1>5 DEF PrepareIssue, Shown
<1> QED BY <1>1, <1>4, <1>8, <1>9 DEF Contract!Offer, Shown

LEMMA AnswersAnswerOffers ==
  ASSUME OrderInv, NEW r \in Suppliers, NEW v \in DOMAIN versions[r],
         NEW decision \in Decisions, NEW date \in Terms \cup {NoPo},
         SupplierDecide(r, v, decision, date)
  PROVE  Contract!Answer(r)
<1> DEFINE t == versions[r][v].terms
<1>1. versions[r][v].status = "issued"
  BY DEF SupplierDecide
<1>2. v = Len(versions[r]) /\ drafts[r].status = "issued"
  BY <1>1, AnswersCloseTheLast
<1>3. Answered(r, v, decision)
  <2>1. Untouched(r) \/ Answered(r, v, decision)
    BY AnswerMoves
  <2>2. drafts'[r].status = decision
    BY OrderTypes DEF SupplierDecide, OrderInv
  <2> QED BY <1>2, <2>1, <2>2 DEF Untouched, Decisions
<1>4. \A s \in Suppliers : s # r => Order(s)' = Order(s)
  BY AnswerMoves, UntouchedOrdersShowTheSame
<1>5. Order(r) = Contract!Offered(t) /\ t \in Terms
  BY <1>2, OrderShows, VersionsTyped DEF OrderInv, Versions
<1>6. Order(r)' \in {Contract!Agreed(t), Contract!Open}
  <2>1. CASE decision = "supplier_confirmed"
    BY <1>3, <2>1, OrderWillShow DEF Answered
  <2>2. CASE decision # "supplier_confirmed"
    <3>1. drafts'[r].status \in Editable
      BY <1>3, <2>2 DEF Answered, Decisions, Editable
    <3> QED BY <3>1, OrderWillShow
  <2> QED BY <2>1, <2>2
<1>7. Shown' \in {[Shown EXCEPT ![r] = Contract!Agreed(t)],
                  [Shown EXCEPT ![r] = Contract!Open]}
  BY <1>4, <1>6 DEF Shown
<1>8. UNCHANGED campaign /\ Shown[r] = Contract!Offered(t)
  BY <1>5 DEF SupplierDecide, Shown
<1> QED BY <1>5, <1>7, <1>8 DEF Contract!Answer, Shown

(* For every instance, award and orders keep what OrderContract promises:  *)
(* one award opens the winners' orders, an offer is of definite terms, and *)
(* a supplier agrees, once and for good, to exactly these.                 *)
THEOREM OrdersImplementContract == Spec => OrdersKeepContract
<1>1. Init => Contract!Init
  <2> SUFFICES ASSUME Init PROVE Contract!Init
    OBVIOUS
  <2>1. campaign = "collecting" /\ \A s \in Suppliers : drafts[s].status = "none"
    BY DEF Init
  <2>2. \A s \in Suppliers : Order(s) = Contract!NoOrder
    BY <2>1, OrderShows
  <2> QED BY <2>1, <2>2 DEF Contract!Init
<1>2. OrderInv /\ [Next]_vars => [Contract!Next]_(Contract!contractVars)
  <2> SUFFICES ASSUME OrderInv, [Next]_vars
               PROVE  [Contract!Next]_(Contract!contractVars)
    OBVIOUS
  <2>1. ASSUME NEW winners \in WinnerSets, ConfirmAward(winners)
        PROVE  Contract!Next
    BY <2>1, AwardsOpenOrders DEF Contract!Next
  <2>2. ASSUME NEW w \in Windows, PrepareIssue(w)
        PROVE  Contract!Next
    BY <2>2, IssuesOfferTerms, IssuesTheNextNumber DEF Contract!Next
  <2>3. ASSUME NEW r \in Suppliers, NEW v \in DOMAIN versions[r],
               NEW decision \in Decisions, NEW date \in Terms \cup {NoPo},
               SupplierDecide(r, v, decision, date)
        PROVE  Contract!Next
    BY <2>3, AnswersAnswerOffers DEF Contract!Next
  <2>4. ASSUME NEW w \in Windows, MarkDelivery(w)
        PROVE  UNCHANGED Contract!contractVars
    <3>1. \A s \in Suppliers : Order(s)' = Order(s)
      BY <2>4, MarkMoves, UntouchedOrdersShowTheSame
    <3> QED BY <2>4, <3>1, UntouchedOrdersStutter DEF MarkDelivery
  <2>5. ASSUME NEW r \in Suppliers, NEW t \in Terms, UpdateTerms(r, t)
        PROVE  UNCHANGED Contract!contractVars
    <3>1. /\ drafts[r].status \in Editable
          /\ drafts' = [drafts EXCEPT ![r] = [status |-> "draft", terms |-> t]]
          /\ UNCHANGED <<versions, campaign>>
      BY <2>5 DEF UpdateTerms
    <3>2. drafts'[r].status \in Editable
      BY <3>1, OrderTypes DEF OrderInv, Editable
    <3>3. Order(r)' = Order(r)
      BY <3>1, <3>2, OrderShows, OrderWillShow
    <3>4. ASSUME NEW s \in Suppliers, s # r PROVE Order(s)' = Order(s)
      <4>1. drafts'[s] = drafts[s]
        BY <3>1, <3>4, OrderTypes DEF OrderInv
      <4>2. Untouched(s)
        BY <3>1, <4>1 DEF Untouched, SameVersions, SameButStatus
      <4> QED BY <4>2, UntouchedOrdersShowTheSame
    <3> QED BY <3>1, <3>3, <3>4, UntouchedOrdersStutter
  <2>6. ASSUME UNCHANGED <<campaign, drafts, versions>>
        PROVE  UNCHANGED Contract!contractVars
    BY <2>6 DEF Contract!contractVars, Order
  <2> QED
    BY <2>1, <2>2, <2>3, <2>4, <2>5, <2>6
    DEF Next, vars, Govern, unlessGate, RequestAward, RequestIssue,
        DecideApproval, ReviseQuote, SubmitQuote, PassDeadline, ReadState,
        SendOrder, Stop
<1> QED
  BY <1>1, <1>2, OrderInvAlways, PTL
  DEF Spec, OrdersKeepContract, Contract!Spec
===============================================================================
