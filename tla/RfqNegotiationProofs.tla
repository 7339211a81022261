------------------------- MODULE RfqNegotiationProofs -------------------------
(***************************************************************************)
(* Proofs about RfqNegotiation and the SupplierPortal under it, for any    *)
(* suppliers, offers, tabs, uploads, requests and messages, and without    *)
(* the bound of the runs on how much happens together.                     *)
(*                                                                         *)
(* Quotes: a step leaves a supplier's revisions as they are, edits the     *)
(* last one while it is a draft, or adds one; whatever the properties say  *)
(* of revisions follows from this (QuotesMove).                            *)
(***************************************************************************)
EXTENDS RfqNegotiation, FiniteSetTheorems, SequenceTheorems, TLAPS

USE PortalAssumptions, NegotiationAssumptions

(* A file no revision has.                                                 *)
Unattached(f) ==
  \A s \in Suppliers : \A r \in DOMAIN quotes[s] : quotes[s][r].file # f

(* A file is attached once at most.                                        *)
FilesAreOwn ==
  \A s, z \in Suppliers : \A r \in DOMAIN quotes[s], k \in DOMAIN quotes[z] :
    quotes[s][r].file = quotes[z][k].file
      => quotes[s][r].file = NoFile \/ (s = z /\ r = k)

(* An upload has a file of its own, which nobody names before it is        *)
(* recorded and which is in the store by then.  The file it replaces is    *)
(* the file of its permit's revision, if of any, and of none once its own  *)
(* is recorded there.                                                      *)
UploadIsSound(u) ==
  LET up == upload[u]
  IN  up.step # "idle" =>
        /\ up.quote \in Suppliers \X Nat /\ up.file \in Files
        /\ \A v \in Uploads :
             upload[v].step # "idle" /\ v # u => upload[v].file # up.file
        /\ up.step \in {"put", "record"} =>
             /\ up.file \notin unsure /\ Unattached(up.file)
             /\ \A v \in Uploads :
                  upload[v].step # "idle" => upload[v].old # up.file
        /\ up.step = "record" => up.file \in stored
        /\ up.step = "undo" => up.file \in unsure \/ Unattached(up.file)
        /\ up.old # NoFile =>
             /\ \A s \in Suppliers : \A r \in DOMAIN quotes[s] :
                  quotes[s][r].file = up.old => up.quote = <<s, r>>
             /\ up.step = "clean" => Unattached(up.old)

FilesInv ==
  /\ TypeOK /\ FilesAreOwn /\ AttachmentIsStored
  /\ \A u \in Uploads : UploadIsSound(u)

(* The reminders of a round.                                               *)
Reminders(s, round) ==
  {k \in DOMAIN messages[s] :
     messages[s][k].kind = "reminder" /\ messages[s][k].round = round}

(* The rounds of a thread are counted, and so are the reminders of the     *)
(* request that is open.                                                   *)
RoundsAreCounted ==
  \A s \in Suppliers :
    /\ \A k \in DOMAIN messages[s] : messages[s][k].round <= thread[s].round
    /\ thread[s].request # NoRequest =>
         Cardinality(Reminders(s, thread[s].round)) <= thread[s].reminders

(* There is no request without a thread or after the award.                *)
RequestsEnd ==
  \A s \in Suppliers :
    thread[s].status = "none" \/ campaign # "collecting"
      => thread[s].request = NoRequest

(* A best and final offer that is waited for was asked for, with the       *)
(* offers that were known then, which are among those submitted.           *)
BestOfferWasAsked ==
  \A s \in Suppliers :
    /\ thread[s].request = "bafo" => asked[s].request = "bafo"
    /\ asked[s].known <= Submitted(s)

(* A window mails a message there is, has a result to record in the end,   *)
(* and knows that it was sent only if the provider took it.                *)
WindowsMailMessages ==
  \A w \in Windows :
    window[w].step # "idle" =>
      /\ \E s \in Suppliers : \E k \in DOMAIN messages[s] :
           window[w].message = <<s, k>>
      /\ window[w].step = "mark" =>
           /\ window[w].result # "none"
           /\ window[w].result = "sent" => window[w].message \in mailed

-----------------------------------------------------------------------------
(* The steps, with tabs, uploads and windows in their sets.                *)

PortalStep ==
  \/ PassDay
  \/ \E s \in Suppliers, lines \in Answers :
       SaveDraft(s, lines) \/ \E t \in Tabs : SaveToSubmit(t, s, lines)
  \/ \E t \in Tabs : LeaveTab(t)
  \/ \E s \in Suppliers : DeclineQuote(s) \/ StartRevision(s)
  \/ \E u \in Uploads :
       \/ \E s \in Suppliers : PrepareAttachment(u, s)
       \/ PutFile(u) \/ RecordAttachment(u) \/ RefuseAttachment(u)
       \/ RemoveLeftover(u) \/ DropUpload(u)

ThreadStep ==
  \/ \E s \in Suppliers : SupplierPost(s)
  \/ ConfirmAward
  \/ \E w \in Windows :
       \/ \E s \in Suppliers :
            \/ \E kind \in Requests \cup {"message"}, d \in Days \cup {NoDue} :
                 BuyerPost(w, s, kind, d)
            \/ PrepareReminder(w, s)
       \/ SendNotification(w) \/ MarkNotification(w) \/ DropWindow(w)
  \/ \E s \in Suppliers : \E k \in DOMAIN messages[s] : NotificationBounced(s, k)

LEMMA StepKinds ==
  ASSUME TypeOK, [Next]_vars
  PROVE  \/ UNCHANGED vars
         \/ PortalStep /\ UNCHANGED threadVars
         \/ \E t \in Tabs : SubmitAndSync(t)
         \/ ThreadStep
<1>1. cast \in Casts
  BY DEF TypeOK
<1>2. cast.tabs \subseteq Tabs /\ cast.uploads \subseteq Uploads
        /\ cast.windows \subseteq Windows
  BY <1>1
<1>3. Responders \subseteq Suppliers
  OBVIOUS
<1>4. CASE Portal
  BY <1>2, <1>3, <1>4 DEF Portal, PortalStep, AttachmentStep
<1>5. CASE \E t \in cast.tabs : SubmitAndSync(t)
  BY <1>2, <1>5
<1>6. CASE \E w \in cast.windows :
             \/ \E s \in Suppliers :
                  \/ \E kind \in Requests \cup {"message"},
                       d \in (Days \ {0}) \cup {NoDue} : BuyerPost(w, s, kind, d)
                  \/ PrepareReminder(w, s)
             \/ SendNotification(w)
             \/ MarkNotification(w)
             \/ DropWindow(w)
  BY <1>2, <1>6 DEF ThreadStep
<1> QED
  BY <1>3, <1>4, <1>5, <1>6 DEF Next, Step, ThreadStep

-----------------------------------------------------------------------------
(* Revisions.                                                              *)

LEMMA QuotesTyped ==
  ASSUME TypeOK, NEW s \in Suppliers
  PROVE  /\ quotes \in [Suppliers -> Seq(Quotes)]
         /\ quotes[s] \in Seq(Quotes) /\ Len(quotes[s]) \in Nat
         /\ DOMAIN quotes[s] = 1 .. Len(quotes[s])
         /\ \A r \in DOMAIN quotes[s] : quotes[s][r] \in Quotes
         /\ quotes[s] # <<>> => /\ Len(quotes[s]) \in DOMAIN quotes[s]
                                /\ Current(s) \in Quotes
                                /\ Status(s) = Current(s).status
         /\ quotes[s] = <<>> => Len(quotes[s]) = 0 /\ Status(s) = "none"
BY DEF TypeOK, PortalTypeOK, Current, Status

(* How the revisions of supplier s move: they stay, the last one is edited *)
(* while it is a draft, or a new one is added, which supersedes an offer   *)
(* that was submitted and starts without a file.                           *)
RevisionsMove(s) ==
  LET n == Len(quotes[s])
      q == quotes[s]
      p == quotes'[s]
  IN  /\ p \in Seq(Quotes)
      /\ \/ p = q
         \/ /\ n > 0 /\ Len(p) = n
            /\ q[n].status = "draft"
            /\ p[n].status \in {"draft", "submitted", "declined"}
            /\ campaign = "collecting" \/ p[n].status = "draft"
            /\ \A r \in 1 .. n : r # n => p[r] = q[r]
         \/ /\ Len(p) = n + 1 /\ campaign = "collecting"
            /\ p[n + 1].status \in {"draft", "declined"} /\ p[n + 1].file = NoFile
            /\ \A r \in 1 .. n : r # n => p[r] = q[r]
            /\ n > 0 => /\ q[n].status = "submitted" /\ p[n].status = "superseded"
                        /\ p[n].lines = q[n].lines /\ p[n].file = q[n].file

QuotesMove ==
  /\ quotes' \in [Suppliers -> Seq(Quotes)]
  /\ \A s \in Suppliers : RevisionsMove(s)

(* No revision gets a file.                                                *)
FilesStay ==
  \A s \in Suppliers : \A r \in DOMAIN quotes'[s] :
    \/ quotes'[s][r].file = NoFile
    \/ r \in DOMAIN quotes[s] /\ quotes'[s][r].file = quotes[s][r].file

LEMMA QuotesStay ==
  ASSUME TypeOK, UNCHANGED quotes
  PROVE  QuotesMove /\ FilesStay
BY DEF TypeOK, PortalTypeOK, QuotesMove, RevisionsMove, FilesStay

(* The quotes of s alone become p.                                         *)
LEMMA OneMoves ==
  ASSUME TypeOK, NEW s \in Suppliers, NEW p \in Seq(Quotes),
         quotes' = [quotes EXCEPT ![s] = p]
  PROVE  /\ quotes' \in [Suppliers -> Seq(Quotes)] /\ quotes'[s] = p
         /\ \A z \in Suppliers : z # s => quotes'[z] = quotes[z] /\ RevisionsMove(z)
<1>1. quotes \in [Suppliers -> Seq(Quotes)]
  BY QuotesTyped
<1>2. /\ quotes' \in [Suppliers -> Seq(Quotes)]
      /\ \A z \in Suppliers : quotes'[z] = IF z = s THEN p ELSE quotes[z]
  BY <1>1
<1> QED BY <1>1, <1>2 DEF RevisionsMove

LEMMA LastReplaced ==
  ASSUME NEW q \in Seq(Quotes), NEW e \in Quotes, q # <<>>
  PROVE  LET p == [q EXCEPT ![Len(q)] = e]
         IN  /\ p \in Seq(Quotes) /\ Len(p) = Len(q) /\ Len(q) > 0
             /\ DOMAIN p = DOMAIN q /\ p[Len(q)] = e
             /\ \A r \in 1 .. Len(q) : r # Len(q) => p[r] = q[r]
OBVIOUS

LEMMA OneAdded ==
  ASSUME NEW q \in Seq(Quotes), NEW e \in Quotes
  PROVE  LET p == Append(q, e)
         IN  /\ p \in Seq(Quotes) /\ Len(p) = Len(q) + 1
             /\ DOMAIN p = 1 .. (Len(q) + 1) /\ p[Len(q) + 1] = e
             /\ \A r \in 1 .. Len(q) : p[r] = q[r]
OBVIOUS

(* The draft of s becomes e.                                               *)
LEMMA EditMoves ==
  ASSUME TypeOK, NEW s \in Suppliers, Status(s) = "draft", NEW e \in Quotes,
         e.status \in {"draft", "submitted", "declined"},
         campaign = "collecting" \/ e.status = "draft",
         quotes' = WithCurrent(s, e)
  PROVE  /\ QuotesMove
         /\ e.file = Current(s).file => FilesStay
         /\ quotes[s] # <<>> /\ Len(quotes'[s]) = Len(quotes[s])
         /\ quotes'[s][Len(quotes[s])] = e
         /\ \A r \in 1 .. Len(quotes[s]) :
              r # Len(quotes[s]) => quotes'[s][r] = quotes[s][r]
         /\ \A z \in Suppliers : z # s => quotes'[z] = quotes[z]
<1> DEFINE q == quotes[s]
           p == [q EXCEPT ![Len(q)] = e]
<1>1. /\ q \in Seq(Quotes) /\ q # <<>> /\ q[Len(q)].status = "draft"
      /\ Current(s) = q[Len(q)] /\ DOMAIN q = 1 .. Len(q)
  BY QuotesTyped DEF Current
<1>2. /\ p \in Seq(Quotes) /\ Len(p) = Len(q) /\ Len(q) > 0
      /\ DOMAIN p = DOMAIN q /\ p[Len(q)] = e
      /\ \A r \in 1 .. Len(q) : r # Len(q) => p[r] = q[r]
  BY <1>1, LastReplaced
<1>3. quotes' = [quotes EXCEPT ![s] = p]
  BY DEF WithCurrent
<1> HIDE DEF p
<1>4. /\ quotes' \in [Suppliers -> Seq(Quotes)] /\ quotes'[s] = p
      /\ \A z \in Suppliers : z # s => quotes'[z] = quotes[z] /\ RevisionsMove(z)
  BY <1>2, <1>3, OneMoves
<1>5. RevisionsMove(s)
  BY <1>1, <1>2, <1>4 DEF RevisionsMove
<1>6. QuotesMove
  BY <1>4, <1>5 DEF QuotesMove
<1>7. ASSUME e.file = Current(s).file
      PROVE  FilesStay
  BY <1>1, <1>2, <1>4, <1>7 DEF FilesStay
<1> QED BY <1>1, <1>2, <1>4, <1>6, <1>7

(* Supplier s, who has none, gets the revision e.                          *)
LEMMA FirstMoves ==
  ASSUME TypeOK, NEW s \in Suppliers, Status(s) = "none", NEW e \in Quotes,
         e.status \in {"draft", "declined"}, e.file = NoFile,
         campaign = "collecting", quotes' = NewRevision(s, e)
  PROVE  /\ QuotesMove /\ FilesStay /\ Len(quotes'[s]) = 1 /\ quotes'[s][1] = e
         /\ \A z \in Suppliers : z # s => quotes'[z] = quotes[z]
<1> DEFINE q == quotes[s]
           p == Append(q, e)
<1>1. q \in Seq(Quotes) /\ Len(q) = 0
  BY QuotesTyped DEF Quotes
<1>2. /\ p \in Seq(Quotes) /\ Len(p) = Len(q) + 1
      /\ DOMAIN p = 1 .. (Len(q) + 1) /\ p[Len(q) + 1] = e
  BY <1>1, OneAdded
<1>3. quotes' = [quotes EXCEPT ![s] = p]
  BY DEF NewRevision
<1> HIDE DEF p
<1>4. /\ quotes' \in [Suppliers -> Seq(Quotes)] /\ quotes'[s] = p
      /\ \A z \in Suppliers : z # s => quotes'[z] = quotes[z] /\ RevisionsMove(z)
  BY <1>2, <1>3, OneMoves
<1>5. RevisionsMove(s)
  BY <1>1, <1>2, <1>4 DEF RevisionsMove
<1>6. FilesStay
  BY <1>1, <1>2, <1>4 DEF FilesStay
<1> QED BY <1>1, <1>2, <1>4, <1>5, <1>6 DEF QuotesMove

(* The offer of s is superseded by a draft with its lines.                 *)
LEMMA RevisedMoves ==
  ASSUME TypeOK, NEW s \in Suppliers, Status(s) = "submitted",
         campaign = "collecting", quotes' = Revised(s)
  PROVE  /\ QuotesMove /\ FilesStay
         /\ Len(quotes'[s]) = Len(quotes[s]) + 1
         /\ quotes'[s][Len(quotes[s]) + 1].status = "draft"
         /\ \A z \in Suppliers : z # s => quotes'[z] = quotes[z]
<1> DEFINE q == quotes[s]
           old == [Current(s) EXCEPT !.status = "superseded"]
           new == Draft(Current(s).lines)
           m == [q EXCEPT ![Len(q)] = old]
           p == Append(m, new)
<1>1. /\ q \in Seq(Quotes) /\ q # <<>> /\ q[Len(q)].status = "submitted"
      /\ Current(s) = q[Len(q)] /\ DOMAIN q = 1 .. Len(q) /\ q[Len(q)] \in Quotes
  BY QuotesTyped DEF Current
<1>2. /\ old \in Quotes /\ old.status = "superseded"
      /\ old.lines = q[Len(q)].lines /\ old.file = q[Len(q)].file
  BY <1>1 DEF Quotes
<1>3. new \in Quotes /\ new.status = "draft" /\ new.file = NoFile
  BY <1>1 DEF Quotes, Draft
<1> HIDE DEF old, new
<1>4. /\ m \in Seq(Quotes) /\ Len(m) = Len(q) /\ Len(q) > 0
      /\ m[Len(q)] = old
      /\ \A r \in 1 .. Len(q) : r # Len(q) => m[r] = q[r]
  BY <1>1, <1>2, LastReplaced
<1> HIDE DEF m
<1>5. /\ p \in Seq(Quotes) /\ Len(p) = Len(q) + 1
      /\ DOMAIN p = 1 .. (Len(q) + 1) /\ p[Len(q) + 1] = new
      /\ \A r \in 1 .. Len(q) : p[r] = m[r]
  BY <1>3, <1>4, OneAdded
<1>6. quotes' = [quotes EXCEPT ![s] = p]
  BY DEF Revised, m, old, new
<1> HIDE DEF p
<1>7. /\ quotes' \in [Suppliers -> Seq(Quotes)] /\ quotes'[s] = p
      /\ \A z \in Suppliers : z # s => quotes'[z] = quotes[z] /\ RevisionsMove(z)
  BY <1>5, <1>6, OneMoves
<1>8. RevisionsMove(s)
  <2>1. Len(q) \in Nat /\ Len(q) \in 1 .. Len(q) /\ Len(q) + 1 # Len(q)
    BY <1>1
  <2>2. p[Len(q)] = old /\ \A r \in 1 .. Len(q) : r # Len(q) => p[r] = q[r]
    BY <1>4, <1>5, <2>1
  <2>3. p[Len(q) + 1].status = "draft" /\ p[Len(q) + 1].file = NoFile
    BY <1>3, <1>5
  <2> QED BY <1>1, <1>2, <1>5, <1>7, <2>2, <2>3 DEF RevisionsMove
<1>9. FilesStay
  <2>1. p[Len(q) + 1].file = NoFile
    BY <1>3, <1>5
  <2>2. \A r \in 1 .. Len(q) : r \in DOMAIN q /\ p[r].file = q[r].file
    BY <1>1, <1>2, <1>4, <1>5
  <2>3. \A r \in DOMAIN p : r = Len(q) + 1 \/ r \in 1 .. Len(q)
    BY <1>1, <1>5
  <2>4. \A r \in DOMAIN p :
          p[r].file = NoFile \/ (r \in DOMAIN q /\ p[r].file = q[r].file)
    BY <2>1, <2>2, <2>3
  <2> QED BY <1>7, <2>4 DEF FilesStay
<1> QED BY <1>3, <1>4, <1>5, <1>7, <1>8, <1>9 DEF QuotesMove

LEMMA DraftTyped ==
  \A lines \in Answers :
    /\ Draft(lines) \in Quotes /\ Draft(lines).status = "draft"
    /\ Draft(lines).file = NoFile
    /\ [Draft(lines) EXCEPT !.status = "declined"] \in Quotes
    /\ [Draft(lines) EXCEPT !.status = "declined"].status = "declined"
    /\ [Draft(lines) EXCEPT !.status = "declined"].file = NoFile
BY DEF Draft, Quotes

LEMMA QuoteEdits ==
  \A q \in Quotes :
    /\ \A status \in {"submitted", "declined"} :
         /\ [q EXCEPT !.status = status] \in Quotes
         /\ [q EXCEPT !.status = status].status = status
         /\ [q EXCEPT !.status = status].file = q.file
    /\ \A lines \in Answers :
         /\ [q EXCEPT !.lines = lines] \in Quotes
         /\ [q EXCEPT !.lines = lines].status = q.status
         /\ [q EXCEPT !.lines = lines].file = q.file
<1>1. ASSUME NEW q \in Quotes
      PROVE  \A status \in {"submitted", "declined"} :
               /\ [q EXCEPT !.status = status] \in Quotes
               /\ [q EXCEPT !.status = status].status = status
               /\ [q EXCEPT !.status = status].file = q.file
  BY DEF Quotes
<1>2. ASSUME NEW q \in Quotes
      PROVE  \A lines \in Answers :
               /\ [q EXCEPT !.lines = lines] \in Quotes
               /\ [q EXCEPT !.lines = lines].status = q.status
               /\ [q EXCEPT !.lines = lines].file = q.file
  BY DEF Quotes
<1> QED BY <1>1, <1>2

LEMMA SaveMoves ==
  ASSUME TypeOK, NEW s \in Suppliers, NEW lines \in Answers, SaveQuote(s, lines)
  PROVE  QuotesMove /\ FilesStay
<1>1. campaign = "collecting" /\ quotes' = Saved(s, lines)
  BY DEF SaveQuote, OpenTo
<1>2. CASE Status(s) = "none"
  <2>1. quotes' = NewRevision(s, Draft(lines))
    BY <1>1, <1>2 DEF Saved
  <2> QED BY <1>1, <1>2, <2>1, DraftTyped, FirstMoves
<1>3. CASE Status(s) = "draft"
  <2> DEFINE e == [Current(s) EXCEPT !.lines = lines]
  <2>1. quotes' = WithCurrent(s, e)
    BY <1>1, <1>3 DEF Saved
  <2>2. Current(s) \in Quotes /\ Current(s).status = "draft"
    BY <1>3, QuotesTyped
  <2>3. e \in Quotes /\ e.status = "draft" /\ e.file = Current(s).file
    BY <2>2 DEF Quotes
  <2> HIDE DEF e
  <2> QED BY <1>3, <2>1, <2>3, EditMoves
<1>4. CASE Status(s) \notin {"none", "draft"}
  <2>1. quotes' = quotes
    BY <1>1, <1>4 DEF Saved
  <2> QED BY <2>1, QuotesStay
<1> QED BY <1>2, <1>3, <1>4

LEMMA DeclineMoves ==
  ASSUME TypeOK, NEW s \in Suppliers, DeclineQuote(s)
  PROVE  QuotesMove /\ FilesStay
<1>1. campaign = "collecting"
  BY DEF DeclineQuote, OpenTo
<1>2. CASE Status(s) = "none"
  <2> DEFINE e == [Draft(Incomplete) EXCEPT !.status = "declined"]
  <2>1. e \in Quotes /\ e.status = "declined" /\ e.file = NoFile
    BY DraftTyped DEF Answers
  <2>2. quotes' = NewRevision(s, e)
    BY <1>2 DEF DeclineQuote
  <2> HIDE DEF e
  <2> QED BY <1>1, <1>2, <2>1, <2>2, FirstMoves
<1>3. CASE Status(s) = "draft"
  <2> DEFINE e == [Current(s) EXCEPT !.status = "declined"]
  <2>1. e \in Quotes /\ e.status = "declined" /\ e.file = Current(s).file
    BY <1>3, QuotesTyped, QuoteEdits
  <2>2. quotes' = WithCurrent(s, e)
    BY <1>3 DEF DeclineQuote
  <2> HIDE DEF e
  <2> QED BY <1>1, <1>3, <2>1, <2>2, EditMoves
<1> QED BY <1>2, <1>3 DEF DeclineQuote

LEMMA SubmitMoves ==
  ASSUME TypeOK, NEW t \in Tabs, SubmitQuote(t)
  PROVE  /\ QuotesMove /\ FilesStay
         /\ tab[t] \in Suppliers /\ campaign = "collecting" /\ quotes[tab[t]] # <<>>
         /\ Status(tab[t]) = "draft"
         /\ Len(quotes'[tab[t]]) = Len(quotes[tab[t]])
         /\ quotes'[tab[t]][Len(quotes[tab[t]])].status = "submitted"
<1>1. PICK s \in Suppliers : s = tab[t]
  BY DEF TypeOK, PortalTypeOK, SubmitQuote
<1> DEFINE e == [Current(s) EXCEPT !.status = "submitted"]
<1>2. Status(s) = "draft" /\ campaign = "collecting" /\ quotes' = WithCurrent(s, e)
  BY <1>1 DEF SubmitQuote, OpenTo
<1>3. Current(s) \in Quotes
  BY <1>2, QuotesTyped
<1>4. e \in Quotes /\ e.status = "submitted" /\ e.file = Current(s).file
  BY <1>3, QuoteEdits
<1> HIDE DEF e
<1> QED BY <1>1, <1>2, <1>4, EditMoves

LEMMA PrepareMoves ==
  ASSUME TypeOK, NEW u \in Uploads, NEW s \in Suppliers, PrepareAttachment(u, s)
  PROVE  QuotesMove /\ FilesStay
<1>1. campaign = "collecting"
  BY DEF PrepareAttachment, OpenTo
<1>2. CASE Status(s) = "none"
  <2>1. quotes' = NewRevision(s, Draft(Incomplete)) /\ Incomplete \in Answers
    BY <1>2 DEF PrepareAttachment, Answers
  <2> QED BY <1>1, <1>2, <2>1, DraftTyped, FirstMoves
<1>3. CASE Status(s) # "none"
  <2>1. quotes' = quotes
    BY <1>3 DEF PrepareAttachment
  <2> QED BY <2>1, QuotesStay
<1> QED BY <1>2, <1>3

(* The file f is recorded for revision n of s, its draft, and nothing else *)
(* about the files changes.                                                *)
FileMoves(s, n, f) ==
  /\ n \in DOMAIN quotes[s] /\ quotes[s][n].status = "draft"
  /\ quotes'[s][n].file = f
  /\ \A z \in Suppliers :
       /\ DOMAIN quotes'[z] = DOMAIN quotes[z]
       /\ \A r \in DOMAIN quotes[z] :
            <<z, r>> # <<s, n>> => quotes'[z][r].file = quotes[z][r].file

LEMMA RecordMoves ==
  ASSUME TypeOK, NEW u \in Uploads, UploadIsSound(u), RecordAttachment(u)
  PROVE  /\ QuotesMove
         /\ \E s \in Suppliers, n \in Nat :
              upload[u].quote = <<s, n>> /\ FileMoves(s, n, upload[u].file)
<1>1. PICK s \in Suppliers, n \in Nat : upload[u].quote = <<s, n>>
  BY DEF UploadIsSound, RecordAttachment
<1>2. upload[u].file \in Files \cup {NoFile}
  BY DEF UploadIsSound, RecordAttachment
<1> DEFINE e == WithFile(Current(s), upload[u].file)
<1>3. /\ Status(s) = "draft" /\ n = Len(quotes[s])
      /\ Current(s).uploads < MaxUploads
      /\ quotes' = WithCurrent(s, e)
  BY <1>1 DEF RecordAttachment, Recordable
<1>4. /\ quotes[s] # <<>> /\ Current(s) \in Quotes /\ Current(s).status = "draft"
      /\ n \in DOMAIN quotes[s] /\ Current(s) = quotes[s][n]
  BY <1>3, QuotesTyped DEF Status, Current
<1>5. e \in Quotes /\ e.status = "draft" /\ e.file = upload[u].file
  <2>1. Current(s).uploads + 1 \in 0 .. MaxUploads
    BY <1>3, <1>4 DEF Quotes
  <2> QED BY <1>2, <1>4, <2>1 DEF WithFile, Quotes
<1> HIDE DEF e
<1>6. /\ QuotesMove
      /\ Len(quotes'[s]) = Len(quotes[s])
      /\ quotes'[s][Len(quotes[s])] = e
      /\ \A r \in 1 .. Len(quotes[s]) :
           r # Len(quotes[s]) => quotes'[s][r] = quotes[s][r]
      /\ \A z \in Suppliers : z # s => quotes'[z] = quotes[z]
  BY <1>3, <1>5, EditMoves
<1>7. DOMAIN quotes'[s] = DOMAIN quotes[s] /\ DOMAIN quotes[s] = 1 .. Len(quotes[s])
  BY <1>6, QuotesTyped DEF QuotesMove
<1>8. FileMoves(s, n, upload[u].file)
  BY <1>3, <1>4, <1>5, <1>6, <1>7 DEF FileMoves
<1> QED BY <1>1, <1>6, <1>8

-----------------------------------------------------------------------------
(* The files.                                                              *)

(* Upload u proceeds to e, and the others go on as they were.              *)
LEMMA UploadMoves ==
  ASSUME TypeOK, NEW u \in Uploads, NEW e \in UploadStates,
         upload' = [upload EXCEPT ![u] = e]
  PROVE  /\ upload' \in [Uploads -> UploadStates] /\ upload'[u] = e
         /\ \A v \in Uploads : v # u => upload'[v] = upload[v]
BY DEF TypeOK, PortalTypeOK

LEMMA NoUploadTyped == NoUpload \in UploadStates /\ NoUpload.step = "idle"
BY DEF NoUpload, UploadStates

LEMMA UploadSteps ==
  \A up \in UploadStates : \A step \in {"put", "record", "clean", "undo"} :
    LET e == [up EXCEPT !.step = step]
    IN  /\ e \in UploadStates /\ e.step = step /\ e.quote = up.quote
        /\ e.file = up.file /\ e.old = up.old
BY DEF UploadStates

(* As long as no revision gets a file, what nobody names stays so.         *)
LEMMA FilesFollow ==
  ASSUME FilesInv, FilesStay, stored \subseteq stored', unsure \subseteq unsure'
  PROVE  /\ FilesAreOwn' /\ AttachmentIsStored'
         /\ \A f \in Files : Unattached(f) => Unattached(f)'
<1>1. FilesAreOwn'
  BY DEF FilesInv, FilesAreOwn, FilesStay
<1>2. AttachmentIsStored'
  BY DEF FilesInv, AttachmentIsStored, FilesStay
<1>3. ASSUME NEW f \in Files, Unattached(f)
      PROVE  Unattached(f)'
  <2>1. f # NoFile
    OBVIOUS
  <2> QED BY <1>3, <2>1 DEF Unattached, FilesStay
<1> QED BY <1>1, <1>2, <1>3

(* An upload that goes on as it was stays sound.                           *)
LEMMA SoundFollows ==
  ASSUME FilesInv, FilesStay, UNCHANGED <<unsure, upload>>, stored \subseteq stored',
         NEW u \in Uploads
  PROVE  UploadIsSound(u)'
<1>1. UploadIsSound(u) /\ upload[u] \in UploadStates
  BY DEF FilesInv, TypeOK, PortalTypeOK
<1>2. \A f \in Files : Unattached(f) => Unattached(f)'
  BY FilesFollow
<1>3. upload[u].old \in Files \cup {NoFile}
  BY <1>1 DEF UploadStates
<1>4. ASSUME upload[u].step # "idle", upload[u].old # NoFile,
             NEW s \in Suppliers, NEW r \in DOMAIN quotes'[s],
             quotes'[s][r].file = upload[u].old
      PROVE  upload[u].quote = <<s, r>>
  BY <1>1, <1>4 DEF FilesStay, UploadIsSound
<1> QED BY <1>1, <1>2, <1>3, <1>4 DEF UploadIsSound

FilesGoOn ==
  /\ FilesAreOwn' /\ AttachmentIsStored'
  /\ \A u \in Uploads : UploadIsSound(u)'
  /\ upload' \in [Uploads -> UploadStates]
  /\ stored' \subseteq Files /\ unsure' \subseteq Files

LEMMA FilesTyped ==
  ASSUME FilesInv
  PROVE  /\ TypeOK /\ upload \in [Uploads -> UploadStates]
         /\ stored \subseteq Files /\ unsure \subseteq Files
         /\ \A u \in Uploads :
              /\ UploadIsSound(u) /\ upload[u] \in UploadStates
              /\ upload[u].file \in Files \cup {NoFile}
              /\ upload[u].old \in Files \cup {NoFile}
<1>1. /\ TypeOK /\ upload \in [Uploads -> UploadStates]
      /\ stored \subseteq Files /\ unsure \subseteq Files
  BY DEF FilesInv, TypeOK, PortalTypeOK
<1> QED BY <1>1 DEF FilesInv, UploadStates

LEMMA FilesRest ==
  ASSUME FilesInv, FilesStay, UNCHANGED <<unsure, upload, stored>>
  PROVE  FilesGoOn
BY FilesFollow, SoundFollows, FilesTyped DEF FilesGoOn

(* An upload that ends leaves the others sound.                            *)
LEMMA UploadEnds ==
  ASSUME FilesInv, NEW u \in Uploads, UNCHANGED <<quotes, unsure, stored>>,
         upload' = [upload EXCEPT ![u] = NoUpload]
  PROVE  FilesGoOn
<1>1. /\ upload' \in [Uploads -> UploadStates] /\ upload'[u] = NoUpload
      /\ \A v \in Uploads : v # u => upload'[v] = upload[v]
  BY FilesTyped, NoUploadTyped, UploadMoves
<1>2. FilesAreOwn' /\ AttachmentIsStored'
  BY DEF FilesInv, FilesAreOwn, AttachmentIsStored
<1>3. ASSUME NEW v \in Uploads
      PROVE  UploadIsSound(v)'
  <2>1. CASE v = u
    BY <1>1, <2>1, NoUploadTyped DEF UploadIsSound
  <2>2. CASE v # u
    BY <1>1, <2>2, FilesTyped, NoUploadTyped DEF UploadIsSound, Unattached
  <2> QED BY <2>1, <2>2
<1> QED BY <1>1, <1>2, <1>3, FilesTyped DEF FilesGoOn

LEMMA PutKeepsFiles ==
  ASSUME FilesInv, NEW u \in Uploads, PutFile(u)
  PROVE  FilesGoOn
<1> DEFINE e == [upload[u] EXCEPT !.step = "record"]
<1>1. /\ upload[u] \in UploadStates /\ upload[u].step = "put"
      /\ UploadIsSound(u) /\ upload[u].file \in Files
  BY FilesTyped DEF PutFile, UploadIsSound
<1>2. /\ e \in UploadStates /\ e.step = "record" /\ e.quote = upload[u].quote
      /\ e.file = upload[u].file /\ e.old = upload[u].old
  BY <1>1, UploadSteps
<1>3. /\ upload' = [upload EXCEPT ![u] = e]
      /\ stored' = stored \cup {upload[u].file} /\ UNCHANGED <<quotes, unsure>>
  BY DEF PutFile
<1> HIDE DEF e
<1>4. /\ upload' \in [Uploads -> UploadStates] /\ upload'[u] = e
      /\ \A v \in Uploads : v # u => upload'[v] = upload[v]
  BY <1>2, <1>3, FilesTyped, UploadMoves
<1>5. FilesAreOwn' /\ AttachmentIsStored'
  BY <1>3 DEF FilesInv, FilesAreOwn, AttachmentIsStored
<1>6. ASSUME NEW v \in Uploads
      PROVE  UploadIsSound(v)'
  <2>1. CASE v = u
    BY <1>1, <1>2, <1>3, <1>4, <2>1 DEF UploadIsSound, Unattached
  <2>2. CASE v # u
    BY <1>1, <1>2, <1>3, <1>4, <2>2, FilesTyped DEF UploadIsSound, Unattached
  <2> QED BY <2>1, <2>2
<1> QED BY <1>1, <1>3, <1>4, <1>5, <1>6, FilesTyped DEF FilesGoOn

LEMMA RefusalKeepsFiles ==
  ASSUME FilesInv, NEW u \in Uploads, RefuseAttachment(u)
  PROVE  FilesGoOn
<1> DEFINE e == [upload[u] EXCEPT !.step = "undo"]
<1>1. /\ upload[u] \in UploadStates /\ upload[u].step = "record"
      /\ UploadIsSound(u) /\ upload[u].file \in Files
  BY FilesTyped DEF RefuseAttachment, UploadIsSound
<1>2. /\ e \in UploadStates /\ e.step = "undo" /\ e.quote = upload[u].quote
      /\ e.file = upload[u].file /\ e.old = upload[u].old
  BY <1>1, UploadSteps
<1>3. upload' = [upload EXCEPT ![u] = e] /\ UNCHANGED <<stored, quotes, unsure>>
  BY DEF RefuseAttachment
<1> HIDE DEF e
<1>4. /\ upload' \in [Uploads -> UploadStates] /\ upload'[u] = e
      /\ \A v \in Uploads : v # u => upload'[v] = upload[v]
  BY <1>2, <1>3, FilesTyped, UploadMoves
<1>5. FilesAreOwn' /\ AttachmentIsStored'
  BY <1>3 DEF FilesInv, FilesAreOwn, AttachmentIsStored
<1>6. ASSUME NEW v \in Uploads
      PROVE  UploadIsSound(v)'
  <2>1. \A f : Unattached(f)' <=> Unattached(f)
    BY <1>3 DEF Unattached
  <2>2. CASE v = u
    BY <1>1, <1>2, <1>3, <1>4, <2>1, <2>2 DEF UploadIsSound
  <2>3. CASE v # u
    <3>1. upload'[v] = upload[v] /\ UploadIsSound(v)
      BY <1>4, <2>3, FilesTyped
    <3> QED BY <1>1, <1>2, <1>3, <1>4, <2>1, <3>1 DEF UploadIsSound
  <2> QED BY <2>2, <2>3
<1> QED BY <1>3, <1>4, <1>5, <1>6, FilesTyped DEF FilesGoOn

(* What an upload removes at its end no revision names, unless the answer  *)
(* to its recording was lost.                                              *)
LEMMA RemovalKeepsFiles ==
  ASSUME FilesInv, NEW u \in Uploads, RemoveLeftover(u)
  PROVE  FilesGoOn
<1>1. PICK f : /\ f = IF upload[u].step = "clean" THEN upload[u].old ELSE upload[u].file
               /\ stored' = stored \ {f}
  BY DEF RemoveLeftover, Leftover
<1>2. /\ UploadIsSound(u) /\ upload[u].step \in {"clean", "undo"}
      /\ upload' = [upload EXCEPT ![u] = NoUpload] /\ UNCHANGED <<quotes, unsure>>
  BY FilesTyped DEF RemoveLeftover
<1>3. /\ upload' \in [Uploads -> UploadStates] /\ upload'[u] = NoUpload
      /\ \A v \in Uploads : v # u => upload'[v] = upload[v]
  BY <1>2, FilesTyped, NoUploadTyped, UploadMoves
<1>4. f \in unsure \cup {NoFile} \/ Unattached(f)
  BY <1>1, <1>2 DEF UploadIsSound
<1>5. AttachmentIsStored'
  BY <1>1, <1>2, <1>4 DEF FilesInv, AttachmentIsStored, Unattached
<1>6. FilesAreOwn'
  BY <1>2 DEF FilesInv, FilesAreOwn
<1>7. ASSUME NEW v \in Uploads
      PROVE  UploadIsSound(v)'
  <2>1. CASE v = u
    BY <1>3, <2>1, NoUploadTyped DEF UploadIsSound
  <2>2. CASE v # u
    <3>1. UploadIsSound(v)
      BY FilesTyped
    <3>2. upload[v].step = "record" => upload[v].file # f
      BY <1>1, <1>2, <2>2, <3>1 DEF UploadIsSound
    <3> QED BY <1>1, <1>2, <1>3, <2>2, <3>1, <3>2, NoUploadTyped
      DEF UploadIsSound, Unattached
  <2> QED BY <2>1, <2>2
<1> QED BY <1>1, <1>2, <1>3, <1>5, <1>6, <1>7, FilesTyped DEF FilesGoOn

LEMMA PrepareKeepsFiles ==
  ASSUME FilesInv, NEW u \in Uploads, NEW s \in Suppliers, PrepareAttachment(u, s)
  PROVE  FilesGoOn
<1>1. TypeOK /\ UNCHANGED <<stored, unsure>>
  BY FilesTyped DEF PrepareAttachment
<1>2. QuotesMove /\ FilesStay
  BY <1>1, PrepareMoves
<1> DEFINE old == IF Status(s) = "draft" THEN Current(s).file ELSE NoFile
           n == Len(quotes'[s])
<1>3. PICK f \in Fresh :
        upload' = [upload EXCEPT ![u] =
          [step |-> "put", quote |-> <<s, n>>, file |-> f, old |-> old]]
  BY DEF PrepareAttachment
<1>4. n \in Nat
  BY <1>2 DEF QuotesMove
<1>5. /\ old \in Files \cup {NoFile}
      /\ \A z \in Suppliers : \A r \in DOMAIN quotes'[z] :
           quotes'[z][r].file = old /\ old # NoFile => <<s, n>> = <<z, r>>
      /\ \A v \in Uploads :
           upload[v].step \in {"put", "record"} => upload[v].file # old
  <2>1. CASE Status(s) = "draft"
    <3>1. /\ quotes[s] # <<>> /\ quotes' = quotes /\ n = Len(quotes[s])
          /\ Current(s) \in Quotes /\ n \in DOMAIN quotes[s]
          /\ old = quotes[s][n].file
      BY <1>1, <2>1, QuotesTyped DEF PrepareAttachment, Status, Current
    <3>2. old \in Files \cup {NoFile}
      BY <3>1, <1>1, QuotesTyped DEF Quotes
    <3>3. \A v \in Uploads :
            upload[v].step \in {"put", "record"} => upload[v].file # old
      BY <3>1, FilesTyped DEF UploadIsSound, Unattached
    <3> QED BY <3>1, <3>2, <3>3 DEF FilesInv, FilesAreOwn
  <2>2. CASE Status(s) # "draft"
    BY <2>2, FilesTyped DEF UploadIsSound
  <2> QED BY <2>1, <2>2
<1>6. /\ f \in Files /\ f \notin stored /\ f \notin unsure
      /\ Unattached(f)
      /\ \A v \in Uploads : upload[v].file # f /\ upload[v].old # f
  BY <1>3 DEF Fresh, Attached, InFlight, Unattached
<1>7. old # f
  BY <1>1, <1>6, QuotesTyped DEF Unattached, Status, Current
<1> HIDE DEF old, n
<1> DEFINE e == [step |-> "put", quote |-> <<s, n>>, file |-> f, old |-> old]
<1>8. /\ e \in UploadStates /\ e.step = "put" /\ e.quote = <<s, n>>
      /\ e.file = f /\ e.old = old
  BY <1>4, <1>5, <1>6 DEF UploadStates
<1>9. upload' = [upload EXCEPT ![u] = e]
  BY <1>3
<1> HIDE DEF e
<1>10. /\ upload' \in [Uploads -> UploadStates] /\ upload'[u] = e
       /\ \A v \in Uploads : v # u => upload'[v] = upload[v]
  BY <1>1, <1>8, <1>9, UploadMoves
<1>11. /\ FilesAreOwn' /\ AttachmentIsStored'
       /\ \A g \in Files : Unattached(g) => Unattached(g)'
  BY <1>1, <1>2, FilesFollow
<1>12. upload[u].step = "idle"
  BY DEF PrepareAttachment, NoUpload
<1>13. ASSUME NEW v \in Uploads
       PROVE  UploadIsSound(v)'
  <2>1. CASE v = u
    <3>1. upload'[v] = e
      BY <1>10, <2>1
    <3>2. /\ f \notin unsure' /\ Unattached(f)'
          /\ \A w \in Uploads : upload'[w].step # "idle" => upload'[w].old # f
          /\ \A w \in Uploads : w # v => upload'[w].file # f
      BY <1>1, <1>6, <1>7, <1>8, <1>10, <1>11, <2>1
    <3>3. e.quote \in Suppliers \X Nat
      BY <1>4, <1>8
    <3> QED BY <1>5, <1>6, <1>8, <3>1, <3>2, <3>3 DEF UploadIsSound
  <2>2. CASE v # u
    <3>1. UploadIsSound(v) /\ upload'[v] = upload[v]
      BY <1>10, <2>2, FilesTyped
    <3>2. ASSUME upload[v].step # "idle", upload[v].old # NoFile,
                 NEW z \in Suppliers, NEW r \in DOMAIN quotes'[z],
                 quotes'[z][r].file = upload[v].old
          PROVE  upload[v].quote = <<z, r>>
      BY <1>2, <3>1, <3>2 DEF FilesStay, UploadIsSound
    <3>3. upload[v].old \in Files \cup {NoFile}
      BY FilesTyped
    <3> QED BY <1>1, <1>5, <1>6, <1>8, <1>10, <1>11, <1>12, <2>2, <3>1, <3>2, <3>3
      DEF UploadIsSound
  <2> QED BY <2>1, <2>2
<1> QED BY <1>1, <1>10, <1>11, <1>13, FilesTyped DEF FilesGoOn

(* A recording gives its file to the draft of the permit, which loses the  *)
(* file it had.                                                            *)
LEMMA RecordKeepsFiles ==
  ASSUME FilesInv, NEW u \in Uploads, RecordAttachment(u)
  PROVE  FilesGoOn
<1> DEFINE f == upload[u].file
<1>1. /\ TypeOK /\ UploadIsSound(u) /\ upload[u].step = "record" /\ UNCHANGED stored
      /\ upload[u] \in UploadStates
  BY FilesTyped DEF RecordAttachment
<1>2. PICK s \in Suppliers, n \in Nat :
        upload[u].quote = <<s, n>> /\ FileMoves(s, n, f)
  BY <1>1, RecordMoves
<1>3. /\ f \in Files /\ f \in stored /\ f \notin unsure /\ Unattached(f)
      /\ \A v \in Uploads : upload[v].step # "idle" => upload[v].old # f
      /\ \A v \in Uploads : upload[v].step # "idle" /\ v # u => upload[v].file # f
  BY <1>1 DEF UploadIsSound
<1>4. \E step \in {"clean", "undo"} :
        /\ upload' = [upload EXCEPT ![u] = [upload[u] EXCEPT !.step = step]]
        /\ unsure' = IF step = "undo" THEN unsure \cup {f} ELSE unsure
  BY Zenon DEF RecordAttachment
<1>5. PICK step \in {"clean", "undo"} :
        /\ upload' = [upload EXCEPT ![u] = [upload[u] EXCEPT !.step = step]]
        /\ unsure' = IF step = "undo" THEN unsure \cup {f} ELSE unsure
  BY <1>4
<1> DEFINE e == [upload[u] EXCEPT !.step = step]
<1>6. /\ e \in UploadStates /\ e.step = step /\ e.quote = <<s, n>>
      /\ e.file = f /\ e.old = upload[u].old
  BY <1>1, <1>2 DEF UploadStates
<1>7. upload' = [upload EXCEPT ![u] = e]
  BY <1>5
<1> HIDE DEF e
<1>8. /\ upload' \in [Uploads -> UploadStates] /\ upload'[u] = e
      /\ \A v \in Uploads : v # u => upload'[v] = upload[v]
  BY <1>1, <1>6, <1>7, UploadMoves
<1>9. \A z \in Suppliers : \A r \in DOMAIN quotes'[z] :
        /\ r \in DOMAIN quotes[z]
        /\ IF z = s /\ r = n THEN quotes'[z][r].file = f
           ELSE quotes'[z][r].file = quotes[z][r].file
  BY <1>2 DEF FileMoves
<1> HIDE DEF f
<1>10. FilesAreOwn'
  BY <1>3, <1>9 DEF FilesInv, FilesAreOwn, Unattached
<1>11. AttachmentIsStored'
  BY <1>1, <1>3, <1>5, <1>9 DEF FilesInv, AttachmentIsStored
<1>12. \A g : g # f /\ Unattached(g) => Unattached(g)'
  BY <1>9 DEF Unattached
<1>13. ASSUME NEW v \in Uploads
       PROVE  UploadIsSound(v)'
  <2>1. UploadIsSound(v)
    BY FilesTyped
  <2>2. ASSUME upload[v].step # "idle", upload[v].old # NoFile,
               NEW z \in Suppliers, NEW r \in DOMAIN quotes'[z],
               quotes'[z][r].file = upload[v].old
        PROVE  upload[v].quote = <<z, r>> /\ <<z, r>> # <<s, n>>
    BY <1>3, <1>9, <2>1, <2>2 DEF UploadIsSound
  <2>3. PICK g : g = upload[v].old
    OBVIOUS
  <2>4. CASE v = u
    <3>1. upload'[v] = e /\ e.old = g
      BY <1>6, <1>8, <2>3, <2>4
    <3>2. g # NoFile => Unattached(g)'
      BY <1>1, <1>2, <2>2, <2>3, <2>4 DEF Unattached
    <3>3. step = "undo" => f \in unsure'
      BY <1>5
    <3>4. \A w \in Uploads : upload'[w].step # "idle" /\ w # v => upload'[w].file # f
      BY <1>3, <1>8, <2>4
    <3>5. step \in {"clean", "undo"} /\ e.quote \in Suppliers \X Nat
      BY <1>5, <1>6
    <3> QED BY <1>3, <1>6, <3>1, <3>2, <3>3, <3>4, <3>5
      DEF UploadIsSound, Unattached
  <2>5. CASE v # u
    <3>1. upload'[v] = upload[v] /\ (upload[v].step # "idle" => upload[v].file # f)
      BY <1>3, <1>8, <2>5
    <3>2. upload[v].step = "clean" /\ g # NoFile => Unattached(g)'
      BY <1>3, <1>12, <2>1, <2>3 DEF UploadIsSound
    <3>3. PICK h : h = upload[v].file
      OBVIOUS
    <3>4. upload[v].step \in {"put", "record"} => h \notin unsure' /\ Unattached(h)'
      BY <1>5, <1>12, <2>1, <3>1, <3>3 DEF UploadIsSound
    <3>5. upload[v].step = "undo" => h \in unsure' \/ Unattached(h)'
      BY <1>5, <1>12, <2>1, <3>1, <3>3 DEF UploadIsSound
    <3>6. \A w \in Uploads : upload'[w].step # "idle" =>
            upload[w].step # "idle" /\ upload'[w].old = upload[w].old
              /\ upload'[w].file = upload[w].file
      BY <1>1, <1>6, <1>8 DEF f
    <3> QED BY <1>1, <2>1, <2>2, <2>3, <3>1, <3>2, <3>3, <3>4, <3>5, <3>6
      DEF UploadIsSound
  <2> QED BY <2>4, <2>5
<1>14. stored' \subseteq Files /\ unsure' \subseteq Files
  BY <1>1, <1>3, <1>5, FilesTyped
<1> QED BY <1>8, <1>10, <1>11, <1>13, <1>14 DEF FilesGoOn

-----------------------------------------------------------------------------
(* Every step, as the quotes, the files and the awards see it.             *)
LEMMA PortalMoves ==
  ASSUME FilesInv, [Next]_vars
  PROVE  QuotesMove /\ FilesGoOn
<1>1. TypeOK
  BY FilesTyped
<1>2. CASE UNCHANGED <<quotes, unsure, upload, stored>>
  BY <1>1, <1>2, QuotesStay, FilesRest
<1>3. ASSUME QuotesMove, FilesStay, UNCHANGED <<unsure, upload, stored>>
      PROVE  QuotesMove /\ FilesGoOn
  BY <1>3, FilesRest
<1>4. CASE \E t \in Tabs : SubmitAndSync(t)
  <2>1. PICK t \in Tabs : SubmitQuote(t)
    BY <1>4 DEF SubmitAndSync
  <2>2. UNCHANGED <<unsure, upload, stored>>
    BY <2>1 DEF SubmitQuote
  <2> QED BY <1>1, <1>3, <2>1, <2>2, SubmitMoves
<1>5. CASE PortalStep
  <2>1. CASE PassDay \/ \E t \in Tabs : LeaveTab(t)
    BY <1>2, <2>1 DEF PassDay, LeaveTab
  <2>2. ASSUME NEW s \in Suppliers, NEW lines \in Answers,
               SaveDraft(s, lines) \/ \E t \in Tabs : SaveToSubmit(t, s, lines)
        PROVE  QuotesMove /\ FilesGoOn
    <3>1. SaveQuote(s, lines) /\ UNCHANGED <<unsure, upload, stored>>
      BY <2>2 DEF SaveDraft, SaveToSubmit
    <3> QED BY <1>1, <1>3, <3>1, SaveMoves
  <2>3. ASSUME NEW s \in Suppliers, DeclineQuote(s)
        PROVE  QuotesMove /\ FilesGoOn
    <3>1. UNCHANGED <<unsure, upload, stored>>
      BY <2>3 DEF DeclineQuote
    <3> QED BY <1>1, <1>3, <2>3, <3>1, DeclineMoves
  <2>4. ASSUME NEW s \in Suppliers, StartRevision(s)
        PROVE  QuotesMove /\ FilesGoOn
    <3>1. /\ Status(s) = "submitted" /\ campaign = "collecting"
          /\ quotes' = Revised(s) /\ UNCHANGED <<unsure, upload, stored>>
      BY <2>4 DEF StartRevision, OpenTo
    <3> QED BY <1>1, <1>3, <3>1, RevisedMoves
  <2>5. ASSUME NEW u \in Uploads, NEW s \in Suppliers, PrepareAttachment(u, s)
        PROVE  QuotesMove /\ FilesGoOn
    BY <1>1, <2>5, PrepareMoves, PrepareKeepsFiles
  <2>6. ASSUME NEW u \in Uploads, RecordAttachment(u)
        PROVE  QuotesMove /\ FilesGoOn
    BY <1>1, <2>6, RecordMoves, RecordKeepsFiles, FilesTyped
  <2>7. ASSUME NEW u \in Uploads,
               PutFile(u) \/ RefuseAttachment(u) \/ RemoveLeftover(u) \/ DropUpload(u)
        PROVE  QuotesMove /\ FilesGoOn
    <3>1. UNCHANGED quotes
      BY <2>7 DEF PutFile, RefuseAttachment, RemoveLeftover, DropUpload
    <3>2. DropUpload(u) => FilesGoOn
      BY UploadEnds DEF DropUpload
    <3> QED BY <1>1, <2>7, <3>1, <3>2, QuotesStay, PutKeepsFiles, RefusalKeepsFiles,
        RemovalKeepsFiles
  <2> QED BY <1>5, <2>1, <2>2, <2>3, <2>4, <2>5, <2>6, <2>7 DEF PortalStep
<1>6. CASE ThreadStep \/ UNCHANGED vars
  <2> DEFINE Rest == UNCHANGED <<quotes, unsure, upload, stored>>
  <2>1. UNCHANGED vars => Rest
    BY DEF vars, portalVars
  <2>2. /\ \A s \in Suppliers : SupplierPost(s) => Rest
        /\ ConfirmAward => Rest
    BY DEF SupplierPost, ConfirmAward, portalVars
  <2>3. ASSUME NEW w \in Windows, NEW s \in Suppliers
        PROVE  /\ \A kind, d : BuyerPost(w, s, kind, d) => Rest
               /\ PrepareReminder(w, s) => Rest
    <3>1. \A kind, d : BuyerPost(w, s, kind, d) => Rest
      BY DEF BuyerPost
    <3>2. PrepareReminder(w, s) => Rest
      BY DEF PrepareReminder, portalVars
    <3> QED BY <3>1, <3>2
  <2>4. \A w \in Windows :
          SendNotification(w) \/ MarkNotification(w) \/ DropWindow(w) => Rest
    BY DEF SendNotification, MarkNotification, DropWindow, portalVars
  <2>5. \A s \in Suppliers : \A k : NotificationBounced(s, k) => Rest
    BY DEF NotificationBounced
  <2> HIDE DEF Rest
  <2>6. Rest
    BY <1>6, <2>1, <2>2, <2>3, <2>4, <2>5 DEF ThreadStep
  <2> QED BY <1>2, <2>6 DEF Rest
<1> QED BY <1>1, <1>4, <1>5, <1>6, StepKinds

-----------------------------------------------------------------------------
(* How many offers a supplier has submitted.                               *)
Offered == {"submitted", "superseded"}
SubmittedRevisions(s) == {r \in DOMAIN quotes[s] : quotes[s][r].status \in Offered}

LEMMA SubmittedTyped ==
  ASSUME TypeOK, NEW s \in Suppliers
  PROVE  /\ IsFiniteSet(SubmittedRevisions(s))
         /\ Submitted(s) = Cardinality(SubmittedRevisions(s)) /\ Submitted(s) \in Nat
<1>1. IsFiniteSet(1 .. Len(quotes[s])) /\ DOMAIN quotes[s] = 1 .. Len(quotes[s])
  BY QuotesTyped, FS_Interval
<1>2. IsFiniteSet(SubmittedRevisions(s))
  BY <1>1, FS_Subset DEF SubmittedRevisions
<1>3. Submitted(s) = Cardinality(SubmittedRevisions(s))
  BY DEF Submitted, SubmittedRevisions, Offered
<1> QED BY <1>2, <1>3, FS_CardinalityType

(* No step takes a submitted offer away, and none adds one after the award.*)
LEMMA SubmittedGrows ==
  ASSUME TypeOK, NEW s \in Suppliers, RevisionsMove(s)
  PROVE  /\ Submitted(s)' \in Nat /\ Submitted(s) <= Submitted(s)'
         /\ campaign # "collecting" => Submitted(s)' = Submitted(s)
         /\ quotes'[s] # quotes[s] /\ Len(quotes'[s]) = Len(quotes[s])
              /\ quotes'[s][Len(quotes[s])].status = "submitted"
            => Submitted(s)' = Submitted(s) + 1
<1> DEFINE n == Len(quotes[s])
           old == SubmittedRevisions(s)
           new == {r \in DOMAIN quotes'[s] : quotes'[s][r].status \in Offered}
<1>1. /\ n \in Nat /\ DOMAIN quotes[s] = 1 .. n
      /\ \A r \in 1 .. n : quotes[s][r] \in Quotes
      /\ quotes'[s] \in Seq(Quotes) /\ DOMAIN quotes'[s] = 1 .. Len(quotes'[s])
  BY QuotesTyped DEF RevisionsMove
<1>2. Submitted(s)' = Cardinality(new)
  BY DEF Submitted, Offered
<1>3. IsFiniteSet(old) /\ Cardinality(old) \in Nat /\ Submitted(s) = Cardinality(old)
  BY SubmittedTyped
<1>4. CASE new = old /\ ~(/\ quotes'[s] # quotes[s] /\ Len(quotes'[s]) = n
                          /\ quotes'[s][n].status = "submitted")
  <2> DEFINE c == Submitted(s)
  <2>1. c \in Nat /\ Submitted(s)' = c
    BY <1>2, <1>3, <1>4
  <2> HIDE DEF c, new, old
  <2>2. c <= c
    BY <2>1
  <2>3. Submitted(s)' \in Nat /\ c <= Submitted(s)'
    BY <2>1, <2>2, Zenon
  <2> QED BY <1>4, <2>1, <2>3, Zenon DEF c
<1>5. CASE quotes'[s] = quotes[s]
  BY <1>4, <1>5 DEF SubmittedRevisions
<1>6. CASE /\ n > 0 /\ Len(quotes'[s]) = n /\ quotes[s][n].status = "draft"
           /\ quotes'[s][n].status \in {"draft", "submitted", "declined"}
           /\ campaign = "collecting" \/ quotes'[s][n].status = "draft"
           /\ \A r \in 1 .. n : r # n => quotes'[s][r] = quotes[s][r]
  <2>1. CASE quotes'[s][n].status # "submitted"
    <3>1. new = old
      BY <1>1, <1>6, <2>1 DEF SubmittedRevisions, Offered
    <3> QED BY <1>4, <2>1, <3>1
  <2>2. CASE quotes'[s][n].status = "submitted"
    <3>1. new = old \cup {n} /\ n \notin old
      BY <1>1, <1>6, <2>2 DEF SubmittedRevisions, Offered
    <3>2. Cardinality(new) = Cardinality(old) + 1
      BY <1>3, <3>1, FS_AddElement
    <3> QED BY <1>2, <1>3, <1>6, <2>2, <3>2
  <2> QED BY <2>1, <2>2
<1>7. CASE /\ Len(quotes'[s]) = n + 1
           /\ quotes'[s][n + 1].status \in {"draft", "declined"}
           /\ \A r \in 1 .. n : r # n => quotes'[s][r] = quotes[s][r]
           /\ n > 0 => /\ quotes[s][n].status = "submitted"
                       /\ quotes'[s][n].status = "superseded"
  <2>1. DOMAIN quotes'[s] = 1 .. (n + 1) /\ n + 1 \notin new
    BY <1>1, <1>7 DEF Offered
  <2>2. ASSUME NEW r \in 1 .. n
        PROVE  quotes'[s][r].status \in Offered <=> quotes[s][r].status \in Offered
    <3>1. CASE r = n
      <4>1. n > 0
        BY <1>1, <3>1
      <4> QED BY <1>7, <3>1, <4>1 DEF Offered
    <3>2. CASE r # n
      BY <1>7, <3>2
    <3> QED BY <3>1, <3>2
  <2>3. \A r : r \in 1 .. (n + 1) <=> r \in 1 .. n \/ r = n + 1
    BY <1>1
  <2>4. new = old
    BY <1>1, <2>1, <2>2, <2>3 DEF SubmittedRevisions
  <2> QED BY <1>1, <1>4, <1>7, <2>4
<1> QED BY <1>5, <1>6, <1>7 DEF RevisionsMove

-----------------------------------------------------------------------------
(* The messages and threads.                                               *)

(* A message that is not sent yet is added to the thread of s.             *)
Added(s, kind, round) ==
  LET n == Len(messages[s])
  IN  /\ DOMAIN messages[s] = 1 .. n /\ Len(messages'[s]) = n + 1
      /\ DOMAIN messages'[s] = 1 .. (n + 1)
      /\ messages'[s][n + 1].kind = kind /\ messages'[s][n + 1].round = round
      /\ messages'[s][n + 1].notice # "sent"
      /\ \A k \in 1 .. n : messages'[s][k] = messages[s][k]

(* The messages of s stay, with the results of mails that were taken.      *)
MessagesStay(s) ==
  /\ DOMAIN messages'[s] = DOMAIN messages[s]
  /\ Len(messages'[s]) = Len(messages[s])
  /\ \A k \in DOMAIN messages[s] :
       /\ messages'[s][k].kind = messages[s][k].kind
       /\ messages'[s][k].round = messages[s][k].round
       /\ messages'[s][k].notice = "sent"
            => messages[s][k].notice = "sent" \/ <<s, k>> \in mailed

LEMMA MessagesTyped ==
  ASSUME TypeOK, NEW s \in Suppliers
  PROVE  /\ messages \in [Suppliers -> Seq(Messages)]
         /\ messages[s] \in Seq(Messages) /\ Len(messages[s]) \in Nat
         /\ DOMAIN messages[s] = 1 .. Len(messages[s])
         /\ \A k \in DOMAIN messages[s] : messages[s][k] \in Messages
         /\ thread \in [Suppliers -> Threads] /\ thread[s] \in Threads
BY DEF TypeOK

LEMMA MessageAdded ==
  ASSUME TypeOK, NEW s \in Suppliers, NEW m \in Messages, m.notice # "sent",
         messages' = [messages EXCEPT ![s] = Append(messages[s], m)]
  PROVE  /\ messages' \in [Suppliers -> Seq(Messages)]
         /\ Added(s, m.kind, m.round)
         /\ \A z \in Suppliers : z # s => messages'[z] = messages[z] /\ MessagesStay(z)
<1> DEFINE p == Append(messages[s], m)
<1>1. /\ p \in Seq(Messages) /\ Len(p) = Len(messages[s]) + 1
      /\ DOMAIN p = 1 .. (Len(messages[s]) + 1) /\ p[Len(messages[s]) + 1] = m
      /\ \A k \in 1 .. Len(messages[s]) : p[k] = messages[s][k]
  BY MessagesTyped
<1>2. messages' = [messages EXCEPT ![s] = p] /\ messages \in [Suppliers -> Seq(Messages)]
  BY MessagesTyped
<1> HIDE DEF p
<1>3. /\ messages' \in [Suppliers -> Seq(Messages)]
      /\ \A z \in Suppliers : messages'[z] = IF z = s THEN p ELSE messages[z]
  BY <1>1, <1>2
<1>4. Added(s, m.kind, m.round)
  BY <1>1, <1>3, MessagesTyped DEF Added
<1> QED BY <1>3, <1>4 DEF MessagesStay

LEMMA NewMessages ==
  \A round \in Nat :
    /\ \A kind \in Requests \cup {"message", "reminder"} :
         /\ FromBuyer(kind, round) \in Messages
         /\ FromBuyer(kind, round).kind = kind
         /\ FromBuyer(kind, round).round = round
         /\ FromBuyer(kind, round).notice # "sent"
    /\ \A kind \in {"supplier", "system"} :
         /\ ToBuyer(kind, round) \in Messages
         /\ ToBuyer(kind, round).kind = kind
         /\ ToBuyer(kind, round).round = round
         /\ ToBuyer(kind, round).notice # "sent"
BY DEF FromBuyer, ToBuyer, Messages

(* How the thread of s moves: it stays; the buyer posts a message or a     *)
(* request; the buyer is reminding; the supplier posts a message; a        *)
(* submission answers the request; the award closes it.                    *)
ThreadStays(s) == UNCHANGED <<thread[s], asked[s], campaign>> /\ MessagesStay(s)

MessagePosted(s) ==
  LET t == thread[s]
      p == thread'[s]
  IN  /\ campaign = "collecting" /\ t.status # "closed"
      /\ p.status = "awaiting_supplier" /\ p.request = NoRequest /\ p.round = t.round
      /\ asked'[s].known = 0 /\ UNCHANGED campaign
      /\ Added(s, "message", t.round)

RequestPosted(s) ==
  LET t == thread[s]
      p == thread'[s]
  IN  /\ campaign = "collecting" /\ t.status # "closed"
      /\ p.request \in Requests /\ p.round = t.round + 1 /\ p.reminders = 0
      /\ p.status = IF p.request = "bafo" THEN "bafo_requested" ELSE "awaiting_supplier"
      /\ p.due # NoDue => due' # NoDue /\ p.due <= due'
      /\ asked'[s].request = p.request
      /\ asked'[s].known = IF p.request = "bafo" THEN Submitted(s) ELSE 0
      /\ UNCHANGED campaign
      /\ Added(s, p.request, t.round + 1)

Reminded(s) ==
  LET t == thread[s]
      p == thread'[s]
  IN  /\ t.request # NoRequest /\ t.reminders < MaxReminders
      /\ p.status = t.status /\ p.request = t.request /\ p.due = t.due
      /\ p.round = t.round /\ p.reminders = t.reminders + 1
      /\ UNCHANGED <<asked[s], campaign>>
      /\ Added(s, "reminder", t.round)

SupplierAnswered(s) ==
  LET t == thread[s]
      p == thread'[s]
  IN  /\ campaign = "collecting" /\ t.status # "closed"
      /\ p.status = CASE t.request = "bafo" -> "bafo_requested"
                      [] t.request \in {"revision", "counter_target"}
                           -> "awaiting_supplier"
                      [] OTHER -> "awaiting_buyer"
      /\ p.request = t.request /\ p.due = t.due /\ p.round = t.round
      /\ p.reminders = t.reminders
      /\ UNCHANGED <<asked[s], campaign>>
      /\ Added(s, "supplier", t.round)

RequestAnswered(s) ==
  LET t == thread[s]
      p == thread'[s]
  IN  /\ campaign = "collecting" /\ t.status # "none" /\ t.request # NoRequest
      /\ p.request = NoRequest /\ p.round = t.round
      /\ p.status = IF t.request = "bafo" THEN "bafo_received" ELSE "awaiting_buyer"
      /\ Submitted(s)' = Submitted(s) + 1
      /\ UNCHANGED <<asked[s], campaign>>
      /\ Added(s, "system", t.round)

ThreadClosed(s) ==
  /\ campaign' = "awarded" /\ thread'[s] = Closed(s)
  /\ UNCHANGED asked[s] /\ MessagesStay(s)

ThreadMoves(s) ==
  \/ ThreadStays(s) \/ MessagePosted(s) \/ RequestPosted(s) \/ Reminded(s)
  \/ SupplierAnswered(s) \/ RequestAnswered(s) \/ ThreadClosed(s)

TalkGoesOn ==
  /\ thread' \in [Suppliers -> Threads] /\ messages' \in [Suppliers -> Seq(Messages)]
  /\ asked' \in [Suppliers -> [request : Requests \cup {NoRequest}, known : Nat]]
  /\ due' \in Days \cup {NoDue}
  /\ due # NoDue => due' # NoDue /\ due <= due'
  /\ campaign' \in {"collecting", "awarded"}
  /\ campaign # "collecting" => campaign' = campaign
  /\ \A s \in Suppliers : ThreadMoves(s)

LEMMA TalkTyped ==
  ASSUME TypeOK
  PROVE  /\ thread \in [Suppliers -> Threads]
         /\ messages \in [Suppliers -> Seq(Messages)]
         /\ asked \in [Suppliers -> [request : Requests \cup {NoRequest}, known : Nat]]
         /\ campaign \in {"collecting", "awarded"}
         /\ due \in Days \cup {NoDue} /\ now \in Days
         /\ Days \subseteq Int /\ 0 \in Days /\ (due # NoDue => due <= due)
         /\ \A s \in Suppliers :
              /\ thread[s] \in Threads /\ thread[s].round \in Nat
              /\ thread[s].reminders \in 0 .. MaxReminders
<1>1. /\ thread \in [Suppliers -> Threads]
      /\ messages \in [Suppliers -> Seq(Messages)]
      /\ asked \in [Suppliers -> [request : Requests \cup {NoRequest}, known : Nat]]
      /\ campaign \in {"collecting", "awarded"}
      /\ due \in Days \cup {NoDue} /\ now \in Days
  BY DEF TypeOK, PortalTypeOK
<1>2. Days \subseteq Int /\ 0 \in Days /\ (due # NoDue => due <= due)
  BY <1>1 DEF Days
<1> QED BY <1>1, <1>2 DEF Threads

LEMMA TalkRests ==
  ASSUME TypeOK, UNCHANGED <<thread, messages, asked, due, campaign>>
  PROVE  TalkGoesOn
<1>1. \A s \in Suppliers : MessagesStay(s)
  BY DEF MessagesStay
<1> QED BY <1>1, TalkTyped DEF TalkGoesOn, ThreadMoves, ThreadStays

(* A message is added to the thread of s, which becomes p; the others stay.*)
LEMMA ThreadMovesOn ==
  ASSUME TypeOK, NEW s \in Suppliers, NEW m \in Messages, m.notice # "sent",
         NEW p \in Threads, UNCHANGED campaign,
         messages' = [messages EXCEPT ![s] = Append(messages[s], m)],
         thread' = [thread EXCEPT ![s] = p],
         \A z \in Suppliers : z # s => asked'[z] = asked[z]
  PROVE  /\ thread' \in [Suppliers -> Threads] /\ thread'[s] = p
         /\ messages' \in [Suppliers -> Seq(Messages)]
         /\ Added(s, m.kind, m.round)
         /\ \A z \in Suppliers : z # s => ThreadMoves(z)
<1>1. /\ messages' \in [Suppliers -> Seq(Messages)] /\ Added(s, m.kind, m.round)
      /\ \A z \in Suppliers : z # s => messages'[z] = messages[z] /\ MessagesStay(z)
  BY MessageAdded
<1>2. /\ thread' \in [Suppliers -> Threads] /\ thread'[s] = p
      /\ \A z \in Suppliers : z # s => thread'[z] = thread[z]
  BY TalkTyped
<1> QED BY <1>1, <1>2 DEF ThreadMoves, ThreadStays

LEMMA DueExtended ==
  ASSUME TypeOK, NEW d \in Days \cup {NoDue}, due' = ExtendedDue(d)
  PROVE  /\ due' \in Days \cup {NoDue}
         /\ due # NoDue => due' # NoDue /\ due <= due'
         /\ d # NoDue => due' # NoDue /\ d <= due'
<1>1. due \in Days \cup {NoDue} /\ Days \subseteq Int
  BY TalkTyped
<1> QED BY <1>1 DEF ExtendedDue, Days

LEMMA BuyerPostTalks ==
  ASSUME TypeOK, NEW w \in Windows, NEW s \in Suppliers,
         NEW kind \in Requests \cup {"message"}, NEW d \in Days \cup {NoDue},
         BuyerPost(w, s, kind, d)
  PROVE  TalkGoesOn
<1> DEFINE p == ThreadAfter(s, kind, d)
           m == FromBuyer(kind, thread'[s].round)
<1>1. /\ campaign = "collecting" /\ thread[s].status # "closed" /\ UNCHANGED campaign
      /\ thread' = [thread EXCEPT ![s] = p]
      /\ messages' = [messages EXCEPT ![s] = Append(messages[s], m)]
      /\ due' = ExtendedDue(d)
  BY DEF BuyerPost
<1>2. /\ thread[s] \in Threads /\ thread[s].round \in Nat /\ now \in Days /\ 0 \in Days
      /\ Submitted(s) \in Nat
  BY TalkTyped, SubmittedTyped
<1>3. /\ p \in Threads
      /\ kind = "message" =>
           /\ p.status = "awaiting_supplier" /\ p.request = NoRequest
           /\ p.round = thread[s].round
      /\ kind # "message" =>
           /\ p.request = kind /\ p.due = d /\ p.reminders = 0
           /\ p.round = thread[s].round + 1
           /\ p.status = IF kind = "bafo" THEN "bafo_requested" ELSE "awaiting_supplier"
  <2>1. CASE kind = "message"
    <3>1. \A t \in Threads :
            LET q == [t EXCEPT !.status = "awaiting_supplier",
                        !.request = NoRequest, !.due = NoDue, !.anchor = 0]
            IN  /\ q \in Threads /\ q.status = "awaiting_supplier"
                /\ q.request = NoRequest /\ q.round = t.round
      BY <1>2 DEF Threads
    <3> QED BY <1>2, <2>1, <3>1, Zenon DEF ThreadAfter
  <2>2. CASE kind # "message"
    BY <1>2, <2>2 DEF ThreadAfter, Threads
  <2> QED BY <2>1, <2>2
<1> HIDE DEF p
<1>4. thread'[s] = p /\ p.round \in Nat
  BY <1>1, <1>2, <1>3, TalkTyped DEF Threads
<1>5. /\ m \in Messages /\ m.kind = kind /\ m.round = p.round /\ m.notice # "sent"
  BY <1>4 DEF FromBuyer, Messages
<1> HIDE DEF m
<1>6. asked' = [asked EXCEPT ![s] =
                 [request |-> p.request,
                  known |-> IF kind = "bafo" THEN Submitted(s) ELSE 0]]
  BY <1>4 DEF BuyerPost
<1>7. p.request \in Requests \cup {NoRequest}
  BY <1>3 DEF Threads
<1>8. /\ asked' \in [Suppliers -> [request : Requests \cup {NoRequest}, known : Nat]]
      /\ asked'[s].request = p.request
      /\ asked'[s].known = IF kind = "bafo" THEN Submitted(s) ELSE 0
      /\ \A z \in Suppliers : z # s => asked'[z] = asked[z]
  BY <1>2, <1>6, <1>7, TalkTyped
<1>9. /\ thread' \in [Suppliers -> Threads]
      /\ messages' \in [Suppliers -> Seq(Messages)]
      /\ Added(s, m.kind, m.round)
      /\ \A z \in Suppliers : z # s => ThreadMoves(z)
  BY <1>1, <1>3, <1>5, <1>8, ThreadMovesOn
<1>10. /\ due' \in Days \cup {NoDue}
       /\ due # NoDue => due' # NoDue /\ due <= due'
       /\ d # NoDue => due' # NoDue /\ d <= due'
  BY <1>1, DueExtended
<1>11. MessagePosted(s) \/ RequestPosted(s)
  <2>1. CASE kind = "message"
    BY <1>1, <1>3, <1>4, <1>5, <1>8, <1>9, <2>1 DEF MessagePosted
  <2>2. CASE kind # "message"
    BY <1>1, <1>3, <1>4, <1>5, <1>8, <1>9, <1>10, <2>2 DEF RequestPosted
  <2> QED BY <2>1, <2>2
<1> QED BY <1>1, <1>8, <1>9, <1>10, <1>11 DEF TalkGoesOn, ThreadMoves

LEMMA ReminderTalks ==
  ASSUME TypeOK, NEW w \in Windows, NEW s \in Suppliers, PrepareReminder(w, s)
  PROVE  TalkGoesOn
<1> DEFINE t == thread[s]
           p == [t EXCEPT !.reminders = t.reminders + 1, !.anchor = now]
           m == FromBuyer("reminder", t.round)
<1>1. /\ t.request # NoRequest /\ t.reminders < MaxReminders
      /\ thread' = [thread EXCEPT ![s] = p]
      /\ messages' = [messages EXCEPT ![s] = Append(messages[s], m)]
      /\ UNCHANGED <<campaign, due, asked>>
  BY DEF PrepareReminder, Remindable, portalVars
<1>2. /\ t \in Threads /\ t.round \in Nat /\ t.reminders \in 0 .. MaxReminders
      /\ now \in Days
  BY TalkTyped
<1>3. t.reminders + 1 \in 0 .. MaxReminders
  BY <1>1, <1>2
<1>4. /\ p \in Threads /\ p.status = t.status /\ p.request = t.request
      /\ p.due = t.due /\ p.round = t.round /\ p.reminders = t.reminders + 1
  BY <1>2, <1>3 DEF Threads
<1>5. m \in Messages /\ m.kind = "reminder" /\ m.round = t.round /\ m.notice # "sent"
  BY <1>2 DEF FromBuyer, Messages
<1> HIDE DEF p, m
<1>6. /\ thread' \in [Suppliers -> Threads] /\ thread'[s] = p
      /\ messages' \in [Suppliers -> Seq(Messages)]
      /\ Added(s, m.kind, m.round)
      /\ \A z \in Suppliers : z # s => ThreadMoves(z)
  BY <1>1, <1>4, <1>5, ThreadMovesOn
<1>7. Reminded(s)
  BY <1>1, <1>4, <1>5, <1>6 DEF Reminded
<1> QED BY <1>1, <1>6, <1>7, TalkTyped DEF TalkGoesOn, ThreadMoves

LEMMA SupplierTalks ==
  ASSUME TypeOK, NEW s \in Suppliers, SupplierPost(s)
  PROVE  TalkGoesOn
<1> DEFINE t == thread[s]
           status == CASE t.request = "bafo" -> "bafo_requested"
                       [] t.request \in {"revision", "counter_target"}
                            -> "awaiting_supplier"
                       [] OTHER -> "awaiting_buyer"
           p == [t EXCEPT !.status = status]
           m == ToBuyer("supplier", t.round)
<1>1. /\ campaign = "collecting" /\ t.status # "closed"
      /\ thread' = [thread EXCEPT ![s] = p]
      /\ messages' = [messages EXCEPT ![s] = Append(messages[s], m)]
      /\ UNCHANGED <<campaign, due, asked>>
  BY DEF SupplierPost, portalVars
<1>2. t \in Threads /\ t.round \in Nat
  BY TalkTyped
<1>3. status \in {"bafo_requested", "awaiting_supplier", "awaiting_buyer"}
  OBVIOUS
<1> HIDE DEF status
<1>4. /\ p \in Threads /\ p.status = status /\ p.request = t.request
      /\ p.due = t.due /\ p.round = t.round /\ p.reminders = t.reminders
  BY <1>2, <1>3 DEF Threads
<1>5. m \in Messages /\ m.kind = "supplier" /\ m.round = t.round /\ m.notice # "sent"
  BY <1>2 DEF ToBuyer, Messages
<1> HIDE DEF p, m
<1>6. /\ thread' \in [Suppliers -> Threads] /\ thread'[s] = p
      /\ messages' \in [Suppliers -> Seq(Messages)]
      /\ Added(s, m.kind, m.round)
      /\ \A z \in Suppliers : z # s => ThreadMoves(z)
  BY <1>1, <1>4, <1>5, ThreadMovesOn
<1>7. SupplierAnswered(s)
  BY <1>1, <1>4, <1>5, <1>6 DEF SupplierAnswered, status
<1> QED BY <1>1, <1>6, <1>7, TalkTyped DEF TalkGoesOn, ThreadMoves

LEMMA SubmissionTalks ==
  ASSUME TypeOK, NEW b \in Tabs, SubmitAndSync(b)
  PROVE  TalkGoesOn
<1>1. /\ SubmitQuote(b) /\ QuoteSubmissionSync(tab[b])
      /\ UNCHANGED <<due, campaign, asked>>
  BY DEF SubmitAndSync, SubmitQuote
<1>2. PICK s \in Suppliers : s = tab[b]
  BY <1>1, SubmitMoves
<1>3. /\ QuotesMove /\ campaign = "collecting" /\ Len(quotes'[s]) = Len(quotes[s])
      /\ quotes[s] # <<>> /\ Status(s) = "draft"
      /\ quotes'[s][Len(quotes[s])].status = "submitted"
  BY <1>1, <1>2, SubmitMoves
<1>4. Submitted(s)' = Submitted(s) + 1
  <2>1. RevisionsMove(s) /\ quotes[s][Len(quotes[s])].status = "draft"
    BY <1>3 DEF QuotesMove, Status, Current
  <2>2. quotes'[s] # quotes[s]
    BY <1>3, <2>1
  <2> QED BY <1>3, <2>1, <2>2, SubmittedGrows
<1>5. CASE ~Answerable(s)
  BY <1>1, <1>2, <1>5, TalkRests DEF QuoteSubmissionSync
<1>6. CASE Answerable(s)
  <2> DEFINE t == thread[s]
             status == ReceivedStatus(s)
             p == [t EXCEPT !.status = status, !.request = NoRequest, !.due = NoDue,
                            !.reminders = 0, !.anchor = 0]
             m == ToBuyer("system", t.round)
  <2>1. /\ t.status # "none" /\ t.request # NoRequest
        /\ thread' = [thread EXCEPT ![s] = p]
        /\ messages' = [messages EXCEPT ![s] = Append(messages[s], m)]
    BY <1>1, <1>2, <1>6 DEF QuoteSubmissionSync, Answerable
  <2>2. t \in Threads /\ t.round \in Nat /\ 0 \in Days
    BY TalkTyped
  <2>3. /\ status \in {"bafo_received", "awaiting_buyer"}
        /\ status = IF t.request = "bafo" THEN "bafo_received" ELSE "awaiting_buyer"
    BY DEF ReceivedStatus
  <2> HIDE DEF status
  <2>4. /\ p \in Threads /\ p.status = status /\ p.request = NoRequest
        /\ p.round = t.round
    <3>1. PICK n \in 0 .. MaxReminders, d \in Days : n = 0 /\ d = 0
      BY <2>2
    <3> DEFINE q == [t EXCEPT !.status = status, !.request = NoRequest]
               r == [q EXCEPT !.due = NoDue, !.reminders = n, !.anchor = d]
    <3>2. /\ q \in Threads /\ q.status = status /\ q.request = NoRequest
          /\ q.round = t.round
      BY <2>2, <2>3 DEF Threads
    <3>3. r = p
      BY <3>1, Zenon
    <3> HIDE DEF q, p
    <3>4. r \in Threads
      BY <3>1, <3>2 DEF Threads
    <3>5. r.status = q.status /\ r.request = q.request /\ r.round = q.round
      BY <3>2 DEF Threads
    <3> HIDE DEF r
    <3> QED BY <3>2, <3>3, <3>4, <3>5
  <2>5. m \in Messages /\ m.kind = "system" /\ m.round = t.round /\ m.notice # "sent"
    BY <2>2 DEF ToBuyer, Messages
  <2> HIDE DEF p, m
  <2>6. /\ thread' \in [Suppliers -> Threads] /\ thread'[s] = p
        /\ messages' \in [Suppliers -> Seq(Messages)]
        /\ Added(s, m.kind, m.round)
        /\ \A z \in Suppliers : z # s => ThreadMoves(z)
    BY <1>1, <2>1, <2>4, <2>5, ThreadMovesOn
  <2>7. RequestAnswered(s)
    BY <1>1, <1>3, <1>4, <2>1, <2>3, <2>4, <2>5, <2>6 DEF RequestAnswered
  <2> QED BY <1>1, <2>6, <2>7, TalkTyped DEF TalkGoesOn, ThreadMoves
<1> QED BY <1>5, <1>6

LEMMA AwardTalks ==
  ASSUME TypeOK, ConfirmAward
  PROVE  TalkGoesOn
<1>1. /\ campaign' = "awarded" /\ thread' = [s \in Suppliers |-> Closed(s)]
      /\ campaign = "collecting"
      /\ UNCHANGED <<messages, asked, due>>
  BY DEF ConfirmAward
<1>2. ASSUME NEW s \in Suppliers
      PROVE  Closed(s) \in Threads
  <2>1. thread[s] \in Threads /\ 0 \in Days
    BY TalkTyped
  <2>2. [thread[s] EXCEPT !.status = "closed", !.request = NoRequest,
                          !.due = NoDue, !.anchor = 0] \in Threads
    BY <2>1 DEF Threads
  <2> QED BY <2>1, <2>2 DEF Closed
<1>3. \A s \in Suppliers : ThreadClosed(s)
  BY <1>1 DEF ThreadClosed, MessagesStay
<1> QED BY <1>1, <1>2, <1>3, TalkTyped DEF TalkGoesOn, ThreadMoves

-----------------------------------------------------------------------------
(* The server actions in flight.                                           *)
MailsGoOn ==
  /\ window' \in [Windows -> WindowStates] /\ mailed' \subseteq Suppliers \X Nat
  /\ mailed \subseteq mailed' /\ WindowsMailMessages'

LEMMA MailsTyped ==
  ASSUME TypeOK
  PROVE  /\ window \in [Windows -> WindowStates] /\ mailed \subseteq Suppliers \X Nat
         /\ cast \in Casts /\ cast.results \subseteq {"sent", "failed", "skipped"}
         /\ Idle \in WindowStates /\ Idle.step = "idle"
<1>1. cast \in Casts
  BY DEF TypeOK
<1>2. cast.results \subseteq {"sent", "failed", "skipped"}
  BY <1>1
<1>3. Idle \in WindowStates /\ Idle.step = "idle"
  BY DEF Idle, WindowStates
<1> QED BY <1>1, <1>2, <1>3 DEF TypeOK

(* Window w proceeds to e.                                                 *)
LEMMA WindowMoves ==
  ASSUME TypeOK, WindowsMailMessages, NEW w \in Windows, NEW e \in WindowStates,
         window' = [window EXCEPT ![w] = e],
         \A s \in Suppliers : DOMAIN messages[s] \subseteq DOMAIN messages'[s],
         mailed \subseteq mailed', mailed' \subseteq Suppliers \X Nat,
         e.step # "idle" =>
           /\ \E s \in Suppliers : \E k \in DOMAIN messages'[s] : e.message = <<s, k>>
           /\ e.step = "mark" =>
                /\ e.result # "none"
                /\ e.result = "sent" => e.message \in mailed'
  PROVE  MailsGoOn
<1>1. /\ window' \in [Windows -> WindowStates]
      /\ \A v \in Windows : window'[v] = IF v = w THEN e ELSE window[v]
  BY MailsTyped
<1>2. ASSUME NEW v \in Windows, window'[v].step # "idle"
      PROVE  /\ \E s \in Suppliers : \E k \in DOMAIN messages'[s] :
                  window'[v].message = <<s, k>>
             /\ window'[v].step = "mark" =>
                  /\ window'[v].result # "none"
                  /\ window'[v].result = "sent" => window'[v].message \in mailed'
  <2>1. CASE v = w
    BY <1>1, <1>2, <2>1
  <2>2. CASE v # w
    BY <1>1, <1>2, <2>2 DEF WindowsMailMessages
  <2> QED BY <2>1, <2>2
<1> QED BY <1>1, <1>2 DEF MailsGoOn, WindowsMailMessages

LEMMA MailsRest ==
  ASSUME TypeOK, WindowsMailMessages, UNCHANGED <<window, mailed>>,
         \A s \in Suppliers : DOMAIN messages[s] \subseteq DOMAIN messages'[s]
  PROVE  MailsGoOn
<1>1. WindowsMailMessages'
  BY DEF WindowsMailMessages
<1> QED BY <1>1, MailsTyped DEF MailsGoOn

(* No message is taken away.                                               *)
LEMMA MessagesGrow ==
  ASSUME TalkGoesOn
  PROVE  \A s \in Suppliers : DOMAIN messages[s] \subseteq DOMAIN messages'[s]
<1> SUFFICES ASSUME NEW s \in Suppliers
             PROVE  DOMAIN messages[s] \subseteq DOMAIN messages'[s]
  OBVIOUS
<1>1. MessagesStay(s) \/ \E kind, round : Added(s, kind, round)
  BY DEF TalkGoesOn, ThreadMoves, ThreadStays, MessagePosted, RequestPosted, Reminded,
    SupplierAnswered, RequestAnswered, ThreadClosed
<1>2. ASSUME NEW kind, NEW round, Added(s, kind, round)
      PROVE  DOMAIN messages[s] \subseteq DOMAIN messages'[s]
  BY <1>2 DEF Added
<1> QED BY <1>1, <1>2 DEF MessagesStay

LEMMA PostMails ==
  ASSUME TypeOK, WindowsMailMessages, NEW w \in Windows, NEW s \in Suppliers,
         Posted(w, s), UNCHANGED mailed, TalkGoesOn, messages'[s] # <<>>
  PROVE  MailsGoOn
<1> DEFINE k == Len(messages'[s])
           e == [step |-> "send", message |-> <<s, k>>, result |-> "none"]
<1>1. messages'[s] \in Seq(Messages)
  BY DEF TalkGoesOn
<1>2. k \in Nat /\ k \in DOMAIN messages'[s]
  BY <1>1
<1>3. window' = [window EXCEPT ![w] = e]
  BY DEF Posted
<1> HIDE DEF k
<1>4. e \in WindowStates /\ e.step = "send" /\ e.message = <<s, k>>
  BY <1>2 DEF WindowStates
<1> HIDE DEF e
<1> QED BY <1>2, <1>3, <1>4, MessagesGrow, MailsTyped, WindowMoves

LEMMA SendMails ==
  ASSUME TypeOK, WindowsMailMessages, NEW w \in Windows, SendNotification(w)
  PROVE  MailsGoOn
<1>1. /\ window[w].step = "send" /\ window[w] \in WindowStates /\ UNCHANGED messages
      /\ cast.results \subseteq {"sent", "failed", "skipped"}
  BY MailsTyped DEF SendNotification
<1>2. PICK result \in {"sent", "failed", "skipped"} :
        /\ Sent(w, result)
        /\ \/ mailed' = mailed /\ result # "sent"
           \/ mailed' = mailed \cup {window[w].message}
  BY <1>1 DEF SendNotification
<1> DEFINE e == [window[w] EXCEPT !.step = "mark", !.result = result]
<1>3. window' = [window EXCEPT ![w] = e]
  BY <1>2 DEF Sent
<1>4. /\ e \in WindowStates /\ e.step = "mark" /\ e.result = result
      /\ e.message = window[w].message
  BY <1>1 DEF WindowStates
<1> HIDE DEF e
<1>5. \E s \in Suppliers : \E k \in DOMAIN messages[s] : window[w].message = <<s, k>>
  BY <1>1 DEF WindowsMailMessages
<1>6. window[w].message \in Suppliers \X Nat
  BY <1>5, MessagesTyped
<1>7. /\ mailed \subseteq mailed' /\ mailed' \subseteq Suppliers \X Nat
      /\ result = "sent" => window[w].message \in mailed'
  BY <1>2, <1>6, MailsTyped
<1>8. \E s \in Suppliers : \E k \in DOMAIN messages'[s] : e.message = <<s, k>>
  BY <1>1, <1>4, <1>5
<1>9. \A s \in Suppliers : DOMAIN messages[s] \subseteq DOMAIN messages'[s]
  BY <1>1
<1>10. e.step = "mark" => e.result # "none" /\ (e.result = "sent" => e.message \in mailed')
  BY <1>4, <1>7
<1> QED BY <1>3, <1>4, <1>7, <1>8, <1>9, <1>10, WindowMoves

LEMMA MarkMoves ==
  ASSUME TypeOK, WindowsMailMessages, NEW w \in Windows, MarkNotification(w)
  PROVE  /\ messages' \in [Suppliers -> Seq(Messages)]
         /\ \A s \in Suppliers : MessagesStay(s)
<1>1. /\ window[w].step = "mark" /\ window[w] \in WindowStates
      /\ messages \in [Suppliers -> Seq(Messages)]
  BY MailsTyped, TalkTyped DEF MarkNotification
<1>2. PICK s \in Suppliers, k \in Nat :
        k \in DOMAIN messages[s] /\ window[w].message = <<s, k>>
  BY <1>1, MessagesTyped DEF WindowsMailMessages
<1> DEFINE o == messages[s][k]
           e == [o EXCEPT !.notice = window[w].result]
           q == [messages[s] EXCEPT ![k] = e]
<1>3. CASE messages' = messages
  BY <1>1, <1>3 DEF MessagesStay
<1>4. CASE messages' # messages
  <2>1. messages' = [messages EXCEPT ![s] = q]
    <3> DEFINE z == window[w].message[1]
               i == window[w].message[2]
               y == [messages EXCEPT ![z] = [messages[z] EXCEPT ![i] =
                       [messages[z][i] EXCEPT !.notice = window[w].result]]]
    <3>1. messages' \in (IF cast.faults THEN {messages} ELSE {}) \cup {y}
      BY Zenon DEF MarkNotification, Result
    <3>2. z = s /\ i = k
      BY <1>2
    <3>3. y = [messages EXCEPT ![s] = q]
      BY <3>2, Zenon
    <3> HIDE DEF y, q
    <3> QED BY <1>4, <3>1, <3>3
  <2>2. o \in Messages /\ messages[s] \in Seq(Messages)
    BY <1>2, MessagesTyped
  <2>3. window[w].result \in {"sent", "failed", "skipped"}
    BY <1>1 DEF WindowStates, WindowsMailMessages
  <2>4. /\ e \in Messages /\ e.kind = o.kind /\ e.round = o.round
        /\ e.notice = window[w].result
    BY <2>2, <2>3 DEF Messages
  <2>5. e.notice = "sent" => <<s, k>> \in mailed
    BY <1>1, <1>2, <2>4 DEF WindowsMailMessages
  <2> HIDE DEF e
  <2>6. /\ q \in Seq(Messages) /\ DOMAIN q = DOMAIN messages[s]
        /\ Len(q) = Len(messages[s]) /\ q[k] = e
        /\ \A i \in DOMAIN messages[s] : i # k => q[i] = messages[s][i]
    BY <1>2, <2>2, <2>4
  <2> HIDE DEF q
  <2>7. /\ messages' \in [Suppliers -> Seq(Messages)]
        /\ \A z \in Suppliers : messages'[z] = IF z = s THEN q ELSE messages[z]
    BY <1>1, <2>1, <2>6
  <2>8. MessagesStay(s)
    <3>1. messages'[s] = q
      BY <2>7
    <3>2. ASSUME NEW i \in DOMAIN messages[s]
          PROVE  /\ q[i].kind = messages[s][i].kind /\ q[i].round = messages[s][i].round
                 /\ q[i].notice = "sent" =>
                      messages[s][i].notice = "sent" \/ <<s, i>> \in mailed
      <4>1. CASE i = k
        BY <2>4, <2>5, <2>6, <4>1
      <4>2. CASE i # k
        BY <2>6, <4>2
      <4> QED BY <4>1, <4>2
    <3> QED BY <2>6, <3>1, <3>2 DEF MessagesStay
  <2>9. \A z \in Suppliers : z # s => MessagesStay(z)
    BY <2>7 DEF MessagesStay
  <2> QED BY <2>7, <2>8, <2>9
<1> QED BY <1>3, <1>4

LEMMA MarkTalks ==
  ASSUME TypeOK, WindowsMailMessages, NEW w \in Windows, MarkNotification(w)
  PROVE  TalkGoesOn /\ MailsGoOn
<1>1. /\ UNCHANGED <<thread, asked, due, campaign, mailed>>
      /\ window' = [window EXCEPT ![w] = Idle]
  BY DEF MarkNotification, portalVars
<1>2. TalkGoesOn
  BY <1>1, MarkMoves, TalkTyped DEF TalkGoesOn, ThreadMoves, ThreadStays
<1> QED BY <1>1, <1>2, MessagesGrow, MailsTyped, WindowMoves

(* Every step moves the threads and the server actions in these ways.      *)
LEMMA TalkMoves ==
  ASSUME TypeOK, WindowsMailMessages, [Next]_vars
  PROVE  TalkGoesOn /\ MailsGoOn
<1>1. CASE UNCHANGED <<thread, messages, asked, due, campaign, window, mailed>>
  BY <1>1, TalkRests, MailsRest
<1>2. CASE PortalStep /\ UNCHANGED threadVars
  <2>1. UNCHANGED <<due, campaign>>
    BY <1>2 DEF PortalStep, PassDay, SaveDraft, SaveToSubmit, LeaveTab, DeclineQuote,
      StartRevision, PrepareAttachment, PutFile, RecordAttachment, RefuseAttachment,
      RemoveLeftover, DropUpload
  <2> QED BY <1>1, <1>2, <2>1 DEF threadVars
<1>3. ASSUME NEW t \in Tabs, SubmitAndSync(t)
      PROVE  TalkGoesOn /\ MailsGoOn
  <2>1. TalkGoesOn /\ UNCHANGED <<window, mailed>>
    BY <1>3, SubmissionTalks DEF SubmitAndSync
  <2> QED BY <2>1, MessagesGrow, MailsRest
<1>4. ASSUME NEW s \in Suppliers, SupplierPost(s)
      PROVE  TalkGoesOn /\ MailsGoOn
  <2>1. TalkGoesOn /\ UNCHANGED <<window, mailed>>
    BY <1>4, SupplierTalks DEF SupplierPost
  <2> QED BY <2>1, MessagesGrow, MailsRest
<1>5. CASE ConfirmAward
  <2>1. TalkGoesOn /\ UNCHANGED <<window, mailed>>
    BY <1>5, AwardTalks DEF ConfirmAward
  <2> QED BY <2>1, MessagesGrow, MailsRest
<1>6. ASSUME NEW w \in Windows, NEW s \in Suppliers,
             NEW kind \in Requests \cup {"message"}, NEW d \in Days \cup {NoDue},
             BuyerPost(w, s, kind, d)
      PROVE  TalkGoesOn /\ MailsGoOn
  <2>1. TalkGoesOn /\ UNCHANGED mailed /\ Posted(w, s)
    BY <1>6, BuyerPostTalks DEF BuyerPost
  <2> DEFINE m == FromBuyer(kind, thread'[s].round)
  <2>2. messages' = [messages EXCEPT ![s] = Append(messages[s], m)]
    BY <1>6 DEF BuyerPost
  <2>3. thread'[s].round \in Nat
    BY <2>1 DEF TalkGoesOn, Threads
  <2>4. m \in Messages /\ m.notice # "sent"
    BY <2>3 DEF FromBuyer, Messages
  <2> HIDE DEF m
  <2>5. Len(messages'[s]) = Len(messages[s]) + 1 /\ Len(messages[s]) \in Nat
    BY <2>2, <2>4, MessageAdded, MessagesTyped DEF Added
  <2>6. messages'[s] # <<>>
    BY <2>5
  <2> QED BY <2>1, <2>6, PostMails
<1>7. ASSUME NEW w \in Windows, NEW s \in Suppliers, PrepareReminder(w, s)
      PROVE  TalkGoesOn /\ MailsGoOn
  <2>1. TalkGoesOn /\ UNCHANGED mailed /\ Posted(w, s)
    BY <1>7, ReminderTalks DEF PrepareReminder
  <2>2. messages'[s] # <<>>
    BY <1>7, MessagesTyped DEF PrepareReminder
  <2> QED BY <2>1, <2>2, PostMails
<1>8. ASSUME NEW w \in Windows, SendNotification(w)
      PROVE  TalkGoesOn /\ MailsGoOn
  <2>1. UNCHANGED <<thread, messages, asked, due, campaign>>
    BY <1>8 DEF SendNotification, portalVars
  <2> QED BY <1>8, <2>1, TalkRests, SendMails
<1>9. ASSUME NEW w \in Windows, DropWindow(w)
      PROVE  TalkGoesOn /\ MailsGoOn
  <2>1. /\ UNCHANGED <<thread, messages, asked, due, campaign, mailed>>
        /\ window' = [window EXCEPT ![w] = Idle]
    BY <1>9 DEF DropWindow, portalVars
  <2>2. TalkGoesOn
    BY <2>1, TalkRests
  <2> QED BY <2>1, <2>2, MessagesGrow, MailsTyped, WindowMoves
<1>10. ASSUME NEW s \in Suppliers, NEW k, NotificationBounced(s, k)
       PROVE  TalkGoesOn /\ MailsGoOn
  BY <1>1, <1>10 DEF NotificationBounced, threadVars
<1>11. CASE ThreadStep
  BY <1>4, <1>5, <1>6, <1>7, <1>8, <1>9, <1>10, <1>11, MarkTalks DEF ThreadStep
<1>12. CASE UNCHANGED vars
  BY <1>1, <1>12 DEF vars, portalVars, threadVars
<1> QED BY <1>2, <1>3, <1>11, <1>12, StepKinds

-----------------------------------------------------------------------------
(* The rest of the state.                                                  *)

(* A supplier's answer is not taken back.                                  *)
AnswersGoOn ==
  /\ dispatch' \in [Suppliers -> {"sent", "responded", "declined", "bounced"}]
  /\ \A s \in Suppliers :
       /\ dispatch[s] = "responded" => dispatch'[s] \in {"responded", "declined"}
       /\ dispatch[s] = "declined" => dispatch'[s] = "declined"

LEMMA AnswerMoves ==
  ASSUME TypeOK, NEW s \in Suppliers,
         NEW d \in {"sent", "responded", "declined", "bounced"},
         dispatch' = [dispatch EXCEPT ![s] = d],
         dispatch[s] = "responded" => d \in {"responded", "declined"},
         dispatch[s] = "declined" => d = "declined"
  PROVE  AnswersGoOn
<1>1. dispatch \in [Suppliers -> {"sent", "responded", "declined", "bounced"}]
  BY DEF TypeOK, PortalTypeOK
<1>2. /\ dispatch' \in [Suppliers -> {"sent", "responded", "declined", "bounced"}]
      /\ \A z \in Suppliers : dispatch'[z] = IF z = s THEN d ELSE dispatch[z]
  BY <1>1
<1> QED BY <1>2 DEF AnswersGoOn

RestGoesOn ==
  /\ AnswersGoOn /\ now' \in Days /\ cast' \in Casts
  /\ tab' \in [Tabs -> Suppliers \cup {"idle"}]

LEMMA RestTyped ==
  ASSUME TypeOK
  PROVE  /\ now \in Days /\ cast \in Casts
         /\ tab \in [Tabs -> Suppliers \cup {"idle"}]
         /\ dispatch \in [Suppliers -> {"sent", "responded", "declined", "bounced"}]
BY DEF TypeOK, PortalTypeOK

LEMMA RestMoves ==
  ASSUME TypeOK, [Next]_vars
  PROVE  RestGoesOn
<1>1. CASE UNCHANGED <<dispatch, now, cast, tab>>
  BY <1>1, RestTyped DEF RestGoesOn, AnswersGoOn
<1>2. CASE PassDay /\ UNCHANGED threadVars
  <2>1. now < Horizon /\ now' = now + 1 /\ UNCHANGED <<dispatch, cast, tab>>
    BY <1>2 DEF PassDay, threadVars
  <2>2. now' \in Days
    BY <2>1, RestTyped DEF Days
  <2> QED BY <2>1, <2>2, RestTyped DEF RestGoesOn, AnswersGoOn
<1>3. ASSUME NEW s \in Suppliers, NEW t \in Tabs,
             tab' = [tab EXCEPT ![t] = s] \/ tab' = [tab EXCEPT ![t] = "idle"],
             UNCHANGED <<dispatch, now, cast>>
      PROVE  RestGoesOn
  <2>1. tab' \in [Tabs -> Suppliers \cup {"idle"}]
    BY <1>3, RestTyped
  <2> QED BY <1>3, <2>1, RestTyped DEF RestGoesOn, AnswersGoOn
<1>4. ASSUME NEW t \in Tabs, LeaveTab(t), UNCHANGED threadVars
      PROVE  RestGoesOn
  <2>1. tab' = [tab EXCEPT ![t] = "idle"] /\ UNCHANGED <<dispatch, now, cast>>
    BY <1>4 DEF LeaveTab, threadVars
  <2>2. tab' \in [Tabs -> Suppliers \cup {"idle"}]
    BY <2>1, RestTyped
  <2> QED BY <2>1, <2>2, RestTyped DEF RestGoesOn, AnswersGoOn
<1>5. ASSUME NEW s \in Suppliers, DeclineQuote(s), UNCHANGED threadVars
      PROVE  RestGoesOn
  <2>1. /\ dispatch' = [dispatch EXCEPT ![s] = "declined"]
        /\ dispatch[s] \in {"sent", "responded"} /\ UNCHANGED <<now, cast, tab>>
    BY <1>5 DEF DeclineQuote, OpenTo, Available, threadVars
  <2>2. AnswersGoOn
    BY <2>1, AnswerMoves
  <2> QED BY <2>1, <2>2, RestTyped DEF RestGoesOn
<1>6. CASE PortalStep /\ UNCHANGED threadVars
  <2>1. ASSUME NEW s \in Suppliers, NEW lines, NEW t \in Tabs,
               SaveToSubmit(t, s, lines)
        PROVE  RestGoesOn
    BY <1>3, <1>6, <2>1 DEF SaveToSubmit, threadVars
  <2>2. ASSUME NEW s, NEW lines, SaveDraft(s, lines)
        PROVE  RestGoesOn
    BY <1>1, <1>6, <2>2 DEF SaveDraft, threadVars
  <2>3. ASSUME NEW s, StartRevision(s)
        PROVE  RestGoesOn
    BY <1>1, <1>6, <2>3 DEF StartRevision, threadVars
  <2>4. ASSUME NEW u, NEW s, PrepareAttachment(u, s)
        PROVE  RestGoesOn
    BY <1>1, <1>6, <2>4 DEF PrepareAttachment, threadVars
  <2>5. ASSUME NEW u, \/ PutFile(u) \/ RecordAttachment(u) \/ RefuseAttachment(u)
                      \/ RemoveLeftover(u) \/ DropUpload(u)
        PROVE  RestGoesOn
    <3>1. UNCHANGED <<dispatch, now, cast, tab>>
      BY <1>6, <2>5 DEF PutFile, RecordAttachment, RefuseAttachment, RemoveLeftover,
        DropUpload, threadVars
    <3> QED BY <1>1, <3>1
  <2> QED BY <1>2, <1>4, <1>5, <1>6, <2>1, <2>2, <2>3, <2>4, <2>5 DEF PortalStep
<1>7. ASSUME NEW t \in Tabs, SubmitAndSync(t)
      PROVE  RestGoesOn
  <2>1. PICK s \in Suppliers : s = tab[t]
    BY <1>7, SubmitMoves DEF SubmitAndSync
  <2>2. /\ dispatch' = [dispatch EXCEPT ![s] = "responded"]
        /\ dispatch[s] \in {"sent", "responded"} /\ UNCHANGED <<now, cast>>
        /\ tab' = [tab EXCEPT ![t] = "idle"]
    BY <1>7, <2>1 DEF SubmitAndSync, SubmitQuote, OpenTo, Available
  <2>3. AnswersGoOn
    BY <2>2, AnswerMoves
  <2>4. tab' \in [Tabs -> Suppliers \cup {"idle"}]
    BY <2>2, RestTyped
  <2> QED BY <2>2, <2>3, <2>4, RestTyped DEF RestGoesOn
<1>8. ASSUME NEW s \in Suppliers, NEW k, NotificationBounced(s, k)
      PROVE  RestGoesOn
  <2>1. /\ dispatch' = [dispatch EXCEPT ![s] = AfterBounce(s)]
        /\ UNCHANGED <<now, cast, tab>>
    BY <1>8 DEF NotificationBounced, threadVars
  <2>2. AnswersGoOn
    BY <2>1, AnswerMoves, RestTyped DEF AfterBounce
  <2> QED BY <2>1, <2>2, RestTyped DEF RestGoesOn
<1>9. CASE ThreadStep
  <2>1. ASSUME NEW s, SupplierPost(s)
        PROVE  RestGoesOn
    BY <1>1, <2>1 DEF SupplierPost, portalVars
  <2>2. ASSUME NEW w, NEW s, NEW kind, NEW d, BuyerPost(w, s, kind, d)
        PROVE  RestGoesOn
    BY <1>1, <2>2 DEF BuyerPost
  <2>3. ASSUME NEW w, NEW s, PrepareReminder(w, s)
        PROVE  RestGoesOn
    BY <1>1, <2>3 DEF PrepareReminder, portalVars
  <2>4. ASSUME NEW w, SendNotification(w) \/ MarkNotification(w) \/ DropWindow(w)
        PROVE  RestGoesOn
    BY <1>1, <2>4 DEF SendNotification, MarkNotification, DropWindow, portalVars
  <2>5. CASE ConfirmAward
    BY <1>1, <2>5 DEF ConfirmAward
  <2> QED BY <1>8, <1>9, <2>1, <2>2, <2>3, <2>4, <2>5 DEF ThreadStep
<1>10. CASE UNCHANGED vars
  BY <1>1, <1>10 DEF vars, portalVars, threadVars
<1> QED BY <1>6, <1>7, <1>9, <1>10, StepKinds

(* Every step keeps the types.                                             *)
LEMMA TypesKept ==
  ASSUME FilesInv, WindowsMailMessages, [Next]_vars
  PROVE  TypeOK'
<1>1. TypeOK
  BY DEF FilesInv
<1>2. QuotesMove /\ FilesGoOn /\ TalkGoesOn /\ MailsGoOn /\ RestGoesOn
  BY <1>1, PortalMoves, TalkMoves, RestMoves
<1>3. PortalTypeOK'
  BY <1>2 DEF PortalTypeOK, QuotesMove, FilesGoOn, TalkGoesOn, RestGoesOn, AnswersGoOn
<1> QED BY <1>2, <1>3 DEF TypeOK, TalkGoesOn, MailsGoOn, RestGoesOn

-----------------------------------------------------------------------------
(* The invariant, part by part.                                            *)

LEMMA LiveRevisionKept ==
  ASSUME TypeOK, OneLiveRevision, QuotesMove
  PROVE  OneLiveRevision'
<1> SUFFICES ASSUME NEW s \in Suppliers, NEW r \in DOMAIN quotes'[s]
             PROVE  quotes'[s][r].status = "superseded" <=> r < Len(quotes'[s])
  BY DEF OneLiveRevision
<1> DEFINE n == Len(quotes[s])
<1>1. /\ n \in Nat /\ DOMAIN quotes[s] = 1 .. n
      /\ \A k \in 1 .. n : quotes[s][k].status = "superseded" <=> k < n
  BY QuotesTyped DEF OneLiveRevision
<1>2. /\ RevisionsMove(s) /\ quotes'[s] \in Seq(Quotes)
      /\ DOMAIN quotes'[s] = 1 .. Len(quotes'[s])
  BY DEF QuotesMove
<1>3. r \in 1 .. Len(quotes'[s])
  BY <1>2
<1>4. CASE quotes'[s] = quotes[s]
  BY <1>1, <1>3, <1>4
<1>5. CASE /\ n > 0 /\ Len(quotes'[s]) = n
           /\ quotes'[s][n].status \in {"draft", "submitted", "declined"}
           /\ \A k \in 1 .. n : k # n => quotes'[s][k] = quotes[s][k]
  BY <1>1, <1>3, <1>5
<1>6. CASE /\ Len(quotes'[s]) = n + 1
           /\ quotes'[s][n + 1].status \in {"draft", "declined"}
           /\ \A k \in 1 .. n : k # n => quotes'[s][k] = quotes[s][k]
           /\ n > 0 => quotes'[s][n].status = "superseded"
  <2>1. CASE r = n + 1
    BY <1>1, <1>6, <2>1
  <2>2. CASE r \in 1 .. n
    BY <1>1, <1>6, <2>2
  <2> QED BY <1>1, <1>3, <1>6, <2>1, <2>2
<1> QED BY <1>2, <1>4, <1>5, <1>6 DEF RevisionsMove

(* A thread that the award closes has no request; one there was not stays. *)
LEMMA ClosedHasNoRequest ==
  ASSUME NEW s, thread[s] \in Threads
  PROVE  /\ thread[s].status = "none" => Closed(s) = thread[s]
         /\ thread[s].status # "none" =>
              Closed(s).status = "closed" /\ Closed(s).request = NoRequest
BY DEF Closed, Threads

LEMMA ThreadWaitingKept ==
  ASSUME TypeOK, ThreadWaitsForRequest, TalkGoesOn
  PROVE  ThreadWaitsForRequest'
<1> SUFFICES ASSUME NEW s \in Suppliers
             PROVE  LET p == thread'[s]
                    IN  /\ p.request = "bafo" <=> p.status = "bafo_requested"
                        /\ p.request \in {"revision", "counter_target"}
                              => p.status = "awaiting_supplier"
                        /\ p.status \in {"bafo_received", "closed"}
                              => p.request = NoRequest
  BY DEF ThreadWaitsForRequest
<1>1. /\ thread[s].request = "bafo" <=> thread[s].status = "bafo_requested"
      /\ thread[s].request \in {"revision", "counter_target"}
            => thread[s].status = "awaiting_supplier"
      /\ thread[s].status \in {"bafo_received", "closed"}
            => thread[s].request = NoRequest
  BY DEF ThreadWaitsForRequest
<1>2. ThreadMoves(s) /\ thread[s] \in Threads
  BY TalkTyped DEF TalkGoesOn
<1>3. CASE ThreadStays(s) \/ Reminded(s)
  BY <1>1, <1>3 DEF ThreadStays, Reminded
<1>4. CASE MessagePosted(s) \/ RequestPosted(s)
  BY <1>4 DEF MessagePosted, RequestPosted, NoRequest
<1>5. CASE SupplierAnswered(s)
  BY <1>1, <1>5 DEF SupplierAnswered, NoRequest
<1>6. CASE RequestAnswered(s)
  BY <1>6 DEF RequestAnswered, NoRequest
<1>7. CASE ThreadClosed(s)
  BY <1>1, <1>2, <1>7, ClosedHasNoRequest DEF ThreadClosed, NoRequest
<1> QED BY <1>2, <1>3, <1>4, <1>5, <1>6, <1>7 DEF ThreadMoves

LEMMA RequestsEndKept ==
  ASSUME TypeOK, RequestsEnd, TalkGoesOn
  PROVE  RequestsEnd'
<1> SUFFICES ASSUME NEW s \in Suppliers,
                    thread'[s].status = "none" \/ campaign' # "collecting"
             PROVE  thread'[s].request = NoRequest
  BY DEF RequestsEnd
<1>1. thread[s].status = "none" \/ campaign # "collecting"
        => thread[s].request = NoRequest
  BY DEF RequestsEnd
<1>2. ThreadMoves(s) /\ thread[s] \in Threads
  BY TalkTyped DEF TalkGoesOn
<1>3. CASE ThreadClosed(s)
  BY <1>1, <1>2, <1>3, ClosedHasNoRequest DEF ThreadClosed
<1> QED BY <1>1, <1>2, <1>3 DEF ThreadMoves, ThreadStays, MessagePosted, RequestPosted,
  Reminded, SupplierAnswered, RequestAnswered

LEMMA AskedInTimeKept ==
  ASSUME TypeOK, AskedInTime, RequestsEnd, TalkGoesOn
  PROVE  AskedInTime'
<1> SUFFICES ASSUME NEW s \in Suppliers, thread'[s].request # NoRequest,
                    thread'[s].due # NoDue
             PROVE  /\ campaign' = "collecting"
                    /\ due' # NoDue /\ thread'[s].due <= due'
  BY DEF AskedInTime
<1>1. /\ thread[s].request # NoRequest /\ thread[s].due # NoDue =>
           campaign = "collecting" /\ due # NoDue /\ thread[s].due <= due
      /\ thread[s].status = "none" => thread[s].request = NoRequest
  BY DEF AskedInTime, RequestsEnd
<1>2. /\ ThreadMoves(s) /\ thread[s] \in Threads
      /\ due \in Days \cup {NoDue} /\ due' \in Days \cup {NoDue} /\ Days \subseteq Int
      /\ due # NoDue => due' # NoDue /\ due <= due'
  BY TalkTyped DEF TalkGoesOn
<1>3. thread[s].due \in Days \cup {NoDue}
  BY <1>2 DEF Threads
<1>4. CASE /\ thread'[s].request = thread[s].request /\ thread'[s].due = thread[s].due
           /\ UNCHANGED campaign
  <2>1. /\ campaign = "collecting" /\ due # NoDue /\ thread[s].due <= due
        /\ due' # NoDue /\ due <= due' /\ thread[s].due # NoDue
    BY <1>1, <1>2, <1>4
  <2>2. due \in Int /\ due' \in Int /\ thread[s].due \in Int
    BY <1>2, <1>3, <2>1
  <2>3. thread[s].due <= due'
    BY <2>1, <2>2
  <2> QED BY <1>4, <2>1, <2>3
<1>5. CASE RequestPosted(s)
  BY <1>5 DEF RequestPosted
<1>6. ~ThreadClosed(s)
  BY <1>1, <1>2, ClosedHasNoRequest DEF ThreadClosed
<1> QED BY <1>2, <1>4, <1>5, <1>6 DEF ThreadMoves, ThreadStays, MessagePosted,
  Reminded, SupplierAnswered, RequestAnswered

LEMMA BestOfferKept ==
  ASSUME TypeOK, BestOfferWasAsked, BestOfferIsNew, QuotesMove, TalkGoesOn
  PROVE  BestOfferWasAsked' /\ BestOfferIsNew'
<1> SUFFICES ASSUME NEW s \in Suppliers
             PROVE  /\ thread'[s].request = "bafo" => asked'[s].request = "bafo"
                    /\ asked'[s].known <= Submitted(s)'
                    /\ thread'[s].status = "bafo_received" =>
                         /\ asked'[s].request = "bafo"
                         /\ Submitted(s)' > asked'[s].known
  BY DEF BestOfferWasAsked, BestOfferIsNew
<1>1. /\ thread[s].request = "bafo" => asked[s].request = "bafo"
      /\ asked[s].known <= Submitted(s)
      /\ thread[s].status = "bafo_received" =>
           asked[s].request = "bafo" /\ Submitted(s) > asked[s].known
  BY DEF BestOfferWasAsked, BestOfferIsNew
<1>2. /\ Submitted(s) \in Nat /\ Submitted(s)' \in Nat /\ Submitted(s) <= Submitted(s)'
      /\ asked[s].known \in Nat
  BY SubmittedTyped, SubmittedGrows, TalkTyped DEF QuotesMove
<1>3. ThreadMoves(s) /\ thread[s] \in Threads
  BY TalkTyped DEF TalkGoesOn
<1>4. CASE ThreadStays(s) \/ Reminded(s) \/ SupplierAnswered(s)
  BY <1>1, <1>2, <1>4 DEF ThreadStays, Reminded, SupplierAnswered
<1>5. CASE MessagePosted(s) \/ RequestPosted(s)
  BY <1>2, <1>5 DEF MessagePosted, RequestPosted, NoRequest
<1>6. CASE RequestAnswered(s)
  BY <1>1, <1>2, <1>6 DEF RequestAnswered, NoRequest
<1>7. CASE ThreadClosed(s)
  BY <1>1, <1>2, <1>3, <1>7, ClosedHasNoRequest DEF ThreadClosed, NoRequest
<1> QED BY <1>3, <1>4, <1>5, <1>6, <1>7 DEF ThreadMoves

(* The reminders of a round are counted.                                   *)
LEMMA RemindersTyped ==
  ASSUME TypeOK, NEW s \in Suppliers, NEW round
  PROVE  /\ IsFiniteSet(Reminders(s, round))
         /\ Cardinality(Reminders(s, round)) \in Nat
         /\ Reminders(s, round) \subseteq 1 .. Len(messages[s])
<1>1. Reminders(s, round) \subseteq 1 .. Len(messages[s])
  BY MessagesTyped DEF Reminders
<1>2. IsFiniteSet(1 .. Len(messages[s]))
  BY MessagesTyped, FS_Interval
<1>3. IsFiniteSet(Reminders(s, round))
  BY <1>1, <1>2, FS_Subset
<1> QED BY <1>1, <1>3, FS_CardinalityType

LEMMA RemindersStay ==
  ASSUME TypeOK, NEW s \in Suppliers, NEW round, MessagesStay(s)
  PROVE  Reminders(s, round)' = Reminders(s, round)
BY DEF Reminders, MessagesStay

LEMMA RemindersGrow ==
  ASSUME TypeOK, NEW s \in Suppliers, NEW round, NEW kind, NEW r, Added(s, kind, r)
  PROVE  /\ kind # "reminder" \/ r # round
              => Reminders(s, round)' = Reminders(s, round)
         /\ kind = "reminder" /\ r = round
              => Cardinality(Reminders(s, round)') = Cardinality(Reminders(s, round)) + 1
<1> DEFINE n == Len(messages[s])
           old == Reminders(s, round)
<1>1. n \in Nat /\ old \subseteq 1 .. n /\ IsFiniteSet(old)
  BY RemindersTyped, MessagesTyped
<1>2. ASSUME kind # "reminder" \/ r # round
      PROVE  Reminders(s, round)' = old
  BY <1>1, <1>2 DEF Reminders, Added
<1>3. ASSUME kind = "reminder", r = round
      PROVE  Cardinality(Reminders(s, round)') = Cardinality(old) + 1
  <2>1. Reminders(s, round)' = old \cup {n + 1} /\ n + 1 \notin old
    BY <1>1, <1>3 DEF Reminders, Added
  <2> HIDE DEF old
  <2> QED BY <1>1, <2>1, FS_AddElement
<1> QED BY <1>2, <1>3

(* A message of a thread belongs to a round it had.                        *)
LEMMA RoundsKept ==
  ASSUME TypeOK, RoundsAreCounted, TalkGoesOn, NEW s \in Suppliers,
         NEW k \in DOMAIN messages'[s]
  PROVE  messages'[s][k].round <= thread'[s].round
<1>1. /\ \A i \in DOMAIN messages[s] : messages[s][i].round <= thread[s].round
      /\ ThreadMoves(s) /\ thread[s] \in Threads /\ thread[s].round \in Nat
      /\ Len(messages[s]) \in Nat
  BY TalkTyped, MessagesTyped DEF RoundsAreCounted, TalkGoesOn
<1>2. \A i \in DOMAIN messages[s] : messages[s][i].round \in Nat
  BY MessagesTyped DEF Messages
<1>3. CASE MessagesStay(s) /\ thread'[s].round = thread[s].round
  BY <1>1, <1>3 DEF MessagesStay
<1>4. ASSUME NEW kind, NEW r \in Nat, Added(s, kind, r), thread'[s].round = r,
             thread[s].round <= r
      PROVE  messages'[s][k].round <= thread'[s].round
  <2>1. CASE k = Len(messages[s]) + 1
    BY <1>4, <2>1 DEF Added
  <2>2. CASE k # Len(messages[s]) + 1
    <3>1. k \in DOMAIN messages[s] /\ messages'[s][k] = messages[s][k]
      BY <1>1, <1>4, <2>2 DEF Added
    <3> QED BY <1>1, <1>2, <1>4, <3>1
  <2> QED BY <2>1, <2>2
<1>5. CASE ThreadStays(s) \/ ThreadClosed(s)
  <2>1. thread'[s].round = thread[s].round
    BY <1>1, <1>5 DEF ThreadStays, ThreadClosed, Closed, Threads
  <2> QED BY <1>3, <1>5, <2>1 DEF ThreadStays, ThreadClosed
<1>6. CASE RequestPosted(s)
  BY <1>1, <1>4, <1>6 DEF RequestPosted
<1>7. CASE MessagePosted(s) \/ Reminded(s) \/ SupplierAnswered(s) \/ RequestAnswered(s)
  BY <1>1, <1>4, <1>7 DEF MessagePosted, Reminded, SupplierAnswered, RequestAnswered
<1> QED BY <1>1, <1>5, <1>6, <1>7 DEF ThreadMoves

(* The next round has no reminders yet.                                    *)
LEMMA NoReminderAhead ==
  ASSUME TypeOK, RoundsAreCounted, NEW s \in Suppliers, NEW round \in Nat,
         round > thread[s].round
  PROVE  Reminders(s, round) = {}
<1>1. \A k \in DOMAIN messages[s] :
        messages[s][k].round <= thread[s].round /\ messages[s][k].round \in Nat
  BY MessagesTyped DEF RoundsAreCounted, Messages
<1>2. thread[s].round \in Nat
  BY TalkTyped
<1> QED BY <1>1, <1>2 DEF Reminders

LEMMA RemindersCounted ==
  ASSUME TypeOK, RoundsAreCounted, RemindersPerRequest, TalkGoesOn,
         NEW s \in Suppliers, NEW v, v = thread'[s].round
  PROVE  /\ thread'[s].request # NoRequest
              => Cardinality(Reminders(s, v)') <= thread'[s].reminders
         /\ \A round \in 0 .. v : Cardinality(Reminders(s, round)') <= MaxReminders
<1>1. PICK u \in Nat : u = thread[s].round
  BY TalkTyped
<1>2. /\ thread[s].request # NoRequest
           => Cardinality(Reminders(s, u)) <= thread[s].reminders
      /\ \A round \in 0 .. u : Cardinality(Reminders(s, round)) <= MaxReminders
      /\ thread[s].reminders \in 0 .. MaxReminders /\ thread[s] \in Threads
      /\ ThreadMoves(s)
  BY <1>1, TalkTyped DEF RoundsAreCounted, RemindersPerRequest, Reminders, TalkGoesOn
<1>3. \A round : Cardinality(Reminders(s, round)) \in Nat
  BY RemindersTyped
<1>4. CASE ThreadStays(s) \/ ThreadClosed(s)
  <2>1. \A round : Reminders(s, round)' = Reminders(s, round)
    BY <1>4, RemindersStay DEF ThreadStays, ThreadClosed
  <2>2. /\ v = u
        /\ thread'[s].request # NoRequest =>
             /\ thread[s].request # NoRequest
             /\ thread'[s].reminders = thread[s].reminders
    <3>1. CASE ThreadStays(s)
      BY <1>1, <3>1 DEF ThreadStays
    <3>2. CASE ThreadClosed(s)
      <4>1. thread'[s] = Closed(s) /\ thread[s] \in Threads
        BY <1>2, <3>2 DEF ThreadClosed
      <4>2. Closed(s).round = thread[s].round
        BY <4>1 DEF Closed, Threads
      <4>3. Closed(s) = thread[s] \/ Closed(s).request = NoRequest
        BY <4>1, ClosedHasNoRequest
      <4> QED BY <1>1, <4>1, <4>2, <4>3
    <3> QED BY <1>4, <3>1, <3>2
  <2> QED BY <1>2, <2>1, <2>2
<1>5. ASSUME NEW kind, NEW r, Added(s, kind, r), kind # "reminder"
      PROVE  \A round : Reminders(s, round)' = Reminders(s, round)
  BY <1>5, RemindersGrow
<1>6. CASE MessagePosted(s) \/ SupplierAnswered(s) \/ RequestAnswered(s)
  <2>1. \A round : Reminders(s, round)' = Reminders(s, round)
    BY <1>5, <1>6 DEF MessagePosted, SupplierAnswered, RequestAnswered
  <2>2. /\ v = u
        /\ thread'[s].request # NoRequest =>
             /\ thread[s].request # NoRequest
             /\ thread'[s].reminders = thread[s].reminders
    BY <1>1, <1>6 DEF MessagePosted, SupplierAnswered, RequestAnswered
  <2> QED BY <1>2, <2>1, <2>2
<1>7. CASE RequestPosted(s)
  <2>1. thread'[s].request \in Requests /\ thread'[s].reminders = 0 /\ v = u + 1
    BY <1>1, <1>7 DEF RequestPosted
  <2>2. thread'[s].request # "reminder" /\ Added(s, thread'[s].request, u + 1)
    BY <1>1, <1>7, <2>1 DEF RequestPosted
  <2>3. \A round : Reminders(s, round)' = Reminders(s, round)
    BY <1>5, <2>2
  <2>4. Cardinality(Reminders(s, v)) = 0
    <3>1. v \in Nat /\ v > thread[s].round
      BY <1>1, <2>1
    <3>2. Reminders(s, v) = {}
      BY <3>1, NoReminderAhead
    <3> QED BY <3>2, FS_EmptySet
  <2>5. \A round \in 0 .. v : round = v \/ round \in 0 .. u
    BY <2>1
  <2> QED BY <1>2, <2>1, <2>3, <2>4, <2>5
<1>8. CASE Reminded(s)
  <2>1. /\ Added(s, "reminder", u) /\ v = u /\ thread[s].request # NoRequest
        /\ thread'[s].reminders = thread[s].reminders + 1
        /\ thread[s].reminders < MaxReminders
    BY <1>1, <1>8 DEF Reminded
  <2>2. /\ Cardinality(Reminders(s, u)') = Cardinality(Reminders(s, u)) + 1
        /\ \A round : round # u => Reminders(s, round)' = Reminders(s, round)
    BY <2>1, RemindersGrow
  <2>3. /\ Cardinality(Reminders(s, u)') <= thread'[s].reminders
        /\ Cardinality(Reminders(s, u)') <= MaxReminders
    BY <1>2, <1>3, <2>1, <2>2
  <2>4. \A round \in 0 .. u : Cardinality(Reminders(s, round)') <= MaxReminders
    BY <1>2, <2>2, <2>3
  <2> QED BY <2>1, <2>3, <2>4
<1> QED BY <1>2, <1>4, <1>6, <1>7, <1>8 DEF ThreadMoves

LEMMA CountsKept ==
  ASSUME TypeOK, RoundsAreCounted, RemindersPerRequest, TalkGoesOn
  PROVE  RoundsAreCounted' /\ RemindersPerRequest'
<1>1. ASSUME NEW s \in Suppliers
      PROVE  /\ \A k \in DOMAIN messages'[s] :
                  messages'[s][k].round <= thread'[s].round
             /\ thread'[s].request # NoRequest
                  => Cardinality(Reminders(s, thread[s].round)') <= thread'[s].reminders
             /\ \A round \in 0 .. thread'[s].round :
                  Cardinality(Reminders(s, round)') <= MaxReminders
  <2>1. PICK v : v = thread'[s].round
    OBVIOUS
  <2>2. /\ thread'[s].request # NoRequest
             => Cardinality(Reminders(s, v)') <= thread'[s].reminders
        /\ \A round \in 0 .. v : Cardinality(Reminders(s, round)') <= MaxReminders
    BY <2>1, RemindersCounted
  <2>3. Reminders(s, thread[s].round)' = Reminders(s, v)'
    BY <2>1 DEF Reminders
  <2> QED BY <2>1, <2>2, <2>3, RoundsKept
<1>2. RoundsAreCounted'
  BY <1>1 DEF RoundsAreCounted
<1>3. RemindersPerRequest'
  BY <1>1 DEF RemindersPerRequest, Reminders
<1> QED BY <1>2, <1>3

LEMMA SentKept ==
  ASSUME TypeOK, SentWasMailed, TalkGoesOn, MailsGoOn
  PROVE  SentWasMailed'
<1> SUFFICES ASSUME NEW s \in Suppliers, NEW k \in DOMAIN messages'[s],
                    messages'[s][k].notice = "sent"
             PROVE  <<s, k>> \in mailed'
  BY DEF SentWasMailed
<1>1. /\ \A i \in DOMAIN messages[s] :
           messages[s][i].notice = "sent" => <<s, i>> \in mailed
      /\ ThreadMoves(s) /\ mailed \subseteq mailed' /\ Len(messages[s]) \in Nat
  BY MessagesTyped DEF SentWasMailed, TalkGoesOn, MailsGoOn
<1>2. CASE MessagesStay(s)
  BY <1>1, <1>2 DEF MessagesStay
<1>3. ASSUME NEW kind, NEW r, Added(s, kind, r)
      PROVE  <<s, k>> \in mailed'
  BY <1>1, <1>3 DEF Added
<1> QED BY <1>1, <1>2, <1>3 DEF ThreadMoves, ThreadStays, MessagePosted, RequestPosted,
  Reminded, SupplierAnswered, RequestAnswered, ThreadClosed

-----------------------------------------------------------------------------
(* The invariant of the negotiation, and what follows from it.             *)

NegotiationInv ==
  /\ FilesInv /\ OneLiveRevision
  /\ ThreadWaitsForRequest /\ RequestsEnd /\ AskedInTime
  /\ BestOfferWasAsked /\ BestOfferIsNew
  /\ RoundsAreCounted /\ RemindersPerRequest
  /\ WindowsMailMessages /\ SentWasMailed

LEMMA NegotiationInvKept ==
  ASSUME NegotiationInv, [Next]_vars
  PROVE  NegotiationInv'
<1>1. TypeOK
  BY FilesTyped DEF NegotiationInv
<1>2. QuotesMove /\ FilesGoOn /\ TalkGoesOn /\ MailsGoOn
  BY <1>1, PortalMoves, TalkMoves DEF NegotiationInv
<1>3. TypeOK'
  BY TypesKept DEF NegotiationInv
<1>4. FilesInv'
  BY <1>2, <1>3 DEF FilesInv, FilesGoOn
<1>5. OneLiveRevision' /\ ThreadWaitsForRequest' /\ RequestsEnd' /\ AskedInTime'
  BY <1>1, <1>2, LiveRevisionKept, ThreadWaitingKept, RequestsEndKept, AskedInTimeKept
    DEF NegotiationInv
<1>6. /\ BestOfferWasAsked' /\ BestOfferIsNew'
      /\ RoundsAreCounted' /\ RemindersPerRequest' /\ SentWasMailed'
  BY <1>1, <1>2, BestOfferKept, CountsKept, SentKept DEF NegotiationInv
<1>7. WindowsMailMessages'
  BY <1>2 DEF MailsGoOn
<1> QED BY <1>4, <1>5, <1>6, <1>7 DEF NegotiationInv

LEMMA NegotiationInvStarts ==
  ASSUME Init
  PROVE  NegotiationInv
<1> USE DEF Init, PortalInit
<1>1. PortalTypeOK
  BY DEF PortalTypeOK, Days, UploadStates, NoUpload
<1>2. thread \in [Suppliers -> Threads]
  BY DEF Threads, NoThread, Days
<1>3. /\ messages \in [Suppliers -> Seq(Messages)]
      /\ window \in [Windows -> WindowStates]
      /\ asked \in [Suppliers -> [request : Requests \cup {NoRequest}, known : Nat]]
  BY DEF WindowStates, Idle
<1>4. TypeOK
  BY <1>1, <1>2, <1>3 DEF TypeOK
<1>5. FilesAreOwn /\ AttachmentIsStored /\ OneLiveRevision
  BY DEF FilesAreOwn, AttachmentIsStored, OneLiveRevision
<1>6. \A u \in Uploads : UploadIsSound(u)
  BY DEF UploadIsSound, NoUpload
<1>7. /\ ThreadWaitsForRequest /\ RequestsEnd /\ AskedInTime
  BY DEF ThreadWaitsForRequest, RequestsEnd, AskedInTime, NoThread, NoRequest
<1>8. BestOfferWasAsked /\ BestOfferIsNew
  BY <1>4, SubmittedTyped DEF BestOfferWasAsked, BestOfferIsNew, NoThread, NoRequest
<1>9. RoundsAreCounted
  <2>1. \A s \in Suppliers : \A k \in DOMAIN messages[s] : FALSE
    BY <1>4, MessagesTyped
  <2>2. \A s \in Suppliers : thread[s].request = NoRequest
    BY DEF NoThread
  <2> QED BY <2>1, <2>2 DEF RoundsAreCounted
<1>10. RemindersPerRequest
  <2>1. \A s \in Suppliers : \A round : Reminders(s, round) = {}
    BY DEF Reminders
  <2> QED BY <2>1, FS_EmptySet DEF RemindersPerRequest, Reminders
<1>11. WindowsMailMessages /\ SentWasMailed
  BY DEF WindowsMailMessages, SentWasMailed, Idle
<1> QED BY <1>4, <1>5, <1>6, <1>7, <1>8, <1>9, <1>10, <1>11 DEF NegotiationInv, FilesInv

LEMMA NegotiationInvAlways == Spec => []NegotiationInv
<1>1. Init => NegotiationInv
  BY NegotiationInvStarts
<1>2. NegotiationInv /\ [Next]_vars => NegotiationInv'
  BY NegotiationInvKept
<1> QED BY <1>1, <1>2, PTL DEF Spec

(* What the portal and the negotiation keep stays of its types.            *)
THEOREM NegotiationTypeCorrect == Spec => []TypeOK
<1>1. NegotiationInv => TypeOK
  BY DEF NegotiationInv, FilesInv
<1> QED BY <1>1, NegotiationInvAlways, PTL

(* Of a supplier's revisions the last alone is alive, however saves,       *)
(* submissions, uploads and revisions of several tabs interleave           *)
(* (rfqh4_start_revision).                                                 *)
THEOREM OneRevisionLives == Spec => []OneLiveRevision
<1>1. NegotiationInv => OneLiveRevision
  BY DEF NegotiationInv
<1> QED BY <1>1, NegotiationInvAlways, PTL

(* The file a quote names is in the store, whatever uploads are killed     *)
(* and whatever others remove (the edge function rfqh4-offer-upload).      *)
THEOREM AttachmentsAreStored == Spec => []AttachmentIsStored
<1>1. NegotiationInv => AttachmentIsStored
  BY DEF NegotiationInv, FilesInv
<1> QED BY <1>1, NegotiationInvAlways, PTL

(* What the buyer was sent is not changed any more: neither its lines nor  *)
(* its file, by no other tab and no upload under way.                      *)
THEOREM OffersStayAsSent == Spec => SubmittedStaysAsSent
<1> DEFINE A == \A s \in Suppliers : \A r \in DOMAIN quotes[s] :
                  quotes[s][r].status # "draft" =>
                    /\ quotes'[s][r].lines = quotes[s][r].lines
                    /\ quotes'[s][r].file = quotes[s][r].file
                    /\ quotes'[s][r].status # "draft"
<1>1. NegotiationInv /\ [Next]_vars => [A]_quotes
  <2> SUFFICES ASSUME NegotiationInv, [Next]_vars
               PROVE  A
    OBVIOUS
  <2>1. TypeOK /\ QuotesMove
    BY PortalMoves, FilesTyped DEF NegotiationInv
  <2>2. ASSUME NEW s \in Suppliers, NEW r \in DOMAIN quotes[s],
               quotes[s][r].status # "draft"
        PROVE  /\ quotes'[s][r].lines = quotes[s][r].lines
               /\ quotes'[s][r].file = quotes[s][r].file
               /\ quotes'[s][r].status # "draft"
    <3>1. RevisionsMove(s) /\ r \in 1 .. Len(quotes[s])
      BY <2>1, QuotesTyped DEF QuotesMove
    <3> QED BY <2>2, <3>1 DEF RevisionsMove
  <2> QED BY <2>2
<1> QED BY <1>1, NegotiationInvAlways, PTL DEF Spec, SubmittedStaysAsSent

(* A request is open exactly while the thread waits for it                 *)
(* (rfqh6_buyer_post, rfqh6_supplier_post, rfqh6_quote_submission_sync).   *)
THEOREM ThreadsWaitForRequests == Spec => []ThreadWaitsForRequest
<1>1. NegotiationInv => ThreadWaitsForRequest
  BY DEF NegotiationInv
<1> QED BY <1>1, NegotiationInvAlways, PTL

(* A supplier who is asked for an answer by a date can give it until then  *)
(* (rfqh6_buyer_post extends the deadline of the campaign).                *)
THEOREM RequestsAreAskedInTime == Spec => []AskedInTime
<1>1. NegotiationInv => AskedInTime
  BY DEF NegotiationInv
<1> QED BY <1>1, NegotiationInvAlways, PTL

(* An offer that counts as best and final is one the buyer had not seen    *)
(* when it asked for it (rfqh6_quote_submission_sync).                     *)
THEOREM BestOffersAreNew == Spec => []BestOfferIsNew
<1>1. NegotiationInv => BestOfferIsNew
  BY DEF NegotiationInv
<1> QED BY <1>1, NegotiationInvAlways, PTL

(* A request is reminded of MaxReminders times at most                     *)
(* (rfqh6_prepare_reminder).                                               *)
THEOREM RemindersAreLimited == Spec => []RemindersPerRequest
<1>1. NegotiationInv => RemindersPerRequest
  BY DEF NegotiationInv
<1> QED BY <1>1, NegotiationInvAlways, PTL

(* A message is recorded as sent only if the provider took its mail,       *)
(* wherever a server action was killed (rfqh6_mark_notification).          *)
THEOREM SentMeansMailed == Spec => []SentWasMailed
<1>1. NegotiationInv => SentWasMailed
  BY DEF NegotiationInv
<1> QED BY <1>1, NegotiationInvAlways, PTL

(* The award ends the conversation: no message, submission or revision     *)
(* follows it, not even a reminder, which looks at the thread alone.       *)
THEOREM AwardsEndNegotiations == Spec => AwardEndsNegotiation
<1> DEFINE A == campaign = "awarded" =>
                  /\ campaign' = "awarded"
                  /\ \A s \in Suppliers :
                       /\ Len(messages'[s]) = Len(messages[s])
                       /\ Len(quotes'[s]) <= Len(quotes[s])
                       /\ Submitted(s)' = Submitted(s)
<1>1. NegotiationInv /\ [Next]_vars => [A]_vars
  <2> SUFFICES ASSUME NegotiationInv, [Next]_vars, campaign = "awarded"
               PROVE  /\ campaign' = "awarded"
                      /\ \A s \in Suppliers :
                           /\ Len(messages'[s]) = Len(messages[s])
                           /\ Len(quotes'[s]) <= Len(quotes[s])
                           /\ Submitted(s)' = Submitted(s)
    OBVIOUS
  <2>1. TypeOK
    BY FilesTyped DEF NegotiationInv
  <2>2. QuotesMove /\ TalkGoesOn
    BY <2>1, PortalMoves, TalkMoves DEF NegotiationInv
  <2>3. ASSUME NEW s \in Suppliers
        PROVE  /\ Len(messages'[s]) = Len(messages[s])
               /\ Len(quotes'[s]) <= Len(quotes[s])
               /\ Submitted(s)' = Submitted(s)
    <3>1. thread[s].request = NoRequest
      BY DEF NegotiationInv, RequestsEnd
    <3>2. MessagesStay(s)
      BY <2>2, <3>1 DEF TalkGoesOn, ThreadMoves, ThreadStays, MessagePosted,
        RequestPosted, Reminded, SupplierAnswered, RequestAnswered, ThreadClosed
    <3>3. RevisionsMove(s) /\ Len(quotes[s]) \in Nat
      BY <2>1, <2>2, QuotesTyped DEF QuotesMove
    <3>4. Len(quotes'[s]) <= Len(quotes[s])
      BY <3>3 DEF RevisionsMove
    <3> QED BY <2>1, <3>2, <3>3, <3>4, SubmittedGrows DEF MessagesStay
  <2> QED BY <2>2, <2>3 DEF TalkGoesOn
<1> QED BY <1>1, NegotiationInvAlways, PTL DEF Spec, AwardEndsNegotiation

(* No bounce of a negotiation mail takes back a supplier's answer          *)
(* (rfqh3_ingest_resend_event).                                            *)
THEOREM AnswersOutliveMails == Spec => AnswerOutlivesMail
<1> DEFINE A == \A s \in Suppliers :
                  /\ dispatch[s] = "responded"
                       => dispatch'[s] \in {"responded", "declined"}
                  /\ dispatch[s] = "declined" => dispatch'[s] = "declined"
<1>1. NegotiationInv /\ [Next]_vars => [A]_dispatch
  BY RestMoves, FilesTyped DEF NegotiationInv, RestGoesOn, AnswersGoOn
<1> QED BY <1>1, NegotiationInvAlways, PTL DEF Spec, AnswerOutlivesMail

-----------------------------------------------------------------------------
(* The refinement of OfferContract.                                        *)

(* The first n of the revisions q, as packages.                            *)
Packed(q, n) ==
  [r \in 1 .. n |-> [lines |-> q[r].lines, file |-> q[r].file]]

LEMMA AnswerShows ==
  ASSUME TypeOK, NEW s \in Suppliers
  PROVE  /\ Status(s) = "none" => /\ Answer(s) = "none" /\ quotes[s] = <<>>
                                  /\ PackagesSent(s) = Packed(quotes[s], 0)
         /\ Status(s) = "draft" =>
              /\ Answer(s) = "none"
              /\ PackagesSent(s) = Packed(quotes[s], Len(quotes[s]) - 1)
         /\ Status(s) = "declined" =>
              /\ Answer(s) = "declined"
              /\ PackagesSent(s) = Packed(quotes[s], Len(quotes[s]) - 1)
         /\ Status(s) = "submitted" =>
              /\ Answer(s) = "offer"
              /\ PackagesSent(s) = Packed(quotes[s], Len(quotes[s]))
<1>1. Status(s) = "none" => quotes[s] = <<>> /\ Len(quotes[s]) - 0 = 0
  BY QuotesTyped DEF Quotes
<1>2. Len(quotes[s]) - 0 = Len(quotes[s])
  BY QuotesTyped
<1> QED BY <1>1, <1>2 DEF Answer, PackagesSent, Packed

LEMMA AnswerWillShow ==
  ASSUME NEW s \in Suppliers, quotes'[s] \in Seq(Quotes), quotes'[s] # <<>>
  PROVE  LET n == Len(quotes'[s])
             status == quotes'[s][n].status
         IN  /\ status = "draft" => /\ Answer(s)' = "none"
                                    /\ PackagesSent(s)' = Packed(quotes'[s], n - 1)
             /\ status = "declined" => /\ Answer(s)' = "declined"
                                       /\ PackagesSent(s)' = Packed(quotes'[s], n - 1)
             /\ status = "submitted" => /\ Answer(s)' = "offer"
                                        /\ PackagesSent(s)' = Packed(quotes'[s], n)
<1>1. Status(s)' = quotes'[s][Len(quotes'[s])].status
  BY DEF Status, Current
<1>2. Len(quotes'[s]) \in Nat /\ Len(quotes'[s]) - 0 = Len(quotes'[s])
  OBVIOUS
<1> QED BY <1>1, <1>2 DEF Answer, PackagesSent, Packed

LEMMA PackedAlike ==
  ASSUME NEW q, NEW p, NEW n \in Int,
         \A r \in 1 .. n : p[r].lines = q[r].lines /\ p[r].file = q[r].file
  PROVE  Packed(p, n) = Packed(q, n)
BY DEF Packed

LEMMA PackedNext ==
  ASSUME NEW q \in Seq(Quotes), NEW n \in Nat, n + 1 = Len(q)
  PROVE  Packed(q, n + 1)
           = Append(Packed(q, n), [lines |-> q[n + 1].lines, file |-> q[n + 1].file])
<1> DEFINE P == [lines : Answers, file : Files \cup {NoFile}]
           pack(r) == [lines |-> q[r].lines, file |-> q[r].file]
           a == Packed(q, n)
           b == Packed(q, n + 1)
<1>1. \A r \in 1 .. (n + 1) : q[r] \in Quotes
  OBVIOUS
<1>2. \A r \in 1 .. (n + 1) : pack(r) \in P
  BY <1>1 DEF Quotes
<1>3. a = [r \in 1 .. n |-> pack(r)] /\ b = [r \in 1 .. (n + 1) |-> pack(r)]
  BY DEF Packed
<1> HIDE DEF P, pack, a, b
<1>4. /\ a \in Seq(P) /\ Len(a) = n /\ b \in Seq(P) /\ Len(b) = n + 1
      /\ \A r \in 1 .. n : b[r] = a[r]
      /\ b[n + 1] = pack(n + 1) /\ pack(n + 1) \in P
  BY <1>2, <1>3
<1>5. b = Append(a, pack(n + 1))
  BY <1>4, AppendProperties, SeqEqual
<1> QED BY <1>5 DEF a, b, pack

(* What the contract's variables are here.                                 *)
Shown == [s \in Suppliers |-> Answer(s)]
ShownSent == [s \in Suppliers |-> PackagesSent(s)]
Collecting == campaign = "collecting" /\ ~Expired

(* The answer of s alone becomes a.                                        *)
LEMMA OneAnswers ==
  ASSUME NEW s \in Suppliers, NEW a, Answer(s)' = a,
         \A z \in Suppliers : z # s => quotes'[z] = quotes[z]
  PROVE  /\ Shown' = [Shown EXCEPT ![s] = a]
         /\ PackagesSent(s)' = PackagesSent(s) => UNCHANGED ShownSent
         /\ ShownSent' = [ShownSent EXCEPT ![s] = PackagesSent(s)']
<1>1. \A z \in Suppliers : z # s => /\ Answer(z)' = Answer(z)
                                    /\ PackagesSent(z)' = PackagesSent(z)
  BY DEF Answer, PackagesSent, Status, Current
<1> QED BY <1>1 DEF Shown, ShownSent

LEMMA SameQuotesShow ==
  ASSUME UNCHANGED quotes
  PROVE  UNCHANGED <<Shown, ShownSent>>
BY DEF Shown, ShownSent, Answer, PackagesSent, Status, Current

(* Neither a draft that is edited nor a first one is an answer.            *)
LEMMA DraftsDoNotShow ==
  ASSUME TypeOK, NEW s \in Suppliers, QuotesMove,
         \A z \in Suppliers : z # s => quotes'[z] = quotes[z],
         \/ /\ Status(s) = "none"
            /\ Len(quotes'[s]) = 1 /\ quotes'[s][1].status = "draft"
         \/ /\ Status(s) = "draft" /\ quotes[s] # <<>>
            /\ Len(quotes'[s]) = Len(quotes[s])
            /\ quotes'[s][Len(quotes[s])].status = "draft"
            /\ \A r \in 1 .. Len(quotes[s]) :
                 r # Len(quotes[s]) => quotes'[s][r] = quotes[s][r]
  PROVE  UNCHANGED <<Shown, ShownSent>>
<1>1. quotes'[s] \in Seq(Quotes) /\ Len(quotes[s]) \in Nat
  BY QuotesTyped DEF QuotesMove
<1>2. quotes'[s] # <<>> /\ quotes'[s][Len(quotes'[s])].status = "draft"
  BY <1>1, QuotesTyped
<1>3. /\ Answer(s)' = "none"
      /\ PackagesSent(s)' = Packed(quotes'[s], Len(quotes'[s]) - 1)
  BY <1>1, <1>2, AnswerWillShow
<1>4. Answer(s) = "none" /\ PackagesSent(s)' = PackagesSent(s)
  <2>1. CASE Status(s) = "none" /\ Len(quotes'[s]) = 1
    <3>1. Packed(quotes'[s], 0) = Packed(quotes[s], 0)
      BY PackedAlike
    <3> QED BY <1>3, <2>1, <3>1, AnswerShows
  <2>2. CASE /\ Status(s) = "draft" /\ Len(quotes'[s]) = Len(quotes[s])
             /\ \A r \in 1 .. Len(quotes[s]) :
                  r # Len(quotes[s]) => quotes'[s][r] = quotes[s][r]
    <3>1. Packed(quotes'[s], Len(quotes[s]) - 1) = Packed(quotes[s], Len(quotes[s]) - 1)
      BY <1>1, <2>2, PackedAlike
    <3> QED BY <1>3, <2>2, <3>1, AnswerShows
  <2> QED BY <2>1, <2>2
<1>5. Shown[s] = "none" /\ Shown' = [Shown EXCEPT ![s] = "none"] /\ UNCHANGED ShownSent
  BY <1>3, <1>4, OneAnswers DEF Shown
<1>6. Shown' = Shown
  BY <1>5 DEF Shown
<1> QED BY <1>5, <1>6

LEMMA FirstDraftsDoNotShow ==
  ASSUME TypeOK, NEW s \in Suppliers, NEW lines \in Answers, Status(s) = "none",
         campaign = "collecting", quotes' = NewRevision(s, Draft(lines))
  PROVE  UNCHANGED <<Shown, ShownSent>>
<1>1. /\ Draft(lines) \in Quotes /\ Draft(lines).status = "draft"
      /\ Draft(lines).file = NoFile
  BY DraftTyped
<1>2. /\ QuotesMove /\ Len(quotes'[s]) = 1 /\ quotes'[s][1] = Draft(lines)
      /\ \A z \in Suppliers : z # s => quotes'[z] = quotes[z]
  BY <1>1, FirstMoves
<1> QED BY <1>1, <1>2, DraftsDoNotShow

LEMMA EditedDraftsDoNotShow ==
  ASSUME TypeOK, NEW s \in Suppliers, Status(s) = "draft", NEW e \in Quotes,
         e.status = "draft", quotes' = WithCurrent(s, e)
  PROVE  UNCHANGED <<Shown, ShownSent>>
<1>1. /\ QuotesMove /\ quotes[s] # <<>> /\ Len(quotes'[s]) = Len(quotes[s])
      /\ quotes'[s][Len(quotes[s])] = e
      /\ \A r \in 1 .. Len(quotes[s]) :
           r # Len(quotes[s]) => quotes'[s][r] = quotes[s][r]
      /\ \A z \in Suppliers : z # s => quotes'[z] = quotes[z]
  BY EditMoves
<1> QED BY <1>1, DraftsDoNotShow

LEMMA SavesDoNotShow ==
  ASSUME TypeOK, NEW s \in Suppliers, NEW lines \in Answers, SaveQuote(s, lines)
  PROVE  UNCHANGED <<Shown, ShownSent>>
<1>1. campaign = "collecting" /\ quotes' = Saved(s, lines)
  BY DEF SaveQuote, OpenTo
<1>2. CASE Status(s) = "none"
  <2>1. quotes' = NewRevision(s, Draft(lines))
    BY <1>1, <1>2 DEF Saved
  <2> QED BY <1>1, <1>2, <2>1, FirstDraftsDoNotShow
<1>3. CASE Status(s) = "draft"
  <2> DEFINE e == [Current(s) EXCEPT !.lines = lines]
  <2>1. quotes' = WithCurrent(s, e)
    BY <1>1, <1>3 DEF Saved
  <2>2. Current(s) \in Quotes /\ Current(s).status = "draft"
    BY <1>3, QuotesTyped
  <2>3. e \in Quotes /\ e.status = "draft"
    BY <2>2 DEF Quotes
  <2> HIDE DEF e
  <2> QED BY <1>3, <2>1, <2>3, EditedDraftsDoNotShow
<1>4. CASE Status(s) \notin {"none", "draft"}
  <2>1. quotes' = quotes
    BY <1>1, <1>4 DEF Saved
  <2> QED BY <2>1, SameQuotesShow
<1> QED BY <1>2, <1>3, <1>4

LEMMA UploadsDoNotShow ==
  ASSUME TypeOK, NEW u \in Uploads, UploadIsSound(u),
         \/ \E s \in Suppliers : PrepareAttachment(u, s)
         \/ PutFile(u) \/ RecordAttachment(u) \/ RefuseAttachment(u)
         \/ RemoveLeftover(u) \/ DropUpload(u)
  PROVE  UNCHANGED <<Shown, ShownSent>>
<1>1. ASSUME NEW s \in Suppliers, PrepareAttachment(u, s)
      PROVE  UNCHANGED <<Shown, ShownSent>>
  <2>1. CASE Status(s) = "none"
    <3>1. /\ campaign = "collecting" /\ Incomplete \in Answers
          /\ quotes' = NewRevision(s, Draft(Incomplete))
      BY <1>1, <2>1 DEF PrepareAttachment, OpenTo, Answers
    <3> QED BY <2>1, <3>1, FirstDraftsDoNotShow
  <2>2. CASE Status(s) # "none"
    BY <1>1, <2>2, SameQuotesShow DEF PrepareAttachment
  <2> QED BY <2>1, <2>2
<1>2. ASSUME RecordAttachment(u)
      PROVE  UNCHANGED <<Shown, ShownSent>>
  <2>1. PICK s \in Suppliers, n \in Nat : upload[u].quote = <<s, n>>
    BY <1>2 DEF UploadIsSound, RecordAttachment
  <2>2. upload[u].file \in Files \cup {NoFile}
    BY <1>2 DEF UploadIsSound, RecordAttachment
  <2> DEFINE e == WithFile(Current(s), upload[u].file)
  <2>3. /\ Status(s) = "draft" /\ Current(s).uploads < MaxUploads
        /\ quotes' = WithCurrent(s, e)
    BY <1>2, <2>1 DEF RecordAttachment, Recordable
  <2>4. Current(s) \in Quotes /\ Current(s).status = "draft"
    BY <2>3, QuotesTyped
  <2>5. e \in Quotes /\ e.status = "draft"
    <3>1. Current(s).uploads + 1 \in 0 .. MaxUploads
      BY <2>3, <2>4 DEF Quotes
    <3> QED BY <2>2, <2>4, <3>1 DEF WithFile, Quotes
  <2> HIDE DEF e
  <2> QED BY <2>3, <2>5, EditedDraftsDoNotShow
<1>3. CASE PutFile(u) \/ RefuseAttachment(u) \/ RemoveLeftover(u) \/ DropUpload(u)
  BY <1>3, SameQuotesShow DEF PutFile, RefuseAttachment, RemoveLeftover, DropUpload
<1> QED BY <1>1, <1>2, <1>3

(* The steps that show: a submission, a decision to revise, a refusal.     *)

LEMMA SubmissionsSend ==
  ASSUME TypeOK, NEW t \in Tabs, SubmitQuote(t)
  PROVE  \E s \in Suppliers : Contract!Send(s)
<1>1. PICK s \in Suppliers : s = tab[t]
  BY DEF TypeOK, PortalTypeOK, SubmitQuote
<1> DEFINE e == [Current(s) EXCEPT !.status = "submitted"]
           n == Len(quotes[s])
           p == [lines |-> e.lines, file |-> e.file]
<1>2. /\ Status(s) = "draft" /\ Collecting /\ Current(s).lines \in Offers
      /\ quotes' = WithCurrent(s, e) /\ UNCHANGED <<campaign, due, now>>
  BY <1>1 DEF SubmitQuote, OpenTo, Collecting
<1>3. Current(s) \in Quotes /\ Current(s) = quotes[s][n] /\ n \in Nat /\ n > 0
  BY <1>2, QuotesTyped DEF Current
<1>4. /\ e \in Quotes /\ e.status = "submitted"
      /\ p \in [lines : Offers, file : Files \cup {NoFile}]
  BY <1>2, <1>3 DEF Quotes
<1> HIDE DEF e
<1>5. /\ QuotesMove /\ quotes[s] # <<>> /\ Len(quotes'[s]) = n
      /\ quotes'[s][n] = e
      /\ \A r \in 1 .. n : r # n => quotes'[s][r] = quotes[s][r]
      /\ \A z \in Suppliers : z # s => quotes'[z] = quotes[z]
  BY <1>2, <1>4, EditMoves DEF Collecting
<1>6. quotes'[s] \in Seq(Quotes) /\ quotes'[s] # <<>>
  BY <1>3, <1>5 DEF QuotesMove
<1>7. Answer(s)' = "offer" /\ PackagesSent(s)' = Packed(quotes'[s], n)
  BY <1>4, <1>5, <1>6, AnswerWillShow
<1>8. Answer(s) = "none" /\ PackagesSent(s) = Packed(quotes[s], n - 1)
  BY <1>2, AnswerShows
<1>9. Packed(quotes'[s], n - 1) = Packed(quotes[s], n - 1)
  BY <1>3, <1>5, PackedAlike
<1>10. Packed(quotes'[s], n) = Append(Packed(quotes'[s], n - 1), p)
  <2>1. n - 1 \in Nat /\ (n - 1) + 1 = n
    BY <1>3
  <2> QED BY <1>5, <1>6, <2>1, PackedNext
<1>11. PackagesSent(s)' = Append(PackagesSent(s), p)
  BY <1>7, <1>8, <1>9, <1>10
<1>12. /\ Shown' = [Shown EXCEPT ![s] = "offer"]
       /\ ShownSent' = [ShownSent EXCEPT ![s] = Append(ShownSent[s], p)]
  <2>1. /\ Shown' = [Shown EXCEPT ![s] = "offer"]
        /\ ShownSent' = [ShownSent EXCEPT ![s] = PackagesSent(s)']
    BY <1>5, <1>7, OneAnswers
  <2>2. ShownSent[s] = PackagesSent(s)
    BY DEF ShownSent
  <2> QED BY <1>11, <2>1, <2>2
<1>13. Shown[s] = "none" /\ UNCHANGED <<Collecting, campaign>>
  BY <1>2, <1>8 DEF Shown, Collecting, Expired
<1> HIDE DEF p
<1> QED BY <1>2, <1>4, <1>12, <1>13
  DEF Contract!Send, Shown, ShownSent, Collecting

LEMMA RevisionsTakeBack ==
  ASSUME TypeOK, NEW s \in Suppliers, StartRevision(s)
  PROVE  Contract!TakeBack(s)
<1> DEFINE n == Len(quotes[s])
<1>1. /\ Status(s) = "submitted" /\ Collecting /\ campaign = "collecting"
      /\ quotes' = Revised(s) /\ UNCHANGED <<campaign, due, now>>
  BY DEF StartRevision, OpenTo, Collecting
<1>2. /\ QuotesMove /\ Len(quotes'[s]) = n + 1
      /\ quotes'[s][n + 1].status = "draft"
      /\ \A z \in Suppliers : z # s => quotes'[z] = quotes[z]
  BY <1>1, RevisedMoves
<1>3. n \in Nat /\ quotes'[s] \in Seq(Quotes) /\ quotes'[s] # <<>>
  BY <1>2, QuotesTyped DEF QuotesMove
<1>4. \A r \in 1 .. n : /\ quotes'[s][r].lines = quotes[s][r].lines
                        /\ quotes'[s][r].file = quotes[s][r].file
  BY <1>2, <1>3 DEF QuotesMove, RevisionsMove
<1>5. Answer(s)' = "none" /\ PackagesSent(s)' = Packed(quotes'[s], n)
  BY <1>2, <1>3, AnswerWillShow
<1>6. Answer(s) = "offer" /\ PackagesSent(s)' = PackagesSent(s)
  <2>1. Packed(quotes'[s], n) = Packed(quotes[s], n)
    BY <1>3, <1>4, PackedAlike
  <2> QED BY <1>1, <1>5, <2>1, AnswerShows
<1>7. Shown' = [Shown EXCEPT ![s] = "none"] /\ UNCHANGED ShownSent
  BY <1>2, <1>5, <1>6, OneAnswers
<1>8. Shown[s] = "offer" /\ UNCHANGED <<Collecting, campaign>>
  BY <1>1, <1>6 DEF Shown, Collecting, Expired
<1> QED BY <1>1, <1>7, <1>8 DEF Contract!TakeBack, Shown, ShownSent, Collecting

LEMMA RefusalsDecline ==
  ASSUME TypeOK, NEW s \in Suppliers, DeclineQuote(s)
  PROVE  Contract!Decline(s)
<1> DEFINE n == Len(quotes[s])
<1>1. /\ Status(s) \in {"none", "draft"} /\ Collecting
      /\ campaign = "collecting" /\ UNCHANGED <<campaign, due, now>>
  BY DEF DeclineQuote, OpenTo, Collecting
<1>2. /\ Answer(s) = "none" /\ Answer(s)' = "declined"
      /\ PackagesSent(s)' = PackagesSent(s)
      /\ \A z \in Suppliers : z # s => quotes'[z] = quotes[z]
  <2>1. CASE Status(s) = "none"
    <3> DEFINE e == [Draft(Incomplete) EXCEPT !.status = "declined"]
    <3>1. e \in Quotes /\ e.status = "declined" /\ e.file = NoFile
      BY DraftTyped DEF Answers
    <3>2. quotes' = NewRevision(s, e)
      BY <2>1 DEF DeclineQuote
    <3> HIDE DEF e
    <3>3. /\ QuotesMove /\ Len(quotes'[s]) = 1 /\ quotes'[s][1] = e
          /\ \A z \in Suppliers : z # s => quotes'[z] = quotes[z]
      BY <1>1, <2>1, <3>1, <3>2, FirstMoves
    <3>4. quotes'[s] \in Seq(Quotes)
      BY <3>3 DEF QuotesMove
    <3>5. quotes'[s] # <<>>
      BY <3>3, <3>4
    <3>6. Answer(s)' = "declined" /\ PackagesSent(s)' = Packed(quotes'[s], 0)
      BY <3>1, <3>3, <3>4, <3>5, AnswerWillShow
    <3>7. Packed(quotes'[s], 0) = Packed(quotes[s], 0)
      BY PackedAlike
    <3> QED BY <2>1, <3>3, <3>6, <3>7, AnswerShows
  <2>2. CASE Status(s) = "draft"
    <3> DEFINE e == [Current(s) EXCEPT !.status = "declined"]
    <3>1. e \in Quotes /\ e.status = "declined"
      BY <2>2, QuotesTyped, QuoteEdits
    <3>2. quotes' = WithCurrent(s, e)
      BY <2>2 DEF DeclineQuote
    <3> HIDE DEF e
    <3>3. /\ QuotesMove /\ Len(quotes'[s]) = n /\ quotes[s] # <<>>
          /\ quotes'[s][n] = e
          /\ \A r \in 1 .. n : r # n => quotes'[s][r] = quotes[s][r]
          /\ \A z \in Suppliers : z # s => quotes'[z] = quotes[z]
      BY <1>1, <2>2, <3>1, <3>2, EditMoves
    <3>4. /\ quotes'[s] \in Seq(Quotes) /\ n \in Nat /\ n # 0
          /\ quotes'[s] # <<>>
      BY <3>3, QuotesTyped DEF QuotesMove
    <3>5. Answer(s)' = "declined" /\ PackagesSent(s)' = Packed(quotes'[s], n - 1)
      BY <3>1, <3>3, <3>4, AnswerWillShow
    <3>6. Packed(quotes'[s], n - 1) = Packed(quotes[s], n - 1)
      BY <3>3, <3>4, PackedAlike
    <3> QED BY <2>2, <3>3, <3>5, <3>6, AnswerShows
  <2> QED BY <1>1, <2>1, <2>2
<1>3. Shown' = [Shown EXCEPT ![s] = "declined"] /\ UNCHANGED ShownSent
  BY <1>2, OneAnswers
<1>4. Shown[s] = "none" /\ UNCHANGED <<Collecting, campaign>>
  BY <1>1, <1>2 DEF Shown, Collecting, Expired
<1> QED BY <1>1, <1>3, <1>4 DEF Contract!Decline, Shown, ShownSent, Collecting

(* A day that begins and a message of the buyer move the deadline at most. *)
LEMMA DeadlinesMove ==
  ASSUME UNCHANGED <<quotes, campaign>>,
         campaign = "collecting" \/ UNCHANGED due,
         campaign = "collecting" \/ ~Collecting'
  PROVE  Contract!Deadline \/ UNCHANGED Contract!contractVars
<1>1. UNCHANGED <<Shown, ShownSent>>
  BY SameQuotesShow
<1>2. Collecting' = Collecting \/ (campaign # "awarded" /\ Collecting' = ~Collecting)
  BY DEF Collecting
<1> QED BY <1>1, <1>2
  DEF Contract!Deadline, Contract!contractVars, Shown, ShownSent, Collecting

LEMMA AwardsAward ==
  ASSUME TypeOK, ConfirmAward
  PROVE  Contract!Award
<1>1. UNCHANGED <<Shown, ShownSent>>
  BY SameQuotesShow DEF ConfirmAward
<1>2. \E s \in Suppliers : Shown[s] = "offer"
  BY AnswerShows DEF ConfirmAward, Shown
<1>3. campaign # "awarded" /\ campaign' = "awarded" /\ Collecting' = FALSE
  BY DEF ConfirmAward, Collecting
<1> QED BY <1>1, <1>2, <1>3 DEF Contract!Award, Shown, ShownSent, Collecting

(* For every instance, the portal keeps what OfferContract promises: what  *)
(* drafts, tabs, uploads, messages, bounces and the deadline do is that a  *)
(* supplier sends complete offers in time, takes one back only to send     *)
(* another, or declines; and the award is made once, of offers that stand. *)
THEOREM PortalImplementsContract == Spec => OffersKeepContract
<1>1. Init => Contract!Init
  <2> SUFFICES ASSUME Init PROVE Contract!Init
    OBVIOUS
  <2>1. TypeOK
    BY NegotiationInvStarts, FilesTyped DEF NegotiationInv
  <2>2. Collecting /\ campaign = "collecting"
    BY DEF Init, PortalInit, Collecting, Expired, Days
  <2>3. \A s \in Suppliers : Answer(s) = "none" /\ PackagesSent(s) = <<>>
    <3> TAKE s \in Suppliers
    <3>1. Status(s) = "none" /\ quotes[s] = <<>>
      BY DEF Init, PortalInit, Status
    <3> QED BY <2>1, <3>1, AnswerShows DEF Packed
  <2> QED BY <2>2, <2>3 DEF Contract!Init, Collecting
<1>2. NegotiationInv /\ [Next]_vars => [Contract!Next]_(Contract!contractVars)
  <2> SUFFICES ASSUME NegotiationInv, [Next]_vars
               PROVE  [Contract!Next]_(Contract!contractVars)
    OBVIOUS
  <2>1. TypeOK /\ \A u \in Uploads : UploadIsSound(u)
    BY FilesTyped DEF NegotiationInv
  <2>2. ASSUME UNCHANGED <<Shown, ShownSent, campaign, due, now>>
        PROVE  UNCHANGED Contract!contractVars
    BY <2>2 DEF Contract!contractVars, Shown, ShownSent, Expired
  <2>3. ASSUME NEW t \in Tabs, SubmitAndSync(t)
        PROVE  Contract!Next
    BY <2>1, <2>3, SubmissionsSend DEF SubmitAndSync, Contract!Next
  <2>4. CASE PortalStep
    <3>1. CASE PassDay
      <4>1. Contract!Deadline \/ UNCHANGED Contract!contractVars
        BY <3>1, DeadlinesMove DEF PassDay, Collecting
      <4> QED BY <4>1 DEF Contract!Next
    <3>2. ASSUME NEW s \in Suppliers, NEW lines \in Answers,
                 SaveDraft(s, lines) \/ \E t \in Tabs : SaveToSubmit(t, s, lines)
          PROVE  UNCHANGED Contract!contractVars
      <4>1. SaveQuote(s, lines) /\ UNCHANGED <<campaign, due, now>>
        BY <3>2 DEF SaveDraft, SaveToSubmit
      <4> QED BY <2>1, <2>2, <4>1, SavesDoNotShow
    <3>3. ASSUME NEW t \in Tabs, LeaveTab(t)
          PROVE  UNCHANGED Contract!contractVars
      BY <2>2, <3>3, SameQuotesShow DEF LeaveTab
    <3>4. ASSUME NEW s \in Suppliers, DeclineQuote(s) \/ StartRevision(s)
          PROVE  Contract!Next
      BY <2>1, <3>4, RefusalsDecline, RevisionsTakeBack DEF Contract!Next
    <3>5. ASSUME NEW u \in Uploads,
                 \/ \E s \in Suppliers : PrepareAttachment(u, s)
                 \/ PutFile(u) \/ RecordAttachment(u) \/ RefuseAttachment(u)
                 \/ RemoveLeftover(u) \/ DropUpload(u)
          PROVE  UNCHANGED Contract!contractVars
      <4>1. UNCHANGED <<campaign, due, now>>
        BY <3>5 DEF PrepareAttachment, PutFile, RecordAttachment, RefuseAttachment,
          RemoveLeftover, DropUpload
      <4> QED BY <2>1, <2>2, <3>5, <4>1, UploadsDoNotShow
    <3> QED BY <2>4, <3>1, <3>2, <3>3, <3>4, <3>5 DEF PortalStep
  <2>5. CASE ThreadStep
    <3>1. CASE ConfirmAward
      BY <2>1, <3>1, AwardsAward DEF Contract!Next
    <3>2. ASSUME NEW w \in Windows, NEW s \in Suppliers, NEW kind, NEW d,
                 BuyerPost(w, s, kind, d)
          PROVE  [Contract!Next]_(Contract!contractVars)
      <4>1. Contract!Deadline \/ UNCHANGED Contract!contractVars
        BY <3>2, DeadlinesMove DEF BuyerPost
      <4> QED BY <4>1 DEF Contract!Next
    <3>3. CASE UNCHANGED <<quotes, campaign, due, now>>
      BY <2>2, <3>3, SameQuotesShow
    <3> QED BY <2>5, <3>1, <3>2, <3>3
      DEF ThreadStep, portalVars, SupplierPost, PrepareReminder, SendNotification,
          MarkNotification, DropWindow, NotificationBounced
  <2>6. CASE UNCHANGED vars
    BY <2>2, <2>6, SameQuotesShow DEF vars, portalVars
  <2> QED BY <2>1, <2>3, <2>4, <2>5, <2>6, StepKinds
<1> QED
  BY <1>1, <1>2, NegotiationInvAlways, PTL
  DEF Spec, OffersKeepContract, Contract!Spec
===============================================================================
