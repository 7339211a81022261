---------------------------- MODULE SupplierPortal ----------------------------
(***************************************************************************)
(* The supplier's side of an RFQ that is open: the response form, the      *)
(* revisions of a quote and the file a supplier attaches to it.            *)
(*                                                                         *)
(* Every function of the database is one action, for it locks the dispatch *)
(* and the campaign before it looks.  Two things are not transactions: the *)
(* form submits by saving and then submitting (two calls, and a supplier   *)
(* may have the page open in several tabs), and an upload is two database  *)
(* calls around two calls of the file store, by a function that may be     *)
(* killed anywhere.                                                        *)
(*                                                                         *)
(* One dispatch per supplier; of its statuses, those that the portal tells *)
(* apart.  How an invitation gets to "sent" is RfqDelivery's.              *)
(***************************************************************************)
EXTENDS Integers, Sequences

CONSTANTS
  Suppliers,   \* the invited suppliers
  Responders,  \* those who open their link
  Offers,      \* complete answers to every line, told apart by their prices
  Incomplete,  \* an answer that lacks a line or a price
  Tabs,        \* browser tabs with the response form
  Uploads,     \* uploads in flight
  Files,       \* files in the store: paths with a fresh random name
  NoFile,
  NoDue,       \* the campaign or the request has no deadline
  Horizon,     \* bound: the last day
  MaxUploads   \* recorded uploads a revision may have; 5 in the code

ASSUME PortalAssumptions ==
  /\ Responders \subseteq Suppliers
  /\ Incomplete \notin Offers
  /\ NoFile \notin Files
  /\ NoDue \notin Int
  /\ Horizon \in Nat
  /\ MaxUploads \in Nat \ {0}

VARIABLES
  campaign,  \* status of the campaign
  due,       \* its deadline, the same for every supplier
  now,       \* the current day
  dispatch,  \* status of each supplier's invitation
  quotes,    \* the revisions of each supplier's quote, oldest first
  tab,       \* the tabs that have saved and are about to submit
  upload,    \* the uploads in flight
  stored,    \* files in the store
  unsure     \* files whose recording was not answered

portalVars ==
  <<campaign, due, now, dispatch, quotes, tab, upload, stored, unsure>>

-----------------------------------------------------------------------------
Days == 0 .. Horizon
Answers == Offers \cup {Incomplete}

Quotes ==
  [status : {"draft", "submitted", "superseded", "declined"},
   lines : Answers, file : Files \cup {NoFile}, uploads : 0 .. MaxUploads]
Draft(lines) ==
  [status |-> "draft", lines |-> lines, file |-> NoFile, uploads |-> 0]

NoQuote == <<"no supplier", 0>>
UploadStates ==
  [step : {"idle", "put", "record", "clean", "undo"},
   quote : (Suppliers \X Nat) \cup {NoQuote},
   old : Files \cup {NoFile}, file : Files \cup {NoFile}]
NoUpload ==
  [step |-> "idle", quote |-> NoQuote, old |-> NoFile, file |-> NoFile]

(* The revision a supplier works on is its last one.                       *)
Current(s) == quotes[s][Len(quotes[s])]
Status(s) == IF quotes[s] = <<>> THEN "none" ELSE Current(s).status
WithCurrent(s, quote) ==
  [quotes EXCEPT ![s] = [quotes[s] EXCEPT ![Len(quotes[s])] = quote]]
NewRevision(s, quote) == [quotes EXCEPT ![s] = Append(quotes[s], quote)]

Expired == due # NoDue /\ due <= now
Available(s) == dispatch[s] \in {"sent", "responded"}
(* mutant: the deadline is not looked at *)
OpenAnyDay(s) == Available(s) /\ campaign = "collecting"

OpenTo(s) == Available(s) /\ campaign = "collecting" /\ ~Expired

PortalInit ==
  /\ campaign = "collecting"
  /\ due \in (Days \ {0}) \cup {NoDue}
  /\ now = 0
  /\ dispatch = [s \in Suppliers |-> "sent"]
  /\ quotes = [s \in Suppliers |-> <<>>]
  /\ tab = [t \in Tabs |-> "idle"]
  /\ upload = [u \in Uploads |-> NoUpload]
  /\ stored = {}
  /\ unsure = {}

(* The next day begins.                                                    *)
PassDay ==
  /\ now < Horizon
  /\ now' = now + 1
  /\ UNCHANGED <<campaign, due, dispatch, quotes, tab, upload, stored, unsure>>

-----------------------------------------------------------------------------
(* The response form.                                                      *)

(* The quotes once supplier s has saved: the draft's lines are replaced as *)
(* a whole, the first save creates the draft.                              *)
Saved(s, lines) ==
  CASE Status(s) = "none" -> NewRevision(s, Draft(lines))
    [] Status(s) = "draft" ->
         WithCurrent(s, [Current(s) EXCEPT !.lines = lines])
    [] OTHER -> quotes

SaveQuote(s, lines) ==
  /\ OpenTo(s)
  /\ quotes' = Saved(s, lines)

(* "Salva bozza": the draft is saved and the page stays as it is.          *)
SaveDraft(s, lines) ==
  /\ SaveQuote(s, lines)
  /\ UNCHANGED <<campaign, due, now, dispatch, tab, upload, stored, unsure>>

(* "Invia offerta" first saves; it goes on only if that succeeded.         *)
SaveToSubmit(t, s, lines) ==
  /\ tab[t] = "idle"
  /\ Status(s) \in {"none", "draft"}
  /\ SaveQuote(s, lines)
  /\ tab' = [tab EXCEPT ![t] = s]
  /\ UNCHANGED <<campaign, due, now, dispatch, upload, stored, unsure>>

(* ... and then submits the draft as it finds it.                          *)
SubmitQuote(t) ==
  LET s == tab[t]
  IN  /\ s # "idle"
      /\ OpenTo(s)
      /\ Status(s) = "draft"
      /\ Current(s).lines \in Offers
      /\ quotes' = WithCurrent(s, [Current(s) EXCEPT !.status = "submitted"])
      /\ dispatch' = [dispatch EXCEPT ![s] = "responded"]
      /\ tab' = [tab EXCEPT ![t] = "idle"]
      /\ UNCHANGED <<campaign, due, now, upload, stored, unsure>>

(* The submission was refused, or the tab was closed before it.            *)
LeaveTab(t) ==
  /\ tab[t] # "idle"
  /\ tab' = [tab EXCEPT ![t] = "idle"]
  /\ UNCHANGED <<campaign, due, now, dispatch, quotes, upload, stored, unsure>>

(* Declining makes the draft, or a first revision, the declined one; an    *)
(* offer that was submitted cannot be declined.                            *)
DeclineQuote(s) ==
  /\ OpenTo(s)
  /\ Status(s) \in {"none", "draft"}
  /\ quotes' = IF Status(s) = "none"
               THEN NewRevision(s, [Draft(Incomplete) EXCEPT
                                      !.status = "declined"])
               ELSE WithCurrent(s, [Current(s) EXCEPT !.status = "declined"])
  /\ dispatch' = [dispatch EXCEPT ![s] = "declined"]
  /\ UNCHANGED <<campaign, due, now, tab, upload, stored, unsure>>

(* mutant: the offer that is revised stays submitted until the next one is *)
NotSuperseded(s) ==
  [quotes EXCEPT ![s] = Append(quotes[s], Draft(Current(s).lines))]

(* A revision supersedes the submitted offer at once and starts from its   *)
(* lines, without its file.                                                *)
Revised(s) ==
  [quotes EXCEPT ![s] =
     Append([quotes[s] EXCEPT ![Len(quotes[s])] =
               [Current(s) EXCEPT !.status = "superseded"]],
            Draft(Current(s).lines))]

StartRevision(s) ==
  /\ dispatch[s] = "responded"
  /\ OpenTo(s)
  /\ Status(s) = "submitted"
  /\ quotes' = Revised(s)
  /\ UNCHANGED <<campaign, due, now, dispatch, tab, upload, stored, unsure>>

-----------------------------------------------------------------------------
(* The upload of an attachment (the edge function rfqh4-offer-upload).     *)

Attached == UNION {{quotes[s][r].file : r \in DOMAIN quotes[s]} : s \in Suppliers}
InFlight == UNION {{upload[u].file, upload[u].old} : u \in Uploads}
Fresh == Files \ (stored \cup unsure \cup Attached \cup InFlight)

(* The permit names the draft, created if there is none, and the file it   *)
(* has at this moment.                                                     *)
PrepareAttachment(u, s) ==
  /\ upload[u] = NoUpload
  /\ OpenTo(s)
  /\ Status(s) \in {"none", "draft"}
  /\ Status(s) = "draft" => Current(s).uploads < MaxUploads
  /\ quotes' = IF Status(s) = "none" THEN NewRevision(s, Draft(Incomplete))
               ELSE quotes
  /\ \E f \in Fresh :
       upload' = [upload EXCEPT ![u] =
         [step |-> "put", quote |-> <<s, Len(quotes'[s])>>, file |-> f,
          old |-> IF Status(s) = "draft" THEN Current(s).file ELSE NoFile]]
  /\ UNCHANGED <<campaign, due, now, dispatch, tab, stored, unsure>>

PutFile(u) ==
  /\ upload[u].step = "put"
  /\ stored' = stored \cup {upload[u].file}
  /\ upload' = [upload EXCEPT ![u].step = "record"]
  /\ UNCHANGED <<campaign, due, now, dispatch, quotes, tab, unsure>>

(* mutant: the file is recorded on the revision of the permit, whatever    *)
(* its status                                                              *)
AnyRevision(u) == quotes[upload[u].quote[1]] # <<>>

(* The file goes to the current draft, which must be the permit's.  Neither *)
(* the campaign nor its deadline is looked at again.                       *)
Recordable(u) ==
  LET s == upload[u].quote[1]
  IN  /\ Available(s)
      /\ Status(s) = "draft"
      /\ upload[u].quote = <<s, Len(quotes[s])>>
      /\ Current(s).uploads < MaxUploads

WithFile(quote, file) ==
  [quote EXCEPT !.file = file, !.uploads = quote.uploads + 1]

(* The recording succeeds; its answer may be lost, and is then an error.   *)
RecordAttachment(u) ==
  LET s == upload[u].quote[1]
      f == upload[u].file
  IN  /\ upload[u].step = "record"
      /\ Recordable(u)
      /\ quotes' = WithCurrent(s, WithFile(Current(s), f))
      /\ \/ /\ upload' = [upload EXCEPT ![u].step = "clean"]
            /\ UNCHANGED unsure
         \/ /\ upload' = [upload EXCEPT ![u].step = "undo"]
            /\ unsure' = unsure \cup {f}
      /\ UNCHANGED <<campaign, due, now, dispatch, tab, stored>>

RefuseAttachment(u) ==
  /\ upload[u].step = "record"
  /\ upload' = [upload EXCEPT ![u].step = "undo"]
  /\ UNCHANGED <<campaign, due, now, dispatch, quotes, tab, stored, unsure>>

(* mutant: what is removed is the file the quote has by then *)
CurrentFile(u) == {Current(upload[u].quote[1]).file}

(* What an upload removes at its end: the file it replaced, or its own.    *)
Leftover(u) ==
  {IF upload[u].step = "clean" THEN upload[u].old ELSE upload[u].file}

RemoveLeftover(u) ==
  /\ upload[u].step \in {"clean", "undo"}
  /\ stored' = stored \ Leftover(u)
  /\ upload' = [upload EXCEPT ![u] = NoUpload]
  /\ UNCHANGED <<campaign, due, now, dispatch, quotes, tab, unsure>>

(* The upload ends early: the file store failed or the function was killed. *)
DropUpload(u) ==
  /\ upload[u] # NoUpload
  /\ upload' = [upload EXCEPT ![u] = NoUpload]
  /\ UNCHANGED <<campaign, due, now, dispatch, quotes, tab, stored, unsure>>

AttachmentStep(u) ==
  \/ \E s \in Responders : PrepareAttachment(u, s)
  \/ PutFile(u)
  \/ RecordAttachment(u)
  \/ RefuseAttachment(u)
  \/ RemoveLeftover(u)
  \/ DropUpload(u)

-----------------------------------------------------------------------------
(* Properties of the portal, whatever else happens to the campaign.        *)

PortalTypeOK ==
  /\ campaign \in {"collecting", "awarded"}
  /\ due \in Days \cup {NoDue}
  /\ now \in Days
  /\ dispatch \in [Suppliers -> {"sent", "responded", "declined", "bounced"}]
  /\ quotes \in [Suppliers -> Seq(Quotes)]
  /\ tab \in [Tabs -> Suppliers \cup {"idle"}]
  /\ upload \in [Uploads -> UploadStates]
  /\ stored \subseteq Files
  /\ unsure \subseteq Files

(* Of a supplier's revisions the last alone is alive; every earlier one    *)
(* was submitted once and is superseded (rfqh4_start_revision).            *)
OneLiveRevision ==
  \A s \in Suppliers : \A r \in DOMAIN quotes[s] :
    quotes[s][r].status = "superseded" <=> r < Len(quotes[s])

(* What a buyer was sent stays as it was sent: no save of another tab, no  *)
(* revision and no upload that was under way changes the lines or the file *)
(* of a revision that is no longer a draft.                                *)
SubmittedStaysAsSent ==
  [][\A s \in Suppliers : \A r \in DOMAIN quotes[s] :
       quotes[s][r].status # "draft" =>
         /\ quotes'[s][r].lines = quotes[s][r].lines
         /\ quotes'[s][r].file = quotes[s][r].file
         /\ quotes'[s][r].status # "draft"]_quotes

(* The file a quote names is in the store, whatever other uploads remove,  *)
(* unless the answer to its recording was lost.                            *)
AttachmentIsStored ==
  \A s \in Suppliers : \A r \in DOMAIN quotes[s] :
    quotes[s][r].file \in stored \cup unsure \cup {NoFile}
=============================================================================
