-------------------------------- MODULE Sync --------------------------------
(***************************************************************************)
(* sync.Orchestrator.Run (internal/sync/sync.go) for one bank: list the    *)
(* bank's inbox, skip what the saved watermark says is done, check each    *)
(* remaining document against paperless-ngx, download and upload the       *)
(* missing ones, and advance the watermark file.                           *)
(*                                                                         *)
(* Several runners may do this at once over the same watermark file and    *)
(* the same paperless-ngx: the sync loop of `serve` and any number of      *)
(* `sync` commands.  Every network or file operation is a step of its own, *)
(* so the runners interleave between any two of them and may be killed     *)
(* between any two of them.                                                *)
(*                                                                         *)
(* Data: a document is a model value; a date is a number, 0 being Go's     *)
(* zero time (no date, or one time.Parse could not read); a file name      *)
(* stands for all names equal up to letter case, which is what             *)
(* original_filename__iexact tells apart, and a MIME type for all          *)
(* spellings strings.EqualFold and TrimSpace identify.                     *)
(***************************************************************************)
EXTENDS Naturals

CONSTANTS
  Docs,              \* the documents that may ever appear in the inbox
  NoDoc,             \* no document: a runner between two documents
  Runners,           \* processes that execute Orchestrator.Run
  Scheduled,         \* the runners that are started again and again (serve)
  FileNames,
  MimeTypes,
  DateOf,            \* Document.Date: [Docs -> Nat], 0 is the zero time
  Filename,          \* Document.Filename: [Docs -> FileNames]
  MIMEType,          \* Document.MIMEType: [Docs -> MimeTypes]
  Base,              \* filepath.Base: [FileNames -> FileNames]
  AllowedMIMETypes,  \* the Orchestrator field: [Runners -> SUBSET MimeTypes]
  HasWatermarkPath,  \* is Orchestrator.WatermarkPath set?
  Refused,           \* documents paperless-ngx always answers with a 4xx
  Backdating,        \* may a dated document appear after a newer one?
  ListingSkips,      \* may a list leave out documents? (module Listing)
  ConsumptionFails,  \* may paperless-ngx drop a document it has queued?
  MaxCrashes,        \* bound: how many times a runner is killed
  MaxSubmissions     \* bound: submissions of a document are counted up to it

ASSUME SyncAssumption ==
  /\ NoDoc \notin Docs
  /\ Scheduled \subseteq Runners
  /\ DateOf \in [Docs -> Nat]
  /\ Filename \in [Docs -> FileNames]
  /\ MIMEType \in [Docs -> MimeTypes]
  /\ Base \in [FileNames -> FileNames]
  /\ AllowedMIMETypes \in [Runners -> SUBSET MimeTypes]
  /\ HasWatermarkPath \in BOOLEAN
  /\ Refused \subseteq Docs
  /\ Backdating \in BOOLEAN
  /\ ListingSkips \in BOOLEAN
  /\ ConsumptionFails \in BOOLEAN
  /\ MaxCrashes \in Nat
  /\ MaxSubmissions \in Nat \ {0}

VARIABLES
  inbox,        \* what has appeared at the bank so far
  late,         \* history: appeared when a newer document had, or was left out
                \* of a list that has a newer one
  queued,       \* paperless-ngx has accepted it and will consume it later
  archived,     \* paperless-ngx has consumed it: DocumentExists can see it
  submissions,  \* history: POSTs paperless-ngx accepted, per document
  wfile,        \* the watermark file, 0 when absent, truncated or unreadable
  run,          \* the local variables of each runner's Run
  crashes       \* history: how often a runner was killed

paperless == <<queued, archived, submissions>>
vars == <<inbox, late, queued, archived, submissions, wfile, run, crashes>>

-----------------------------------------------------------------------------
(* The orchestrator's pure helpers.                                        *)

Zero == 0
DefaultAllowedMIMETypes == {"application/pdf"}

allowedMIMETypes(r) ==
  IF AllowedMIMETypes[r] # {} THEN AllowedMIMETypes[r]
                              ELSE DefaultAllowedMIMETypes

mimeTypeAllowed(r, d) == MIMEType[d] \in allowedMIMETypes(r)

\* The name paperless-ngx stores is the base name of the uploaded file, the
\* name DocumentExists asks for is the bank's own.
StoredName(e) == Base[Filename[e]]

MutantDocumentExists(d) == FALSE
DocumentExists(d) == \E e \in archived : StoredName(e) = Filename[d]

MutantOlderThan(watermark, d) == watermark # Zero /\ DateOf[d] <= watermark
OlderThan(watermark, d) == watermark # Zero /\ DateOf[d] < watermark

\* httpx.Do tries a request this many times in all.
maxAttempts == 3

-----------------------------------------------------------------------------
(* One runner.  pc is the operation it does next:                          *)
(*   idle    not in Run          load     read the watermark file          *)
(*   loop    pick a document     fetch    download the current document    *)
(*   upload  POST it             save     open the watermark file          *)
(*   write   write the opened (truncated) watermark file                   *)

PCs == {"idle", "load", "loop", "fetch", "upload", "save", "write"}

RunState ==
  [pc : PCs, docs : SUBSET Docs, todo : SUBSET Docs, doc : Docs \cup {NoDoc},
   watermark : Nat, newest : Nat, failed : BOOLEAN, attempt : 0..maxAttempts,
   outcome : {"none", "ok", "error"}]

Fresh(pc, docs, todo, outcome) ==
  [pc |-> pc, docs |-> docs, todo |-> todo, doc |-> NoDoc,
   watermark |-> Zero, newest |-> Zero, failed |-> FALSE, attempt |-> 0,
   outcome |-> outcome]

Idle(outcome, docs) == Fresh("idle", docs, {}, outcome)

Become(r, s) == run' = [run EXCEPT ![r] = s]

\* The documents that can come next: sort.Slice is not stable, so among equal
\* dates the order is any.
Earliest(S) == {d \in S : \A e \in S : DateOf[d] <= DateOf[e]}

\* The documents of S that are older than one of D.
OlderIn(S, D) == {d \in S : \E e \in D : DateOf[d] < DateOf[e]}

\* The loop has passed d and goes on with the next document.
Passed(s, d, newest, failed) ==
  [pc |-> "loop", docs |-> s.docs, todo |-> s.todo \ {d}, doc |-> NoDoc,
   watermark |-> s.watermark, newest |-> newest, failed |-> failed,
   attempt |-> 0, outcome |-> s.outcome]

\* syncDoc returned nil for d: d counts towards the watermark unless an
\* earlier document of this run failed.
MutantDone(s, d) ==
  Passed(s, d, IF DateOf[d] > s.newest THEN DateOf[d] ELSE s.newest, s.failed)
Done(s, d) ==
  Passed(s, d, IF ~s.failed /\ DateOf[d] > s.newest THEN DateOf[d] ELSE s.newest,
         s.failed)

\* syncDoc returned an error for d: the run goes on with the next document.
MutantFail(s, d) == [Passed(s, d, s.newest, TRUE) EXCEPT !.todo = {}]
Fail(s, d) == Passed(s, d, s.newest, TRUE)

\* Run returns: an error when a document failed, nil otherwise, whatever
\* became of the watermark file.
MutantReturn(s) == Idle("ok", s.docs)
Return(s) == Idle(IF s.failed THEN "error" ELSE "ok", s.docs)

-----------------------------------------------------------------------------
Init ==
  /\ inbox \in SUBSET Docs
  /\ late = {}
  /\ queued = {}
  /\ archived = {}
  /\ submissions = [d \in Docs |-> 0]
  /\ wfile = Zero
  /\ run = [r \in Runners |-> Idle("none", {})]
  /\ crashes = 0

(* The bank and paperless-ngx. *)

\* A document appears.  Banks list documents in the order of their dates
\* unless Backdating; one without a date may appear at any time.
Arrive(d) ==
  /\ d \notin inbox
  /\ Backdating \/ DateOf[d] = Zero \/ \A e \in inbox : DateOf[e] <= DateOf[d]
  /\ inbox' = inbox \cup {d}
  /\ late' = late \cup OlderIn({d}, inbox)
  /\ UNCHANGED <<paperless, wfile, run, crashes>>

\* The task queue of paperless-ngx takes up a queued document.
Consume(d) ==
  /\ d \in queued
  /\ queued' = queued \ {d}
  /\ archived' = archived \cup {d}
  /\ UNCHANGED <<inbox, late, submissions, wfile, run, crashes>>

\* ... or fails to, which no caller of the API is told.
DropQueued(d) ==
  /\ ConsumptionFails
  /\ d \in queued
  /\ queued' = queued \ {d}
  /\ UNCHANGED <<inbox, late, archived, submissions, wfile, run, crashes>>

\* post_document/ answers 200 or 202: the document is queued, not stored.
Accept(d) ==
  /\ queued' = queued \cup {d}
  /\ submissions' = [submissions EXCEPT ![d] =
                       IF @ < MaxSubmissions THEN @ + 1 ELSE @]
  /\ UNCHANGED archived

-----------------------------------------------------------------------------
(* Run, one operation at a time.                                           *)

\* The bank lists D.  What a list leaves out has been deleted, or was missed
\* because the inbox changed while it was paged through or the bank ended the
\* list early: module Listing shows what that may be.
ListDocuments(r, D) ==
  /\ run[r].pc = "idle"
  /\ D \subseteq inbox
  /\ ListingSkips \/ D = inbox
  /\ late' = late \cup OlderIn(inbox \ D, D)
  /\ Become(r, Fresh("load", D, D, "none"))
  /\ UNCHANGED <<inbox, paperless, wfile, crashes>>

BeginRun(r) == \E D \in SUBSET Docs : ListDocuments(r, D)

\* Authentication or the list request fails: Run returns before it starts.
ListFails(r) ==
  /\ run[r].pc = "idle"
  /\ Become(r, Idle("error", {}))
  /\ UNCHANGED <<inbox, late, paperless, wfile, crashes>>

\* A file that cannot be read or parsed counts as no watermark; so does one
\* whose reading fails this time.
MutantLoadWatermark(r) ==
  /\ run[r].pc = "load"
  /\ Become(r, [run[r] EXCEPT !.pc = "loop", !.watermark = wfile,
                              !.newest = IF wfile = Zero THEN 1 ELSE wfile])
  /\ UNCHANGED <<inbox, late, paperless, wfile, crashes>>
LoadWatermark(r) ==
  /\ run[r].pc = "load"
  /\ \E w \in {wfile, Zero} :
       Become(r, [run[r] EXCEPT !.pc = "loop", !.watermark = w, !.newest = w])
  /\ UNCHANGED <<inbox, late, paperless, wfile, crashes>>

\* The next document is d and it is not skipped for its date.
Considers(r, d) ==
  /\ run[r].pc = "loop"
  /\ d \in Earliest(run[r].todo)
  /\ ~OlderThan(run[r].watermark, d)

SkipOlder(r, d) ==
  /\ run[r].pc = "loop"
  /\ d \in Earliest(run[r].todo)
  /\ OlderThan(run[r].watermark, d)
  /\ Become(r, [run[r] EXCEPT !.todo = @ \ {d}])
  /\ UNCHANGED <<inbox, late, paperless, wfile, crashes>>

SkipType(r, d) ==
  /\ Considers(r, d)
  /\ ~mimeTypeAllowed(r, d)
  /\ Become(r, Done(run[r], d))
  /\ UNCHANGED <<inbox, late, paperless, wfile, crashes>>

SkipExisting(r, d) ==
  /\ Considers(r, d)
  /\ mimeTypeAllowed(r, d)
  /\ DocumentExists(d)
  /\ Become(r, Done(run[r], d))
  /\ UNCHANGED <<inbox, late, paperless, wfile, crashes>>

MutantCheckMissing(r, d) ==
  /\ Considers(r, d)
  /\ mimeTypeAllowed(r, d)
  /\ d \notin queued \cup archived /\ submissions[d] = 0
  /\ Become(r, [run[r] EXCEPT !.pc = "fetch", !.doc = d])
  /\ UNCHANGED <<inbox, late, paperless, wfile, crashes>>
CheckMissing(r, d) ==
  /\ Considers(r, d)
  /\ mimeTypeAllowed(r, d)
  /\ ~DocumentExists(d)
  /\ Become(r, [run[r] EXCEPT !.pc = "fetch", !.doc = d])
  /\ UNCHANGED <<inbox, late, paperless, wfile, crashes>>

CheckFails(r, d) ==
  /\ Considers(r, d)
  /\ mimeTypeAllowed(r, d)
  /\ Become(r, Fail(run[r], d))
  /\ UNCHANGED <<inbox, late, paperless, wfile, crashes>>

DownloadDocument(r, d) ==
  /\ run[r].pc = "fetch" /\ run[r].doc = d
  /\ Become(r, [run[r] EXCEPT !.pc = "upload", !.attempt = 1])
  /\ UNCHANGED <<inbox, late, paperless, wfile, crashes>>

DownloadFails(r, d) ==
  /\ run[r].pc = "fetch" /\ run[r].doc = d
  /\ Become(r, Fail(run[r], d))
  /\ UNCHANGED <<inbox, late, paperless, wfile, crashes>>

\* A lost connection, a 5xx or a 429: httpx.Do sends the request again, until
\* the attempts are used up and Upload returns the error.
MutantRetry(s, d) ==
  IF s.attempt <= maxAttempts THEN [s EXCEPT !.attempt = @ + 1] ELSE Fail(s, d)
Retry(s, d) ==
  IF s.attempt < maxAttempts THEN [s EXCEPT !.attempt = @ + 1] ELSE Fail(s, d)

Uploading(r, d) == run[r].pc = "upload" /\ run[r].doc = d

UploadAccepted(r, d) ==
  /\ Uploading(r, d)
  /\ d \notin Refused
  /\ Accept(d)
  /\ Become(r, Done(run[r], d))
  /\ UNCHANGED <<inbox, late, wfile, crashes>>

\* paperless-ngx queued the document but the runner does not learn of it: it
\* retries, or gives up because its context was cancelled meanwhile.
UploadReplyLost(r, d) ==
  /\ Uploading(r, d)
  /\ d \notin Refused
  /\ Accept(d)
  /\ \E s \in {Retry(run[r], d), Fail(run[r], d)} : Become(r, s)
  /\ UNCHANGED <<inbox, late, wfile, crashes>>

UploadUnanswered(r, d) ==
  /\ Uploading(r, d)
  /\ Become(r, Retry(run[r], d))
  /\ UNCHANGED <<inbox, late, paperless, wfile, crashes>>

\* A permanent 4xx and a cancelled context are not retried.
UploadRefused(r, d) ==
  /\ Uploading(r, d)
  /\ Become(r, Fail(run[r], d))
  /\ UNCHANGED <<inbox, late, paperless, wfile, crashes>>

\* The loop is over; the watermark is saved only when it moved forward.
EndLoop(r) ==
  /\ run[r].pc = "loop"
  /\ run[r].todo = {}
  /\ Become(r, IF run[r].newest > run[r].watermark
                 THEN [run[r] EXCEPT !.pc = "save"]
                 ELSE Return(run[r]))
  /\ UNCHANGED <<inbox, late, paperless, wfile, crashes>>

\* os.WriteFile first truncates the file ...
TruncateWatermark(r) ==
  /\ run[r].pc = "save"
  /\ HasWatermarkPath
  /\ wfile' = Zero
  /\ Become(r, [run[r] EXCEPT !.pc = "write"])
  /\ UNCHANGED <<inbox, late, paperless, crashes>>

\* ... and then writes it.
WriteWatermark(r) ==
  /\ run[r].pc = "write"
  /\ wfile' = run[r].newest
  /\ Become(r, Return(run[r]))
  /\ UNCHANGED <<inbox, late, paperless, crashes>>

\* Nothing is saved without a path.  Or the directory or the file cannot be
\* created, or the write fails after the truncation: the error is logged and
\* Run returns as if the watermark had been saved.
SaveFails(r) ==
  /\ run[r].pc \in {"save", "write"}
  /\ Become(r, Return(run[r]))
  /\ UNCHANGED <<inbox, late, paperless, wfile, crashes>>

\* The process is killed, or serve exits without waiting for its sync loop.
Crash(r) ==
  /\ run[r].pc # "idle"
  /\ crashes < MaxCrashes
  /\ crashes' = crashes + 1
  /\ Become(r, Idle("none", {}))
  /\ UNCHANGED <<inbox, late, paperless, wfile>>

-----------------------------------------------------------------------------
Environment ==
  \E d \in Docs : Arrive(d) \/ Consume(d) \/ DropQueued(d)

DocStep(r, d) ==
  \/ SkipOlder(r, d)
  \/ SkipType(r, d)
  \/ SkipExisting(r, d)
  \/ CheckMissing(r, d)
  \/ CheckFails(r, d)
  \/ DownloadDocument(r, d)
  \/ DownloadFails(r, d)
  \/ UploadAccepted(r, d)
  \/ UploadReplyLost(r, d)
  \/ UploadUnanswered(r, d)
  \/ UploadRefused(r, d)

FileStep(r) ==
  \/ LoadWatermark(r)
  \/ EndLoop(r)
  \/ TruncateWatermark(r)
  \/ WriteWatermark(r)
  \/ SaveFails(r)

RunStep(r) == FileStep(r) \/ \E d \in Docs : DocStep(r, d)

Next ==
  \/ Environment
  \/ \E r \in Runners :
       BeginRun(r) \/ ListFails(r) \/ RunStep(r) \/ Crash(r)

Spec == Init /\ [][Next]_vars

\* The scheduler of `serve` starts every Scheduled runner again and again and
\* its own steps never hang; a request repeated for ever is answered at last,
\* and the bank does not leave a document out of every list; a document queued
\* again and again is consumed at last.
Fairness ==
  /\ \A d \in Docs : SF_vars(Consume(d))
  /\ \A r \in Scheduled :
       /\ WF_vars(RunStep(r))
       /\ \A d \in Docs :
            /\ SF_vars(\E D \in SUBSET Docs : d \in D /\ ListDocuments(r, D))
            /\ SF_vars(SkipExisting(r, d) \/ CheckMissing(r, d))
            /\ SF_vars(DownloadDocument(r, d))
            /\ SF_vars(UploadAccepted(r, d))

FairSpec == Spec /\ Fairness

-----------------------------------------------------------------------------
(* Properties. *)

\* The state is well-formed: a runner never exceeds the attempts of a request
\* and holds only dates and documents.
TypeOK ==
  /\ inbox \in SUBSET Docs
  /\ late \in SUBSET Docs
  /\ queued \in SUBSET Docs
  /\ archived \in SUBSET Docs
  /\ submissions \in [Docs -> 0..MaxSubmissions]
  /\ wfile \in Nat
  /\ run \in [Runners -> RunState]
  /\ crashes \in 0..MaxCrashes

\* Of the documents S, one is d or is stored under its name.
CoveredBy(S, d) == \E e \in S : e = d \/ StoredName(e) = Filename[d]

\* What paperless-ngx has accepted, even if it failed to consume it later.
accepted == {d \in Docs : submissions[d] # 0}

EveryoneWants(d) == \A r \in Runners : mimeTypeAllowed(r, d)

\* Runner r answers for d: it wants it and, where runs share a watermark,
\* they all do and d has neither appeared behind a newer document nor been
\* left out of a list that has one, for then a watermark may have passed it.
Owed(r, d, L) ==
  /\ mimeTypeAllowed(r, d)
  /\ HasWatermarkPath => d \notin L /\ EveryoneWants(d)

\* Runner r has nothing left to do for d: paperless-ngx still has it.
Accounted(r, d) == mimeTypeAllowed(r, d) => CoveredBy(queued \cup archived, d)

\* What the watermark makes every later run skip without a look has been
\* accepted by paperless-ngx: no failure, crash or second runner leaves a
\* document behind it that appeared, and was listed, in its order and that
\* everyone wants, whatever else the bank lists (sync.go:59-75).
WatermarkHidesNothingOwed ==
  \A r \in Runners, d \in inbox :
    DateOf[d] < wfile /\ Owed(r, d, late) => CoveredBy(accepted, d)

\* More than that: what the watermark makes later runs skip is done, for every
\* runner and every document (sync.go:59-75).
WatermarkSound ==
  \A r \in Runners, d \in inbox : DateOf[d] < wfile => Accounted(r, d)

\* A run that returned nil has dealt with every document it listed, the ones
\* it skipped for their date included (sync.go:83-86).
SuccessIsComplete ==
  \A r \in Runners : run[r].outcome = "ok" =>
    \A d \in run[r].docs : Accounted(r, d)

TakenUp(d) == \E r \in Runners : run[r].doc = d

\* For every document but one whose name paperless-ngx does not keep, the
\* runs come to an end of downloading and uploading it, though they look at
\* it again each time: "already exists in paperless-ngx, to avoid duplicate
\* uploads" (paperless/client.go:36-39).  Before that it may be uploaded any
\* number of times, as often as paperless-ngx drops it or has it queued only.
EachSettles ==
  \A d \in Docs \ Refused : StoredName(d) = Filename[d] => <>[]~TakenUp(d)

\* Every document the sync loop wants and paperless-ngx does not refuse is
\* stored at last, whatever fails before, even when another document of the
\* inbox can never be uploaded ("a single failure does not abort the
\* remaining uploads", sync.go:39-43).
EveryDocumentArchived ==
  \A r \in Scheduled, d \in Docs \ Refused :
    d \in inbox /\ mimeTypeAllowed(r, d) ~> d \in archived \/ DocumentExists(d)

\* No document is submitted to paperless-ngx twice: "safe to re-run on a
\* schedule without creating duplicates" (README.md:85-87).
NoDuplicateSubmissions == \A d \in Docs : submissions[d] <= 1
=============================================================================
