# paperless-bank in TLA+

paperless-bank copies the documents of a bank's inbox to a paperless-ngx
instance, once (`sync`) or for good (`serve`). This directory holds TLA+ models
of its own logic, the TLC runs that check them on small instances, and proofs,
checked by TLAPS, of what holds for every instance. `PROJECT.json` lists the
components, the runs, which lines every definition stands for, the hazards and
the theorems.

    tlc -workers 2 -config MCSyncTwoRunners.cfg MCSync     # one run
    tlapm SyncProofs.tla                                   # one module of proofs

Line numbers refer to the repository. Two documents are quoted throughout: its
`README.md` and its `Architecture.md`.

## 1. The system

| part | state | operations | talks to |
|---|---|---|---|
| orchestrator, `internal/sync/sync.go` | locals of `Run`: watermark, `newest`, `errs` | `Run`, `syncDoc` | a bank's `DocumentSource`, paperless-ngx, the watermark file |
| watermark, `internal/sync/watermark.go` | one JSON file per bank | `loadWatermark`, `saveWatermark` | the file system, shared by processes without a lock |
| paperless-ngx client, `internal/paperless/client.go` | none | `DocumentExists`, `Upload` | paperless-ngx through `httpx.Do` |
| retry, `internal/httpx/retry.go` | locals of `Do` | `Do` | any HTTP server |
| comdirect authentication, `comdirect/auth.go`, `client.go` | the token in memory; the token cache file | `New`, `EnsureAuthenticated`, `refreshToken`, `Authenticate`, `promptTAN`, `pollPushTAN`, `saveTokenCache`, `loadTokenCache` | the bank, a challenge handler |
| comdirect documents, `comdirect/documents.go` | locals | `ListDocuments`, `DownloadDocument` | the bank; both begin with `EnsureAuthenticated` |
| server, `internal/server/server.go` | one `bankState` per bank with `authMu` | `syncLoop`, `tokenRefreshLoop`, `ensureBankAuthenticated`, `syncOne`, shutdown | everything above |
| challenge registry, `challenge_web.go` | `pending`, a reply channel per challenge | `set`, `clear`, `pendingFor`, `submit`, `Handle` | a login on one side, HTTP handlers on the other |
| web UI, `handlers.go` | none | status page, `GET` and `POST /auth/{bank}` | the registry |
| commands, `cmd/paperless-bank` | none | `sync`, `auth`, `list`, `serve` | all of it |
| generated models, `comdirect/models` | none | `Validate` and `ContextValidate` of 61 models | each other, down the fields of a value |
| generated API client, `comdirect/client` | none | six operations and the readers of their answers | the bank through go-openapi's runtime; nothing calls it yet (`README.md:145-147`) |

How they meet:

* `serve` runs two goroutines for all banks. Both call
  `ensureBankAuthenticated`, which holds the bank's `authMu` while it checks,
  renews or, with `--auto-reauth`, logs in. The sync loop then runs the
  orchestrator **without** the lock.
* A login calls back into the registry; a typed answer comes from an HTTP
  handler's goroutine through a channel of capacity 1.
* `sync`, `auth` and `list` are other processes. They share the token cache and
  the watermark file with `serve`, and take no lock.
* Every use of a refresh token makes the bank issue a new one and forget the
  old one.

What is hard in it: two writers of one file; a decision (the watermark) that
hides documents from every later run; a retried POST; a rotated secret that has
to reach a file before anything goes wrong; locks held while a person is waited
for; a list paged by offset while it changes; a retried request whose body has
been read, whose wait the server chooses and whose token may run out meanwhile;
a form that names its bank but not its challenge; errors that lose or gain a
place on their way up through nested models. `PROJECT.json` lists 38 such
hazards at their lines, each with the properties that are about it.

## 2. The modules

| module | what it is |
|---|---|
| `Sync` | `Run` by several runners over one watermark file and one paperless-ngx |
| `SyncContract` | what a run promises, with no watermark, retry or order |
| `SyncInvariant` | the inductive invariant, the refinement mapping, the conditions of the strict properties |
| `LoginDesk` | what the loops get from `ensureBankAuthenticated`, with no lock, token, file or page |
| `Tokens` | the tokens of one bank in the hands of loops and commands |
| `Server` | loops, `authMu`, challenge registry, web UI, waiting for the user |
| `Listing` | `ListDocuments` over a changing inbox |
| `Retry` | `httpx.Do`, with the time it takes |
| `ApiModels` | the 61 models as tables: their fields, and what each method checks |
| `ApiValidate` | how `Validate` and `ContextValidate` go down those tables |
| `ApiClient` | a call of the generated client, then the validation of a payload; extends `ApiValidate` |
| `MC...` | instances for TLC; `...Proofs`: theorems and their proofs |

Operators named `Mutant...` are plausible bugs, each defined before the
definition it spoils. Put in its place, each makes TLC report the property it
is listed with in `PROJECT.json`. None is used by a specification.

### Sync

Each runner's `run[r]` holds the locals of `Run` and a `pc` naming its next
request or file operation, so runners interleave, and can die, between any two.

* A tick or a command: `BeginRun` with whatever documents `ListDocuments`
  returns, or `ListFails`; then `LoadWatermark`,
  which also covers a file that cannot be read or parsed: the code takes it for
  an empty one.
* Per document, oldest first, in any order among equal dates (`sort.Slice` is
  not stable): `SkipOlder`, `SkipType`, `SkipExisting`, `CheckMissing`,
  `CheckFails`, `DownloadDocument`, `DownloadFails`, and the four ends of an
  upload attempt: `UploadAccepted`, `UploadReplyLost` (accepted, but the runner
  does not know), `UploadUnanswered` and `UploadRefused`.
* `EndLoop`; `TruncateWatermark` and `WriteWatermark`, the two halves of
  `os.WriteFile`; `SaveFails` at either. `Crash` at any `pc`.
* `Arrive` (the bank), `Consume` and `DropQueued` (the task queue of
  paperless-ngx) are external. `Upload` returns when a document is *queued*,
  while `DocumentExists` sees what is *consumed*; `queued` and `archived` keep
  them apart.

`inbox` is what has appeared at the bank so far. A list may have less: documents
have been deleted, or a listing by pages has missed them, as `Listing` shows it
may. With `ListingSkips` each list has any part of `inbox`.

A document is a model value with a number for its date (0 is Go's zero time, for
a date that is missing or cannot be parsed), a name and a type. A name stands
for all that differ by case only, which `original_filename__iexact` identifies.
`Base` is `filepath.Base`, applied to the name that is stored and not to the
name that is looked up, as in the code; in `sync_no_watermark` one name has a
slash.

The history `late` holds the documents that appeared after a newer one, as every
undated one does, and those that were left out of a list with a newer one. A
watermark may pass those before a run sees them, so that nothing the orchestrator
does can promise them; nor can it promise one
that not all runners over the file want, for a run skips what it does not want.
`Owed` is what remains.

### Tokens

A token (access token, refresh token, expiry) is a number in order of issue.
`usable`, `rotated` and `full` are the bank's side: the refresh tokens it still
takes, those used up, and those that follow from a completed TAN challenge.
`aged` are those `EnsureAuthenticated` would renew (less than five minutes
left). `cache` is the file; each client has a copy in memory. `New` reads the
file in whatever state it is, in the middle of another's save too. A login is
the six steps of `Authenticate`: `PasswordGrant`, `FetchSession`,
`ValidateSession` (from here on the account holder has a TAN), `PromptTAN`,
`ActivateSession`, `SecondaryGrant`; each may fail, and the process may die after
it. `list` is to the token what a `sync` without a document to fetch is.

`Faults` selects what may go wrong: `unanswered`, `lost` (rotated, but the answer
is lost), `save`, `kill`, `ageing` (a token ages while a client works with it).
The lock of `serve` cannot be of use against all of them. The history `trouble`
records the worst that has happened. It is `serious` from the first renewal
outside the lock (by a command, or in the middle of a run), failed save, lost
answer or kill. It is `mild` from the first token request without an answer, or
the first command that writes the cache. Commands that log in, read the cache,
list or download, and tokens that age while they are in use, are no trouble. The
properties of the lock say how far they reach by `trouble`, in a run that has all
the faults.

### Server

Each loop has a `pc` from the tick to the end of the range over the banks. The
login is modelled where it waits: `Handle` publishes a challenge and blocks for
a typed answer, or returns for a push challenge that `pollPushTAN` then polls.
`submit` is two steps, since it sends after it has released the registry's lock.
A new challenge is one nothing refers to any more, which is what a fresh
allocation is; there are always enough. A browser's form has the `target` it was
filled in for; the code does not send it, so it is a history of what the user
meant. What a POST answers changes nothing and is left out. Results of token
checks, logins and
syncs are left open here: `Tokens` and `Sync` are about those. The three do not
share variables: `Server` only says when each is called, and `Sync` and
`Tokens` allow their calls at any time, which includes those times.

### Listing and Retry

`Listing` has the loop of `ListDocuments` with pages of any length up to the one
asked for, and an inbox in which documents appear and vanish at any position.
`pulled` and `pushed` count those that vanished, or appeared, before the
offset of the running listing, up to `MaxShifts` of each. The code takes the
bank's word for where the list ends: at any total (`Matches`) the offset has
reached, and at any empty page, whatever the total. The model lets the bank name
every total and send an empty page at any time. `withheld` keeps the documents
that were there behind such an end, so that what is missed for the bank's word
and what is missed for the offset stay apart.

`Retry` has `Do` step by step: a body that is read by sending it and rewound by
`GetBody`, responses that must be closed, a context that may be done at any time.
Its clock counts quarters of a second. `backoff` is the code's schedule, with
`Retry-After` multiplied in 64 bits (`Seconds`); `elapsed`, `sent`, `due` and
`asked` are histories of it. `MaxAttempts`, the timeout, the headers, the limit
of a `Duration` and the life of a token are constants.

### ApiModels, ApiValidate, ApiClient

The models are some 17,500 lines of generated code in one pattern. `ApiModels`
has three tables: the fields of each struct in their order, with the constraints
their declarations state (tags and `Enum`, `Pattern`, `Read Only` comments, those
of fields that refer to models included); what
`Validate` checks of each; and what `ContextValidate` checks. `ApiValidate` is
the pattern itself: one call per pointer, list element and map entry, its errors
so far, the first error that makes a nested call's field fail, and
`ValidateName`, which puts the field before the name. A value is not fixed in
advance: whether a field is set, holds a model, or breaks a constraint is chosen
when a call comes to it, which is the same and far smaller. `Unwraps` says
whether `errors.As` looks into a `CompositeError`; it does in the version that
`go.mod` names, and the proofs cover both.

`ApiClient` adds the calls: which statuses the reader of each operation knows,
what it makes of them, and what the method returns, which panics on a value of a
type it does not know. A payload, also that of an error and also the zero one of
an empty body, may then be validated; the client does not do so itself.

### How the modules compose

`ApiClient` extends `ApiValidate` and both run in one state space. `Sync` and
`SyncContract` are joined by the refinement `KeepsContract`. `Server`, `Tokens`
and `Sync` meet where `ensureBankAuthenticated` and `syncOne` call down: each
leaves the others' outcome open.

`LoginDesk` is where `Server` and `Tokens` agree. Both have the loops of `serve`,
`Server` with the wait for the account holder and the pages, `Tokens` with the
requests, the cache and the faults; each implements `LoginDesk` (`KeepsDesk`).
There, every bank has a desk with room for one loop, which checks the token,
starts a login if it may, asks once, has an answer, and leaves to work with the
token or with nothing. In `Server` the desk is taken by the loop that holds
`authMu`, and its stage follows from where that loop is; in `Tokens`, for one
bank, also from what it is about. The two are not composed into one state space;
that they have one abstraction is what says that neither leaves out what the other
relies on: one at a time at a bank's token, one TAN per login, and no work without
a check or a login that passed.

`Sync` uses `Retry`'s promise (no more than `maxAttempts` requests, any of which
the server may have accepted), and, with `ListingSkips`, no promise of `Listing`'s
but that what is returned was there. Its strict properties need more, a list with
everything in it, which `Listing` gives if nothing is deleted before the offset and
the bank ends its list where it ends (`NothingMissed` with `pulled` at 0 and
`withheld` empty).

## 3. The runs

| run | instance | shows |
|---|---|---|
| `sync_two_runners` | two documents of two days and two types; `serve` and a `sync` that wants both types; backdated arrivals; lists that leave documents out; paperless-ngx drops queued ones; one kill; lost replies, failing saves | `WatermarkHidesNothingOwed`, `IInv`, `KeepsContract` |
| `sync_schedule` | three documents: the oldest always refused, two of one day, one of another type; `serve` | `WatermarkSound`, `SuccessIsComplete`, `EveryDocumentArchived` |
| `sync_no_watermark` | no watermark file; an undated document and one with a slash in its name, in any order; lists that leave documents out; paperless-ngx drops queued ones; one kill | `EveryDocumentArchived`, `EachSettles` |
| `sync_mixed_types` | `serve` and a `sync --mime-types` | **violates** `WatermarkSound` |
| `sync_duplicates` | one runner | **violates** `NoDuplicateSubmissions` |
| `tokens_storm` | two loops, `sync`, `auth`, three tokens, every fault | `OnlyFullTokens`, `NoDoubleRefresh`, `CacheIsCurrent`, `LoginOnlyWhenNeeded`, `KeepsDesk` |
| `tokens_long_run` | two loops, tokens age during a run | **violates** `RefreshedOnce` |
| `server_answered` | one bank, two browsers, every challenge answered | `WaitingIsReachable`, `NoStaleChallenge`, `AnswerNotDiverted`, `KeepsDesk`, `EveryBankServed`, `LoopsStop` |
| `server_unanswered` | two banks, nobody looks | **violates** `EveryBankServed` |
| `listing_pages` | up to four documents, pages of two, three shifts either way; totals of 0 to 4, empty pages at any time | `NothingMissed`, `NothingTwice` |
| `retry_do` | three attempts, as in the code | `OnlyReturnedOpen`, `ReturnsLastAnswer`, `WholeBodies`, `NotBeforeAsked`, `TokenOutlivesRetries`, `CancelEnds` |
| `api_calls` | all operations, answers and models; three models deep, lists of two, two faults | `NilIffValid`, `FirstReported`, `Located`, `NoPanic` |

The first passing run of each module also checks its `TypeOK`.

Why these bounds. For the watermark, two dates are enough for one document to
hide behind another and three documents for a failure followed by two
successes of one day; two runners for one to save over the other's file. One
kill reaches every half-finished state, since a killed run leaves nothing but
the files behind. Two types make a document that one runner wants and the other
does not; a backdated document can come before, while or after the newer one is
dealt with. Three deletions before the offset move it by more than a page.
`submissions` counts to `MaxSubmissions`, which is one where only "accepted" matters
and two for `NoDuplicateSubmissions`; further submissions happen and are not
counted. The storm
has clients of every kind and three tokens, enough for a login and a renewal, or
for a renewal that is presented twice. One bank suffices for the
challenges, since the registry and the lock are per bank; two are needed to see
one bank stop the other. Two browsers make two answers to one challenge and one
that comes too late, or is filled in for a challenge that is gone. A retry is
answered at once or at the timeout of 30 s, which are the extremes; the headers
are none, 0, 2 s, 10 min, which is longer than a token lives, and one beyond
2^63 ns, for which a smaller `Limit` stands. Three models deep is a model, one
below it and one below that, so that a place has a middle; two elements of a list
make a later one; two faults make a first one. The proofs remove the bounds from
all of the invariants.
`EveryBankServed` and `LoopsStop` are checked for one bank with answers.

`CHECK_DEADLOCK FALSE` is set where a system comes to rest: a request that has
returned, a listing that is over, a server that was stopped.

### Fairness, and why the code justifies it

* `Sync`: `WF` of the schedule and of the runner's own steps: a ticker that
  fires, and HTTP clients with timeouts (30 s for the bank, 60 s for
  paperless-ngx), so no step hangs. `SF` of the look-up, the download, an
  accepted upload and the consumption of a document: a request made again and
  again succeeds at last, as does a document queued again and again; and `SF`, for
  each document, of a list that has it: the bank does not keep it out of every one
  (one that was deleted for good is promised nothing). This is
  fairness of the network and of paperless-ngx; the code contributes that it does
  try again. A refused document never succeeds and has none.
* `Server`: `WF` of a tick and of a loop's own steps; `SF` of `Lock`, since
  `sync.Mutex` starves no waiter, and of `Stop`, since `select` picks among
  ready cases at random. `PushApproved` has none: the poll ends by its own
  timeout. A typed answer has none in `FairSpec`; `AnsweredSpec` adds that
  someone answers, until the server is told to stop. `server_unanswered` uses
  the former.
* `Retry`: `WF` of every step but the timer: the client's timeout ends an
  attempt, while nothing bounds a `Retry-After`.
* `Tokens`, `Listing` and `ApiClient` state no liveness. A listing need not end:
  a bank that adds documents faster than they are listed keeps it going.

## 4. What is proved

All theorems hold for every value of the constants that satisfies the module's
`...Assumption`; TLC evaluates those in every run.

* **`SyncProofs`.** `TypeCorrect`, `InvariantHolds`, `NothingOwedIsHidden` and
  `SyncKeepsContract` assume nothing of the runners' types or of paperless-ngx, and
  let the bank list whatever part of its inbox it likes; what it leaves out behind
  a newer document is `late` and not `Owed`. `WatermarkHidesNothingOwed` is not
  inductive: a run holds two
  marks, `watermark` and `newest`, that it may write later, while documents arrive
  and others write. `IInv` therefore says of the file *and* of both marks of every
  run that they are safe (`SafeMark`): the date of a document that has appeared, so
  that whatever still appears behind it is `late`, with everything owed behind it
  accepted; and that a run without a failure has dealt with what it owes of all it
  has passed. What is owed only shrinks and what is accepted only grows, so a mark
  once safe stays safe, whoever writes it and when: this is why truncated files,
  kills and runs that overwrite each other's watermark do no harm. The contract
  speaks of acceptance, since a run cannot know more: a queued document may still
  be dropped. The refinement maps a run to its list and outcome, and every step
  to a step of `SyncContract` or a stutter; of the watermark only `excused` and
  `Promised` remain.
  `WatermarkIsSound` and `SuccessIsTrue` are the strict properties, without `late`,
  `Owed` and `accepted`. They assume `Trustworthy`: the bank lists all documents,
  which are dated and appear in the order of their dates, all runners over the file
  want the same types, and
  paperless-ngx consumes what it has queued. Then nothing is late, everything
  wanted is owed, and what was accepted is still there. Section 5 shows that
  none of these can be dropped.
* **`TokensProofs`.** `TypeCorrect` and `FullTokensOnly` hold under any faults,
  with `FullInv`: whoever is past asking for a token holds one of full
  authority, and the interim one is in memory only from the password grant to
  the secondary one. `LockPreventsDoubleRefresh`, `CacheKeptCurrent` and
  `LoginOnlyWhenBeyondUse` hold for any loops, commands and faults too, commands
  at work next to `serve` included. `LockInv` lists what a client may be doing
  (`LockClient`): reading with a token that needs no renewal, logging in by the
  command `auth`, or, with the lock, checking, renewing and logging in. Two more
  facts carry it: what anyone is about to save is a token that nobody else holds,
  has used or has cached (`SavesNews`), and a used token is in the cache only while
  the holder of the lock replaces it (`CacheKept`). `LockKept` says so as long as
  nothing serious has happened. `LockInv` tells the login up to the challenge,
  where the cached token must be beyond use, from the rest, since what `serve` must
  not do without need is to have a TAN sent. `TokensKeepDesk`, the refinement, holds
  whatever happens; `DeskInv` adds to `FullInv` that a loop holds the lock exactly
  while it is about a check or a login. `DeskMoves` sorts the steps of a loop into
  five kinds by what they do to its record and the lock; the rest of the proof needs
  no more of them.
* **`ServerProofs`.** `TypeCorrect` (the lock is held exactly between `Lock`
  and `Unlock`), `WaitingReachable`, `ChallengesEnd` and `AnswersArrive`, for any
  banks and browsers, from `ServerInv`: a challenge in the registry belongs to the
  login that holds the bank's lock, and a form whose challenge is still some
  login's belongs to that login's bank. `ServerKeepsDesk` is the refinement: a step
  of a loop is a step at one desk, the end of its work, or a stutter, and a step of a
  browser always a stutter.
* **`ListingProofs`.** `TypeCorrect`, `NoneMissed` and `NoneTwice` for any inbox,
  page size and number of changes. A listing misses, but for what the bank kept
  back, no more documents that were there all the time than were deleted before
  its offset, and repeats none but for one put before it each time. By `PassedInv`,
  of what stayed, was not kept back and is not ahead of the offset no more than
  `pulled` is missing; by
  `AheadInv`, the repetitions so far and those still ahead are no more than
  `pushed`. Both count, so the proofs are about cardinalities of sets that a shift
  changes by one document.
* **`RetryProofs`.** `TypeCorrect`, `OthersClosed`, `LastAnswerReturned` and
  `BodiesWhole` for any number of attempts, from `RetryInv`, which ties the
  number of answers and the open response to the place in the loop.
  `RetryAfterHonoured` and `TokenLives` are about the three attempts of the code,
  for any timeout, headers and limit, from `ClockInv`: at each place, how much of
  the time elapsed is the program's own. `TokenLives` needs two timeouts and 15 s
  to be less than what `EnsureAuthenticated` leaves: 75 s of 300 s.
* **`ApiProofs`.** `TypeCorrect` for any models, depth, lists and number of
  faults; `NilMeansValid`, `FirstFaultReported` and `ErrorsAreLocated` for any
  whose tables agree (`TablesAgree`): every constraint declared of a field is
  checked, but for the one section 5 names (`ReadOnly`), every field that refers to
  a model is descended into. TLC evaluates
  `TablesAgree` on the tables of the 61 models, an assumption of `MCApi`, so that
  together they speak of the code. The invariants follow a fault from the call
  that met it to the outermost one: `Noticed` (a call without errors has met no
  fault), `OnItsWay` (the first fault of each outermost field, on its way up),
  `Traced` (the place of a call, followed by the path of an error, is the place
  of a fault). `NeverPanics` needs no assumption.

Only model-checked: liveness (`EveryDocumentArchived`, `EachSettles`, `EveryBankServed`,
`LoopsStop`, `CancelEnds`), which TLAPS does not do. Every other property of a
passing run is a theorem.

## 5. Known disagreements

Where the code does other than a document or a comment says. Four have a run
that shows it:

* `sync_mixed_types`: the watermark passes documents that were skipped for their
  type (`sync.go:90`), so a run with more types never looks at them.
* `sync_duplicates`: a POST repeated after a lost reply (`paperless/client.go:98`).
* `tokens_long_run`: a run renews its token outside `authMu`
  (`documents.go:41, 94`), against `server.go:27-30`.
* `server_unanswered`: a login that waits for a typed answer stops both loops for
  every bank (`challenge_web.go:95`), against `README.md:99-101`.

The others were found in the same models and have no run of their own; the
models contain the behaviour, and the properties above are stated with the
condition that excludes it.

* An undated document is before every watermark and is never looked at once
  there is one (`documents.go:70`), against "purely a performance
  optimization", `Architecture.md:199`. It is `late`, and excluded by
  `OrderedFeed` from the strict properties. So is a dated one that appears behind
  a newer one.
* The watermark passes a document that paperless-ngx has queued and then fails
  to consume (`sync.go:72`); the same words. `accepted` counts it;
  `~ConsumptionFails` excludes it from the strict properties.
* A second run uploads again what the first has queued and paperless-ngx has not
  yet consumed (`sync.go:95`), against `README.md:85-87`. Part of
  `NoDuplicateSubmissions`.
* A name with a slash is stored by its base and looked up in full
  (`paperless/client.go:74`): without a watermark it is uploaded by every run,
  against `paperless/client.go:36-39`. `EachSettles` excludes it, by
  `StoredName(d) = Filename[d]`; in its run there is such a document next to
  another.
* Killed, or failing to write, between the bank's answer and the cache
  (`auth.go:329, 356`), a client leaves a used refresh token behind and the next
  run needs a new login, against `README.md:79-80`. Serious `trouble`.
* With `--auto-reauth` any error of a refresh, a timeout too, starts a live login
  (`server.go:189`), although `cmd_serve.go:21` says "when the cached token is
  invalid or expired". Mild `trouble`.
* `submit` returns true once the value is in the channel, also when the login has
  given up meanwhile, when a second POST comes between the login's read of the first and its clear,
  and for a push challenge, which reads no channel at all (`challenge_web.go:57`);
  against `challenge_web.go:46-48`. `Send` does this.
* A form names its bank only (`handlers.go:133`): sent after its challenge has
  ended it answers the bank's next one, although `handlers.go:134` speaks of
  "already answered or expired". `AnswerNotDiverted` is about forms whose
  challenge is still waited for.
* A `Retry-After` whose nanoseconds exceed 63 bits turns negative and the server
  is asked again at once (`retry.go:84`), against "honors a Retry-After header",
  `retry.go:16-18`. Excluded by `h < Limit` in `due`.
* The bearer token is checked once per listing (`documents.go:41`) and sent with
  every page and every retry; a long `Retry-After`, or a great many pages, can
  outlive it. `TokenOutlivesRetries` leaves out the time the server asked for.
* Without `--auto-reauth` nothing is pending when a token has become invalid, so
  the page does not ask to act (`handlers.go:28, 62`), against
  `README.md:101-103`.
* A document deleted before the offset makes a listing skip another
  (`documents.go:79`), against "until every matched document has been fetched",
  `documents.go:35-37`. Counted by `pulled` in `NothingMissed`.
* An empty page ends a listing although `Matches` says there is more
  (`documents.go:65-67`), and it succeeds with what it has; against the same
  words. `withheld` excuses it.
* What a list has left out behind a newer document, for either reason, the
  watermark of that run may pass for good (`sync.go:63`). It is `late`.
* `checkStatus` gives up on a rejected response without closing its body
  (`client.go:106`): each with more than 4096 bytes holds a connection until the
  client's timeout, unlike the `decodeJSON` next to it. Not modelled: it happens
  every time.

In the generated code:

* `GetDocument` and `GetPredocument` have no case for a 200
  (`messages_v2_get_document_responses.go:48`): a delivered document becomes an
  `APIError`, against `messages_client.go:125`. In `Results`.
* Of several faults below one field only the first is reported: `CompositeError`
  of go-openapi/errors v0.22.8 has an `Unwrap`, so `errors.As` takes its first
  part for the whole. `FirstReported` asks for no more.
* Below an entry of `orderTypes`, `ContextValidate` leaves the field out of the
  name (`venue.go:178`), which `Validate` does not. Excluded by `Unnamed`.
* Of the fields commented "Read Only: true", 111 refer to a model;
  `ContextValidate` descends into those but does not check that they are left out
  of a request (for example `document.go:40-41`). The tables of fields have the
  constraint and those of `ContextValidate` do not have the check;
  `ReadOnlyModelsUnchecked` in `MCApi` says that this is so of all 111, and
  `ReadOnly` leaves them out of what `NilIffValid` demands. `Card.cardValidity`
  declares a format that nothing checks; it is not in the tables.
* A 200 with an empty body is the zero value of its model, and the client never
  validates; `ValidatePayload` is up to its caller.

## 6. What is not modelled

* How long anything but a retry takes. A ticker or a poll may take any time.
* What a typed TAN, a page or a document contains; which picture a challenge
  shows; what a POST to the web UI answers.
* `lastRunAt`, `lastErr` and `nextRunAt`, which are shown and nothing else; the
  status page, the image, headers, multipart bodies, JSON, titles.
* The bodies of the responses to `ListDocuments` and `DownloadDocument`: they are
  read to the end and closed, or left open by `checkStatus` (section 5).
* Flags, configuration and shell completion; the registry of banks, a map filled
  at `init`; the terminal prompt, which for `Tokens` is a `PromptTAN` that ends in
  one way or the other.
* Of the generated client: query and path parameters, `MarshalBinary` and
  `UnmarshalBinary`, the transport and its constructors. They hold no decision of
  this code.

## 7. The plan

Done: `Sync` with its contract, invariant and proofs; `Tokens` with every step of
a login; `Server` with the forms of its users; `LoginDesk`, which both implement;
`Listing`; `Retry` with its time;
the generated models and client. What could follow, in this order:

1. `KeepAlive`, the times of a token in numbers: access lifetime, the five
   minutes of `auth.go:309` and of `server.go:109`, and the life of the refresh
   token; how many failing ticks in a row the keep-alive survives.
2. The status page (`handlers.go:28, 62`) over the stages of `LoginDesk`: what it
   asks the account holder to do, and when.
3. Once the program uses the generated client: its calls in the place of
   `Listing`'s and `Tokens`'s requests.
