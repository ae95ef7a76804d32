------------------------------- MODULE Server -------------------------------
(***************************************************************************)
(* The server behind `serve`: its two loops over the banks (server.go),    *)
(* the lock each bank has for authenticating, the registry that passes     *)
(* challenges to the web UI (challenge_web.go), its pages (handlers.go),   *)
(* and the login as far as it waits for the user (promptTAN, pollPushTAN   *)
(* in auth.go).  Whether a token check, a login or a sync succeeds is left *)
(* open; Tokens and Sync say what they do.                                 *)
(***************************************************************************)
EXTENDS Naturals

CONSTANTS
  Banks,       \* the configured banks
  Browsers,    \* whoever answers challenges, a tab each
  AutoReauth,  \* Server.AutoReauth
  Challenges   \* bound: what a *pendingChallenge can point to; one for each
               \* loop and each browser, and there is always one to spare

Loops == {"syncLoop", "tokenRefreshLoop"}
NoBank == "no bank"
None == "none"

ASSUME ServerAssumption ==
  /\ AutoReauth \in BOOLEAN
  /\ NoBank \notin Banks
  /\ None \notin Challenges

VARIABLES
  loop,       \* each loop: where it is, for which bank, and what it knows
  authMu,     \* each bank's authMu: the loop that holds it, or "free"
  pending,    \* challengeRegistry.pending
  replied,    \* the challenges whose replyCh (of capacity 1) holds a value
  browser,    \* each browser: where it is
  cancelled   \* the context of Run is done

vars == <<loop, authMu, pending, replied, browser, cancelled>>

(* pc of a loop: idle (select on the ticker); next (the range over banks); *)
(* lock (authMu.Lock); check (EnsureAuthenticated); login (Authenticate,   *)
(* up to the challenge); reply (Handle, blocked); answered, given up       *)
(* (Handle, about to clear); poll (pollPushTAN); finish (steps 5 and 6);   *)
(* clear, unlock (the end of ensureBankAuthenticated); run (the sync).     *)
Holding == {"check", "login", "reply", "answered", "given up", "poll", "finish",
            "clear", "unlock"}
PCs == Holding \cup {"idle", "next", "lock", "run", "stopped"}

LoopStates == [pc : PCs, bank : Banks \cup {NoBank}, todo : SUBSET Banks,
               challenge : Challenges \cup {None}, ok : BOOLEAN]

At(l, pc) == loop[l].pc = pc
bank(l) == loop[l].bank
challenge(l) == loop[l].challenge

Becomes(l, pc, b, todo, k, ok) ==
  loop' = [loop EXCEPT ![l] =
             [pc |-> pc, bank |-> b, todo |-> todo, challenge |-> k, ok |-> ok]]

\* The loop goes on within ensureBankAuthenticated or, k = None, after it.
Goes(l, pc, k, ok) == Becomes(l, pc, bank(l), loop[l].todo, k, ok)

\* The loop goes to the next of the banks todo.
Ranges(l, todo) == Becomes(l, "next", NoBank, todo, None, FALSE)

NoChallenge == [id |-> None, needsInput |-> FALSE]

Cleared(b) == pending' = [pending EXCEPT ![b] = NoChallenge]

ui == <<pending, replied, browser>>

-----------------------------------------------------------------------------
\* The first sync starts at once, the keep-alive with the first tick.
Init ==
  /\ loop = [l \in Loops |->
       [pc |-> IF l = "syncLoop" THEN "next" ELSE "idle", bank |-> NoBank,
        todo |-> IF l = "syncLoop" THEN Banks ELSE {}, challenge |-> None, ok |-> FALSE]]
  /\ authMu = [b \in Banks |-> "free"]
  /\ pending = [b \in Banks |-> NoChallenge]
  /\ replied = {}
  /\ browser = [w \in Browsers |-> [pc |-> "idle", bank |-> NoBank, target |-> None]]
  /\ cancelled = FALSE

(* The loops. *)

\* select takes any case that is ready: a tick may win over a done context.
Tick(l) ==
  /\ At(l, "idle")
  /\ Ranges(l, Banks)
  /\ UNCHANGED <<authMu, ui, cancelled>>

Stop(l) ==
  /\ At(l, "idle")
  /\ cancelled
  /\ Becomes(l, "stopped", NoBank, {}, None, FALSE)
  /\ UNCHANGED <<authMu, ui, cancelled>>

\* The order of a range over a map is not specified.
NextBank(l, b) ==
  /\ At(l, "next")
  /\ b \in loop[l].todo
  /\ Becomes(l, "lock", b, loop[l].todo \ {b}, None, FALSE)
  /\ UNCHANGED <<authMu, ui, cancelled>>

EndOfRange(l) ==
  /\ At(l, "next")
  /\ loop[l].todo = {}
  /\ Becomes(l, "idle", NoBank, {}, None, FALSE)
  /\ UNCHANGED <<authMu, ui, cancelled>>

MutantLock(l) ==
  /\ At(l, "lock")
  /\ authMu' = [authMu EXCEPT ![bank(l)] = l]
  /\ Goes(l, "check", None, FALSE)
  /\ UNCHANGED <<ui, cancelled>>
Lock(l) ==
  /\ At(l, "lock")
  /\ authMu[bank(l)] = "free"
  /\ authMu' = [authMu EXCEPT ![bank(l)] = l]
  /\ Goes(l, "check", None, FALSE)
  /\ UNCHANGED <<ui, cancelled>>

\* EnsureAuthenticated returns nil, or an error serve does not act upon.
Ensured(l, ok) ==
  /\ At(l, "check")
  /\ ok \/ ~AutoReauth
  /\ Goes(l, "unlock", None, ok)
  /\ UNCHANGED <<authMu, ui, cancelled>>

StartLogin(l) ==
  /\ At(l, "check")
  /\ AutoReauth
  /\ Goes(l, "login", None, FALSE)
  /\ UNCHANGED <<authMu, ui, cancelled>>

\* ensureBankAuthenticated returns and gives up the lock: a sync runs
\* unless it failed; the keep-alive loop goes on either way.
MutantUnlock(l) ==
  /\ At(l, "unlock")
  /\ authMu' = [authMu EXCEPT ![bank(l)] = "free"]
  /\ IF l = "syncLoop" THEN Goes(l, "run", None, FALSE) ELSE Ranges(l, loop[l].todo)
  /\ UNCHANGED <<ui, cancelled>>
Unlock(l) ==
  /\ At(l, "unlock")
  /\ authMu' = [authMu EXCEPT ![bank(l)] = "free"]
  /\ IF l = "syncLoop" /\ loop[l].ok THEN Goes(l, "run", None, FALSE)
                                     ELSE Ranges(l, loop[l].todo)
  /\ UNCHANGED <<ui, cancelled>>

\* The orchestrator's run ends, in success or an error that is shown.
SyncRun(l) ==
  /\ At(l, "run")
  /\ Ranges(l, loop[l].todo)
  /\ UNCHANGED <<authMu, ui, cancelled>>

-----------------------------------------------------------------------------
(* The login. *)

\* A new challenge is none that anyone still refers to.
InUse == {challenge(l) : l \in Loops} \cup {browser[w].target : w \in Browsers}
NewChallenge == CHOOSE k \in Challenges \ InUse : TRUE

\* Handle publishes the challenge; only one that needs input blocks.
Handle(l, needsInput) ==
  /\ At(l, "login")
  /\ Challenges \ InUse # {}
  /\ pending' = [pending EXCEPT ![bank(l)] = [id |-> NewChallenge, needsInput |-> needsInput]]
  /\ replied' = replied \ {NewChallenge}
  /\ Goes(l, IF needsInput THEN "reply" ELSE "poll", NewChallenge, FALSE)
  /\ UNCHANGED <<authMu, browser, cancelled>>

\* The password is rejected, or no session or challenge is to be had.
LoginRejected(l) ==
  /\ At(l, "login")
  /\ Goes(l, "clear", None, FALSE)
  /\ UNCHANGED <<authMu, ui, cancelled>>

\* Handle, of a challenge that needs input.
Receive(l) ==
  /\ At(l, "reply")
  /\ challenge(l) \in replied
  /\ replied' = replied \ {challenge(l)}
  /\ Goes(l, "answered", challenge(l), FALSE)
  /\ UNCHANGED <<authMu, pending, browser, cancelled>>

MutantGiveUp(l) ==
  /\ At(l, "reply")
  /\ FALSE
  /\ Goes(l, "given up", challenge(l), FALSE)
  /\ UNCHANGED <<authMu, ui, cancelled>>
GiveUp(l) ==
  /\ At(l, "reply")
  /\ cancelled
  /\ Goes(l, "given up", challenge(l), FALSE)
  /\ UNCHANGED <<authMu, ui, cancelled>>

HandleReturns(l) ==
  /\ At(l, "answered") \/ At(l, "given up")
  /\ Cleared(bank(l))
  /\ Goes(l, IF At(l, "answered") THEN "finish" ELSE "clear", challenge(l), FALSE)
  /\ UNCHANGED <<authMu, replied, browser, cancelled>>

\* pollPushTAN: approved in the app; or an error, or the poll timeout.
PushApproved(l) ==
  /\ At(l, "poll")
  /\ Goes(l, "finish", challenge(l), FALSE)
  /\ UNCHANGED <<authMu, ui, cancelled>>

MutantPollEnds(l) ==
  /\ At(l, "poll")
  /\ cancelled
  /\ Goes(l, "clear", challenge(l), FALSE)
  /\ UNCHANGED <<authMu, ui, cancelled>>
PollEnds(l) ==
  /\ At(l, "poll")
  /\ Goes(l, "clear", challenge(l), FALSE)
  /\ UNCHANGED <<authMu, ui, cancelled>>

\* The session is activated and the final token saved, or not.
FinishLogin(l, ok) ==
  /\ At(l, "finish")
  /\ Goes(l, "clear", challenge(l), ok)
  /\ UNCHANGED <<authMu, ui, cancelled>>

MutantClear(l) ==
  /\ At(l, "clear")
  /\ Goes(l, "unlock", None, loop[l].ok)
  /\ UNCHANGED <<authMu, ui, cancelled>>
Clear(l) ==
  /\ At(l, "clear")
  /\ Cleared(bank(l))
  /\ Goes(l, "unlock", None, loop[l].ok)
  /\ UNCHANGED <<authMu, replied, browser, cancelled>>

-----------------------------------------------------------------------------
(* The web UI.  pc of a browser: idle; page (a form of /auth/{bank}, that  *)
(* of the challenge target); post (submit has looked up target).  What the *)
(* POST answers, a redirect or a conflict, changes nothing.                *)

BrowserStates == [pc : {"idle", "page", "post"},
                  bank : Banks \cup {NoBank}, target : Challenges \cup {None}]

Shows(w, pc, b, k) ==
  browser' = [browser EXCEPT ![w] = [pc |-> pc, bank |-> b, target |-> k]]

\* handleAuthGet; only a challenge that needs input has a form.
Get(w, b) ==
  /\ browser[w].pc = "idle"
  /\ pending[b].needsInput
  /\ Shows(w, "page", b, pending[b].id)
  /\ UNCHANGED <<loop, authMu, pending, replied, cancelled>>

\* submit looks the bank's challenge up under the registry's lock: the form
\* does not say which one it belongs to.  Without one, that is all.
Lookup(w) ==
  /\ browser[w].pc = "page"
  /\ IF pending[browser[w].bank] = NoChallenge
       THEN Shows(w, "idle", NoBank, None)
       ELSE Shows(w, "post", NoBank, pending[browser[w].bank].id)
  /\ UNCHANGED <<loop, authMu, pending, replied, cancelled>>

\* It sends the value without the lock, if there is room for it.
Send(w) ==
  /\ browser[w].pc = "post"
  /\ Shows(w, "idle", NoBank, None)
  /\ replied' = replied \cup {browser[w].target}
  /\ UNCHANGED <<loop, authMu, pending, cancelled>>

\* The process is told to stop.
Cancel ==
  /\ ~cancelled
  /\ cancelled' = TRUE
  /\ UNCHANGED <<loop, authMu, ui>>

-----------------------------------------------------------------------------
Login(l) ==
  \/ \E needsInput \in BOOLEAN : Handle(l, needsInput)
  \/ LoginRejected(l) \/ Receive(l) \/ GiveUp(l) \/ HandleReturns(l)
  \/ PollEnds(l) \/ Clear(l)
  \/ \E ok \in BOOLEAN : FinishLogin(l, ok)

\* What a loop does by itself once it is its turn.
Proceed(l) ==
  \/ \E b \in Banks : NextBank(l, b)
  \/ EndOfRange(l) \/ StartLogin(l) \/ Unlock(l) \/ SyncRun(l) \/ Login(l)
  \/ \E ok \in BOOLEAN : Ensured(l, ok)

LoopStep(l) == Tick(l) \/ Stop(l) \/ Lock(l) \/ Proceed(l) \/ PushApproved(l)

BrowserStep(w) == (\E b \in Banks : Get(w, b)) \/ Lookup(w) \/ Send(w)

Next ==
  \/ \E l \in Loops : LoopStep(l)
  \/ \E w \in Browsers : BrowserStep(w)
  \/ Cancel

Spec == Init /\ [][Next]_vars

\* Goroutines run and tickers tick; a select that finds its context done again
\* and again takes that case some time; sync.Mutex passes over no waiter
\* forever; the poll of a push approval ends by its timeout, if not before.
Fairness ==
  /\ \A l \in Loops : /\ WF_vars(Tick(l)) /\ WF_vars(Proceed(l))
                       /\ SF_vars(Stop(l)) /\ SF_vars(Lock(l))
  /\ \A w \in Browsers : WF_vars(Send(w))

\* Someone answers every challenge that needs input, as long as there is a web
\* UI: a server that is shutting down takes no new request.
UserAnswers ==
  /\ \A w \in Browsers : WF_vars(~cancelled /\ Lookup(w))
  /\ \A b \in Banks : SF_vars(~cancelled /\ \E w \in Browsers : Get(w, b))

FairSpec == Spec /\ Fairness
AnsweredSpec == FairSpec /\ UserAnswers

-----------------------------------------------------------------------------
(* Properties. *)

\* The state is well-formed, and a lock is held exactly by the loop that is
\* between Lock and Unlock of ensureBankAuthenticated.
TypeOK ==
  /\ loop \in [Loops -> LoopStates]
  /\ authMu \in [Banks -> Loops \cup {"free"}]
  /\ pending \in [Banks -> [id : Challenges, needsInput : BOOLEAN] \cup {NoChallenge}]
  /\ replied \in SUBSET Challenges
  /\ browser \in [Browsers -> BrowserStates]
  /\ \A w \in Browsers : /\ browser[w].pc = "page" => browser[w].bank \in Banks
                         /\ browser[w].pc \in {"page", "post"} => browser[w].target \in Challenges
  /\ cancelled \in BOOLEAN
  /\ \A l \in Loops : loop[l].pc \in Holding \cup {"lock", "run"} => bank(l) \in Banks
  /\ \A b \in Banks, l \in Loops : authMu[b] = l <=> bank(l) = b /\ loop[l].pc \in Holding

\* A login that waits for an answer can be answered: what the web UI shows and
\* answers for its bank is its own challenge (challenge_web.go:84-103).
WaitingIsReachable ==
  \A l \in Loops :
    At(l, "reply") => pending[bank(l)] = [id |-> challenge(l), needsInput |-> TRUE]

\* No challenge outlives its login: once the bank's lock is free, the status
\* page asks nobody to act (server.go:198-199, handlers.go:62).
NoStaleChallenge ==
  \A b \in Banks : authMu[b] = "free" => pending[b] = NoChallenge

\* A form names its bank only, and the bank may have another challenge by the
\* time it is sent.  But as long as a login waits for the answer to the one it
\* was filled in for, the answer gets there (challenge_web.go:46-48).
AnswerNotDiverted ==
  [][\A w \in Browsers, l \in Loops :
       /\ browser[w].pc = "page" /\ browser'[w].pc # "page"
       /\ At(l, "reply") /\ challenge(l) = browser[w].target
       => browser'[w].target = browser[w].target]_vars

\* A loop between Lock and Unlock, as LoginDesk sees it.
Stage(x) ==
  CASE x.pc = "check" -> "checking"
    [] x.pc = "login" -> "login"
    [] x.pc \in {"reply", "given up", "poll"} -> "asked"
    [] x.pc \in {"answered", "finish"} -> "answered"
    [] OTHER -> IF x.ok THEN "passed" ELSE "failed"

desk ==
  [b \in Banks |-> IF authMu[b] = "free"
                     THEN [at |-> "nobody", stage |-> "free"]
                     ELSE [at |-> authMu[b], stage |-> Stage(loop[authMu[b]])]]

working == {l \in Loops : At(l, "run")}

Desk == INSTANCE LoginDesk

\* Whatever the loops, the web UI and its users do, a bank's token is checked by
\* one loop at a time, a login begins only after a check and if it may, asks once
\* and ends before another begins, and no sync runs without a token
\* (server.go:166-205, 151-163).
KeepsDesk == Desk!Spec

\* Until the server is told to stop, both loops get to every bank again and
\* again, and so its token is kept alive (README.md:99-101).
EveryBankServed ==
  \A l \in Loops, b \in Banks : []<>(cancelled \/ (At(l, "check") /\ bank(l) = b))

\* Told to stop, the loops do: nobody is left waiting for a lock or an answer
\* (server.go:81-84, challenge_web.go:99-101).
LoopsStop == cancelled ~> \A l \in Loops : At(l, "stopped")

-----------------------------------------------------------------------------
(* What makes the invariants inductive. *)

\* From Handle to clear, a login has a challenge the registry may know.
Open == {"reply", "answered", "given up", "poll", "finish", "clear"}

\* A challenge in the registry is the one of the login that holds the bank's
\* lock, no two logins have the same, and a form that is still of use belongs
\* to the login's bank.
ServerInv ==
  /\ TypeOK
  /\ WaitingIsReachable
  /\ \A b \in Banks : pending[b] # NoChallenge =>
       \E l \in Loops : /\ authMu[b] = l /\ loop[l].pc \in Open
                        /\ challenge(l) = pending[b].id
  /\ \A l, m \in Loops : l # m /\ challenge(l) # None => challenge(l) # challenge(m)
  /\ \A w \in Browsers, l \in Loops :
       browser[w].pc = "page" /\ challenge(l) = browser[w].target =>
         bank(l) = browser[w].bank
=============================================================================
