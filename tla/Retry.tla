------------------------------- MODULE Retry -------------------------------
(***************************************************************************)
(* Do of package httpx (retry.go): one request, sent again as long as the  *)
(* answer is worth another try, while its context may be cancelled.        *)
(*                                                                         *)
(* Time is counted in units of 250 ms, the shortest wait of the code.      *)
(***************************************************************************)
EXTENDS Integers, Sequences

CONSTANTS
  MaxAttempts,  \* maxAttempts
  Timeout,      \* http.Client.Timeout
  Times,        \* how long an attempt may take
  Headers,      \* the values of Retry-After, NoHeader for none that is usable
  NoHeader,
  Limit,        \* a Duration is less than this: 2^63 ns in the program
  Margin        \* the life EnsureAuthenticated leaves an access token

ASSUME RetryAssumption ==
  /\ MaxAttempts \in Nat \ {0}
  /\ Timeout \in Nat
  /\ Times \subseteq 0..Timeout
  /\ Headers \subseteq Nat \cup {NoHeader}
  /\ NoHeader \notin Nat
  /\ Limit \in Nat \ {0}
  /\ Margin \in Nat

\* How an attempt ends: without a response (a connection error, a timeout, a
\* context that is done), with a 5xx, a 429, or with any other response.
Answers == {"error", "transient", "limited", "final"}
shouldRetry(a) == a # "final"

\* time.Duration(secs) * time.Second: 64 bits, which wrap around.
Seconds(h) == ((h + Limit) % (2 * Limit)) - Limit

\* After attempt n: a 429 waits as long as it says, else 5 s and then 10 s,
\* anything else 250 ms and then 500 ms.  A Retry-After that cannot be read, is
\* negative or names a time past counts as none.
MutantCapped(n, a, h) ==
  IF a = "limited" THEN IF h # NoHeader /\ h <= n * 20 THEN Seconds(h) ELSE n * 20
                   ELSE 2 ^ (n - 1)
MutantMinutes(n, a, h) ==
  IF a = "limited" THEN IF h # NoHeader THEN Seconds(h) ELSE n * 20 * 60
                   ELSE 2 ^ (n - 1)
backoff(n, a, h) ==
  IF a = "limited" THEN IF h # NoHeader THEN Seconds(h) ELSE n * 20
                   ELSE 2 ^ (n - 1)

VARIABLES
  pc,         \* attempting, sent, answered, waiting or returned
  attempt,    \* attempt
  body,       \* req.Body: none, whole or spent
  open,       \* the attempts whose resp.Body is still open
  cancelled,  \* req.Context() is done
  result,     \* what Do returns: the last answer, or an error of its own
  wait,       \* wait
  seen,       \* history: what the server got of the body, each time
  answers,    \* history: how each attempt ended
  elapsed,    \* history: the time since Do was called ...
  sent,       \* ... when it last sent the request ...
  due,        \* ... before which the server asked it not to ...
  asked       \* ... and how much of it was spent because the server asked

Forward(w) == IF w > 0 THEN w ELSE 0

clock == <<wait, elapsed, sent, due, asked>>
vars == <<pc, attempt, body, open, cancelled, result, seen, answers, clock>>

answer == answers[Len(answers)]

-----------------------------------------------------------------------------
Init ==
  /\ pc = "attempting"
  /\ attempt = 1
  /\ body \in {"none", "whole"}
  /\ open = {}
  /\ cancelled = FALSE
  /\ result = "none"
  /\ seen = << >>
  /\ answers = << >>
  /\ wait = 0 /\ elapsed = 0 /\ sent = 0 /\ due = 0 /\ asked = 0

\* req.Body once GetBody has rewound it for another attempt.
MutantRewound == body
Rewound == IF attempt > 1 /\ body # "none" THEN "whole" ELSE body

RewindFails ==
  /\ pc = "attempting"
  /\ attempt > 1 /\ body # "none"
  /\ pc' = "returned"
  /\ result' = "rewind failed"
  /\ UNCHANGED <<attempt, body, open, cancelled, seen, answers, clock>>

\* client.Do passes the request on, unless its context is done.
Send ==
  /\ pc = "attempting"
  /\ ~cancelled
  /\ pc' = "sent"
  /\ seen' = Append(seen, Rewound)
  /\ body' = IF body = "none" THEN "none" ELSE "spent"
  /\ sent' = elapsed
  /\ UNCHANGED <<attempt, open, cancelled, result, answers, wait, elapsed, due, asked>>

Answered(a, t) ==
  /\ pc' = "answered"
  /\ elapsed' = elapsed + t
  /\ open' = IF a = "error" THEN open ELSE open \cup {attempt}
  /\ answers' = Append(answers, a)
  /\ UNCHANGED <<attempt, cancelled, result, wait, sent, due, asked>>

Unsent ==
  /\ pc = "attempting"
  /\ cancelled
  /\ body' = IF body = "none" THEN "none" ELSE "spent"
  /\ UNCHANGED seen
  /\ Answered("error", 0)

\* The answer, or the client's timeout.
Receive(a, t) ==
  /\ pc = "sent"
  /\ UNCHANGED <<body, seen>>
  /\ Answered(a, t)

MutantAgain == shouldRetry(answer) /\ attempt <= MaxAttempts
MutantAlways == attempt # MaxAttempts
Again == shouldRetry(answer) /\ attempt # MaxAttempts

Return ==
  /\ pc = "answered"
  /\ ~Again
  /\ pc' = "returned"
  /\ result' = "answered"
  /\ UNCHANGED <<attempt, body, open, cancelled, seen, answers, clock>>

\* Does the server name a time to wait?
Asks(h) == answer = "limited" /\ h # NoHeader

MutantBackOff(h) ==
  /\ pc = "answered"
  /\ Again
  /\ pc' = "waiting"
  /\ wait' = backoff(attempt, answer, h)
  /\ due' = IF Asks(h) /\ h < Limit THEN elapsed + h ELSE due
  /\ asked' = IF Asks(h) THEN asked + Forward(wait') ELSE asked
  /\ UNCHANGED <<attempt, body, open, cancelled, result, seen, answers, elapsed, sent>>
BackOff(h) ==
  /\ pc = "answered"
  /\ Again
  /\ pc' = "waiting"
  /\ open' = open \ {attempt}
  /\ wait' = backoff(attempt, answer, h)
  /\ due' = IF Asks(h) /\ h < Limit THEN elapsed + h ELSE due
  /\ asked' = IF Asks(h) THEN asked + Forward(wait') ELSE asked
  /\ UNCHANGED <<attempt, body, cancelled, result, seen, answers, elapsed, sent>>

\* The timer, or the context: either may win when both are ready.  A timer for
\* a negative time fires at once.
Elapse ==
  /\ pc = "waiting"
  /\ pc' = "attempting"
  /\ attempt' = attempt + 1
  /\ elapsed' = elapsed + Forward(wait)
  /\ wait' = 0
  /\ UNCHANGED <<body, open, cancelled, result, seen, answers, sent, due, asked>>

MutantGiveUp ==
  /\ pc = "waiting"
  /\ FALSE
  /\ pc' = "returned"
  /\ result' = "cancelled"
  /\ UNCHANGED <<attempt, body, open, cancelled, seen, answers, clock>>
GiveUp ==
  /\ pc = "waiting"
  /\ cancelled
  /\ pc' = "returned"
  /\ result' = "cancelled"
  /\ UNCHANGED <<attempt, body, open, cancelled, seen, answers, clock>>

\* The user or the process stops the run.
Cancel ==
  /\ pc # "returned"
  /\ ~cancelled
  /\ cancelled' = TRUE
  /\ UNCHANGED <<pc, attempt, body, open, result, seen, answers, clock>>

Do ==
  \/ Send \/ Unsent \/ RewindFails
  \/ \E a \in Answers, t \in Times : Receive(a, t)
  \/ \E h \in Headers : BackOff(h)
  \/ Return \/ GiveUp

Next == Do \/ Elapse \/ Cancel

Spec == Init /\ [][Next]_vars

\* The client's timeout ends every attempt, so every step but the timer's is
\* taken in the end; a Retry-After may be longer than anyone waits.
FairSpec == Spec /\ WF_vars(Do)

-----------------------------------------------------------------------------
(* Properties. *)

\* The state is well-formed.
TypeOK ==
  /\ pc \in {"attempting", "sent", "answered", "waiting", "returned"}
  /\ attempt \in 1..MaxAttempts
  /\ body \in {"none", "whole", "spent"}
  /\ open \subseteq 1..MaxAttempts
  /\ cancelled \in BOOLEAN
  /\ result \in {"none", "rewind failed", "cancelled", "answered"}
  /\ seen \in Seq({"none", "whole", "spent"})
  /\ answers \in Seq(Answers)
  /\ wait \in Int
  /\ elapsed \in Nat /\ sent \in Nat /\ due \in Nat /\ asked \in Nat

\* However often it is tried, whatever the answers and whenever it is cancelled,
\* a request leaves no response open but the one it returns (retry.go:44-46).
OnlyReturnedOpen ==
  pc = "returned" =>
    open = IF result = "answered" /\ answer # "error" THEN {attempt} ELSE {}

\* What is returned is the last answer; none that was worth another try while
\* tries were left, and the server is not asked again once it has given a final
\* one (retry.go:17-21).
ReturnsLastAnswer ==
  /\ \A i \in 1..Len(answers) - 1 : shouldRetry(answers[i])
  /\ result = "answered" =>
       answers # << >> /\ (shouldRetry(answer) => Len(answers) = MaxAttempts)

\* Every attempt sends the whole body, or none if there is none
\* (retry.go:22-25).
WholeBodies == \A i \in DOMAIN seen : seen[i] # "spent"

\* A server that answers 429 is not asked again before the time it named, if
\* a Duration can express it ("honors a Retry-After header",
\* retry.go:16-20, 64-76).
NotBeforeAsked == pc = "sent" => sent >= due

\* The access token of a request, checked before the first attempt only, is
\* still valid at the last one, but for the time the server itself asked to
\* wait: attempts and waits fit into the five minutes of auth.go:309.
TokenOutlivesRetries == sent - asked < Margin

\* A cancelled request returns, however long it was to wait.
CancelEnds == cancelled ~> pc = "returned"

-----------------------------------------------------------------------------
(* What makes the invariants inductive. *)

\* The response that is, or was, looked at.
Response == IF answer = "error" THEN {} ELSE {attempt}

RetryInv ==
  /\ TypeOK
  /\ pc = "returned" <=> result # "none"
  /\ Len(answers) =
       IF pc \in {"attempting", "sent"} \/ result = "rewind failed" THEN attempt - 1 ELSE attempt
  /\ open = IF pc = "answered" \/ result = "answered" THEN Response ELSE {}
  /\ \A i \in 1..Len(answers) :
       i < Len(answers) \/ pc \in {"attempting", "sent", "waiting"} => shouldRetry(answers[i])
  /\ pc = "waiting" => Again
  /\ result = "answered" => ~Again
  /\ pc = "attempting" /\ attempt = 1 => body # "spent"
  /\ WholeBodies

\* The time that is over when the wait is.
After == elapsed + Forward(wait)

\* ... of which less than this is the program's own, by the n-th attempt.
Own(n) == (n - 1) * Timeout + (IF n = 1 THEN 0 ELSE IF n = 2 THEN 20 ELSE 60)

ClockInv ==
  /\ pc \in {"attempting", "sent", "answered"} => wait = 0
  /\ pc \in {"attempting", "sent", "answered", "waiting"} => After >= due
  /\ pc = "sent" => sent = elapsed
  /\ pc \in {"attempting", "sent"} => elapsed - asked <= Own(attempt)
  /\ pc = "answered" => elapsed - asked <= Own(attempt) + Timeout
  /\ pc = "waiting" => After - asked <= Own(attempt + 1)
  /\ sent - asked <= Own(MaxAttempts)
=============================================================================
