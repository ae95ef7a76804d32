---------------------------- MODULE RetryProofs ----------------------------
(***************************************************************************)
(* Proofs about module Retry, for any number of attempts.                  *)
(***************************************************************************)
EXTENDS Retry, TLAPS

LEMMA RetryInit == Init => RetryInv
<1> SUFFICES ASSUME Init PROVE RetryInv
  OBVIOUS
<1>1. /\ answers \in Seq(Answers) /\ Len(answers) = 0
      /\ seen \in Seq({"none", "whole", "spent"}) /\ DOMAIN seen = {}
  BY DEF Init
<1>2. TypeOK
  <2>1. /\ pc = "attempting" /\ attempt = 1 /\ body \in {"none", "whole"} /\ open = {}
        /\ cancelled = FALSE /\ result = "none"
        /\ wait = 0 /\ elapsed = 0 /\ sent = 0 /\ due = 0 /\ asked = 0
    BY DEF Init
  <2>2. 1 \in 1..MaxAttempts
    BY RetryAssumption
  <2>3. wait \in Int /\ elapsed \in Nat /\ sent \in Nat /\ due \in Nat /\ asked \in Nat
    BY <2>1
  <2>4. QED BY <1>1, <2>1, <2>2, <2>3 DEF TypeOK
<1>3. QED BY <1>1, <1>2 DEF Init, RetryInv, WholeBodies

\* One more answer.
LEMMA AnsweredStep ==
  ASSUME RetryInv, NEW a \in Answers, NEW t \in Nat, Answered(a, t),
         pc \in {"attempting", "sent"},
         body' \in {"none", "whole", "spent"}, UNCHANGED seen
  PROVE  RetryInv'
<1>0. elapsed \in Nat /\ elapsed' = elapsed + t /\ elapsed' \in Nat
  <2>1. elapsed \in Nat
    BY DEF RetryInv, TypeOK
  <2>2. elapsed' = elapsed + t
    BY DEF Answered
  <2>3. QED BY <2>1, <2>2
<1>1. /\ answers \in Seq(Answers) /\ Len(answers) = attempt - 1 /\ result = "none"
      /\ attempt \in 1..MaxAttempts /\ open = {} /\ MaxAttempts \in Nat
      /\ pc' = "answered" /\ answers' = Append(answers, a)
      /\ open' = IF a = "error" THEN open ELSE open \cup {attempt}
      /\ UNCHANGED <<attempt, cancelled, result, wait, sent, due, asked>>
  BY RetryAssumption DEF RetryInv, TypeOK, Answered
<1>2. /\ answers' \in Seq(Answers) /\ Len(answers') = attempt
      /\ answers'[attempt] = a
      /\ \A i \in 1..Len(answers) : answers'[i] = answers[i]
  BY <1>1
<1>3. TypeOK'
  BY <1>0, <1>1, <1>2 DEF RetryInv, TypeOK
<1>4. open' = Response'
  BY <1>1, <1>2 DEF Response, answer
<1>5. \A i \in 1..Len(answers') : i < Len(answers') => shouldRetry(answers'[i])
  BY <1>1, <1>2 DEF RetryInv
<1>6. WholeBodies'
  BY DEF RetryInv, WholeBodies
<1>7. QED BY <1>1, <1>2, <1>3, <1>4, <1>5, <1>6 DEF RetryInv

\* Every wait is a number of units, if only a negative one.
LEMMA BackoffInt ==
  ASSUME NEW n \in Nat \ {0}, NEW a, NEW h \in Headers
  PROVE  backoff(n, a, h) \in Int
<1>1. 2 ^ (n - 1) \in Int /\ n * 20 \in Int
  OBVIOUS
<1>2. h # NoHeader => Seconds(h) \in Int
  BY RetryAssumption DEF Seconds
<1>3. QED BY <1>1, <1>2 DEF backoff

LEMMA RetryStep == RetryInv /\ [Next]_vars => RetryInv'
<1> SUFFICES ASSUME RetryInv, [Next]_vars PROVE RetryInv'
  OBVIOUS
<1> USE RetryAssumption
<1>1. CASE UNCHANGED vars
  BY <1>1 DEF vars, clock, RetryInv, TypeOK, WholeBodies, Response, Again, answer
<1>2. CASE Send
  <2>1. Rewound \in {"none", "whole"}
    BY <1>2 DEF Send, Rewound, RetryInv, TypeOK
  <2>2. seen' \in Seq({"none", "whole", "spent"}) /\ WholeBodies'
    BY <1>2, <2>1 DEF Send, RetryInv, TypeOK, WholeBodies
  <2>3. TypeOK'
    BY <1>2, <2>2 DEF Send, RetryInv, TypeOK
  <2>4. QED BY <1>2, <2>2, <2>3 DEF Send, RetryInv, TypeOK
<1>3. CASE Unsent
  <2>1. body' \in {"none", "whole", "spent"} /\ UNCHANGED seen /\ Answered("error", 0)
        /\ pc = "attempting" /\ 0 \in Nat
    BY <1>3 DEF Unsent
  <2>2. QED BY <2>1, AnsweredStep DEF Answers
<1>4. ASSUME NEW a \in Answers, NEW t \in Times, Receive(a, t) PROVE RetryInv'
  <2>1. body' \in {"none", "whole", "spent"} /\ UNCHANGED seen /\ Answered(a, t)
        /\ pc = "sent" /\ t \in Nat
    BY <1>4 DEF Receive, RetryInv, TypeOK
  <2>2. QED BY <2>1, AnsweredStep
<1>5. CASE RewindFails
  BY <1>5 DEF RewindFails, clock, RetryInv, TypeOK, WholeBodies
<1>6. CASE Return
  BY <1>6 DEF Return, clock, RetryInv, TypeOK, WholeBodies, Response, Again, answer
<1>7. ASSUME NEW h \in Headers, BackOff(h) PROVE RetryInv'
  <2>0. wait' \in Int /\ UNCHANGED <<elapsed, sent>> /\ due' \in Nat /\ asked' \in Nat
    <3>1. wait' \in Int
      BY <1>7, BackoffInt DEF BackOff, RetryInv, TypeOK
    <3>2. Asks(h) => h \in Nat
      BY DEF Asks
    <3>3. QED BY <1>7, <3>1, <3>2 DEF BackOff, Forward, RetryInv, TypeOK
  <2>1. /\ pc = "answered" /\ pc' = "waiting" /\ open' = open \ {attempt}
        /\ UNCHANGED <<attempt, body, cancelled, result, seen, answers>>
    BY <1>7 DEF BackOff
  <2>2. TypeOK' /\ WholeBodies' /\ open' = {}
    BY <2>0, <2>1 DEF RetryInv, TypeOK, WholeBodies, Response
  <2>3. shouldRetry(answers[Len(answers)]) /\ Again'
    BY <1>7 DEF BackOff, Again, answer
  <2>4. \A i \in 1..Len(answers') : shouldRetry(answers'[i])
    BY <2>1, <2>3 DEF RetryInv, TypeOK
  <2>5. /\ Len(answers') = attempt' /\ pc' = "waiting" /\ result' = "none"
    BY <2>1 DEF RetryInv
  <2>6. QED BY <2>2, <2>3, <2>4, <2>5 DEF RetryInv
<1>8. CASE Elapse
  <2>1. Again
    BY <1>8 DEF Elapse, RetryInv
  <2>2. QED BY <1>8, <2>1 DEF Elapse, Forward, RetryInv, TypeOK, WholeBodies, Again
<1>9. CASE GiveUp
  BY <1>9 DEF GiveUp, clock, RetryInv, TypeOK, WholeBodies
<1>10. CASE Cancel
  BY <1>10 DEF Cancel, clock, RetryInv, TypeOK, WholeBodies, Response, Again, answer
<1>11. QED BY <1>1, <1>2, <1>3, <1>4, <1>5, <1>6, <1>7, <1>8, <1>9, <1>10 DEF Next, Do

THEOREM RetryCorrect == Spec => []RetryInv
BY RetryInit, RetryStep, PTL DEF Spec

-----------------------------------------------------------------------------
(* How long it takes. *)

\* A Retry-After that a Duration can express is waited for.
LEMMA SecondsExact == \A h \in Nat : h < Limit => Seconds(h) = h
BY RetryAssumption DEF Seconds

\* Without one, the first wait is at most 5 s, the second at most 10 s.
LEMMA OwnWaits ==
  ASSUME NEW n \in 1..2, NEW a, NEW h \in Headers, ~(a = "limited" /\ h # NoHeader)
  PROVE  backoff(n, a, h) \in 1..20 * n
<1>1. CASE n = 1
  <2>1. n - 1 = 0 /\ 2 ^ 0 = 1
    BY <1>1
  <2>2. 2 ^ (n - 1) = 1
    BY <2>1, Zenon
  <2>3. QED BY <1>1, <2>2 DEF backoff
<1>2. CASE n = 2
  <2>1. n - 1 = 1 /\ 2 ^ 1 = 2
    BY <1>2
  <2>2. 2 ^ (n - 1) = 2
    BY <2>1, Zenon
  <2>3. QED BY <1>2, <2>2 DEF backoff
<1>3. QED BY <1>1, <1>2

LEMMA ClockStep ==
  ASSUME MaxAttempts = 3, RetryInv, ClockInv, [Next]_vars PROVE ClockInv'
<1> USE RetryAssumption
<1>1. /\ attempt \in 1..3 /\ wait \in Int /\ elapsed \in Nat /\ sent \in Nat
      /\ due \in Nat /\ asked \in Nat /\ Timeout \in Nat
      /\ Forward(wait) \in Nat /\ Forward(0) = 0
  <2>1. attempt \in 1..3 /\ wait \in Int
    BY DEF RetryInv, TypeOK
  <2>2. elapsed \in Nat /\ sent \in Nat /\ due \in Nat /\ asked \in Nat
    BY DEF RetryInv, TypeOK
  <2>3. Forward(wait) \in Nat /\ Forward(0) = 0
    BY <2>1 DEF Forward
  <2>4. QED BY <2>1, <2>2, <2>3
<1>2. /\ Own(1) = 0 /\ Own(2) = Timeout + 20 /\ Own(3) = 2 * Timeout + 60
      /\ Own(MaxAttempts) = 2 * Timeout + 60 /\ Own(attempt) <= 2 * Timeout + 60
      /\ Own(attempt) \in Int
  BY <1>1 DEF Own
<1>3. CASE UNCHANGED vars
  BY <1>3 DEF vars, clock, ClockInv, After, Own
<1>4. CASE RewindFails \/ Return \/ GiveUp
  <2>1. pc' = "returned" /\ UNCHANGED clock
    BY <1>4 DEF RewindFails, Return, GiveUp
  <2>2. QED BY <1>1, <2>1 DEF clock, ClockInv
<1>5. CASE Cancel
  BY <1>5 DEF Cancel, clock, ClockInv, After, Own
<1>6. CASE Send
  <2>1. /\ pc = "attempting" /\ pc' = "sent" /\ sent' = elapsed
        /\ UNCHANGED <<attempt, wait, elapsed, due, asked>>
    BY <1>6 DEF Send
  <2>2. wait = 0 /\ elapsed >= due /\ elapsed - asked <= Own(attempt)
    BY <1>1, <2>1 DEF ClockInv, After
  <2>3. elapsed - asked <= 2 * Timeout + 60
    BY <1>1, <1>2, <2>2
  <2>4. QED BY <1>1, <1>2, <2>1, <2>2, <2>3 DEF ClockInv, After, Own
<1>7. ASSUME NEW a \in Answers, NEW t \in 0..Timeout, Answered(a, t),
             pc \in {"attempting", "sent"}
      PROVE  ClockInv'
  <2>1. /\ pc' = "answered" /\ elapsed' = elapsed + t
        /\ UNCHANGED <<attempt, wait, sent, due, asked>>
    BY <1>7 DEF Answered
  <2>2. wait = 0 /\ elapsed >= due /\ elapsed - asked <= Own(attempt)
        /\ sent - asked <= Own(MaxAttempts)
    BY <1>1, <1>7 DEF ClockInv, After
  <2>3. elapsed' >= due /\ elapsed' - asked <= Own(attempt) + Timeout /\ elapsed' \in Nat
    BY <1>1, <1>2, <2>1, <2>2
  <2>4. QED BY <1>1, <2>1, <2>2, <2>3 DEF ClockInv, After, Own
<1>8. CASE Unsent \/ \E a \in Answers, t \in Times : Receive(a, t)
  <2>1. CASE Unsent
    BY <1>7, <2>1 DEF Unsent, Answers
  <2>2. ASSUME NEW a \in Answers, NEW t \in Times, Receive(a, t) PROVE ClockInv'
    <3>1. t \in 0..Timeout
      OBVIOUS
    <3>2. QED BY <1>7, <2>2, <3>1 DEF Receive
  <2>3. QED BY <1>8, <2>1, <2>2
<1>9. ASSUME NEW h \in Headers, BackOff(h) PROVE ClockInv'
  <2>1. /\ pc = "answered" /\ pc' = "waiting" /\ attempt \in 1..2
        /\ wait' = backoff(attempt, answer, h)
        /\ due' = IF Asks(h) /\ h < Limit THEN elapsed + h ELSE due
        /\ asked' = IF Asks(h) THEN asked + Forward(wait') ELSE asked
        /\ UNCHANGED <<attempt, elapsed, sent>>
    BY <1>1, <1>9 DEF BackOff, Again
  <2>2. /\ elapsed >= due /\ elapsed - asked <= Own(attempt) + Timeout
        /\ sent - asked <= Own(MaxAttempts)
    BY <1>1, <2>1 DEF ClockInv, After
  <2>3. wait' \in Int /\ Forward(wait') \in Nat /\ Forward(wait') >= wait'
    <3>1. wait' \in Int
      BY <1>1, <2>1, BackoffInt
    <3>2. QED BY <3>1 DEF Forward
  <2>4. Own(attempt + 1) >= Own(attempt) + Timeout + 20 * attempt
    BY <1>1, <2>1 DEF Own
  <2>5. /\ After' = elapsed + Forward(wait')
        /\ Own(attempt + 1)' = Own(attempt + 1)
        /\ Own(MaxAttempts)' = Own(MaxAttempts)
    BY <2>1 DEF After, Own
  <2>6. pc' = "waiting" /\ sent' = sent /\ attempt' = attempt
    BY <2>1
  <2>7. CASE Asks(h)
    <3>1. h \in Nat /\ wait' = Seconds(h) /\ (h < Limit => Seconds(h) = h)
      BY <2>1, <2>7, SecondsExact DEF Asks, backoff
    <3>2. elapsed + Forward(wait') >= due'
      BY <1>1, <2>1, <2>2, <2>3, <2>7, <3>1
    <3>3. (elapsed + Forward(wait')) - asked' <= Own(attempt + 1)
      BY <1>1, <1>2, <2>1, <2>2, <2>3, <2>4, <2>7 DEF Own
    <3>4. sent - asked' <= Own(MaxAttempts)
      BY <1>1, <1>2, <2>1, <2>2, <2>3, <2>7
    <3>5. After' >= due' /\ After' - asked' <= Own(attempt' + 1)
      BY <2>5, <2>6, <3>2, <3>3, Zenon
    <3>6. sent' - asked' <= Own(MaxAttempts)'
      BY <2>5, <2>6, <3>4
    <3>7. QED BY <2>6, <3>5, <3>6 DEF ClockInv
  <2>8. CASE ~Asks(h)
    <3>1. wait' \in 1..20 * attempt
      BY <1>1, <2>1, <2>8, OwnWaits DEF Asks
    <3>2. Forward(wait') = wait'
      BY <3>1, <2>3 DEF Forward
    <3>3. elapsed + Forward(wait') >= due'
      BY <1>1, <2>1, <2>2, <2>3, <2>8
    <3>4. (elapsed + Forward(wait')) - asked' <= Own(attempt + 1)
      BY <1>1, <1>2, <2>1, <2>2, <2>3, <2>4, <2>8, <3>1, <3>2 DEF Own
    <3>5. After' >= due' /\ After' - asked' <= Own(attempt' + 1)
      BY <2>5, <2>6, <3>3, <3>4, Zenon
    <3>6. sent' - asked' <= Own(MaxAttempts)'
      BY <2>5, <2>6, <2>1, <2>2, <2>8
    <3>7. QED BY <2>6, <3>5, <3>6 DEF ClockInv
  <2>9. QED BY <2>7, <2>8
<1>10. CASE Elapse
  <2>1. /\ pc = "waiting" /\ pc' = "attempting" /\ attempt' = attempt + 1
        /\ elapsed' = After /\ wait' = 0 /\ UNCHANGED <<sent, due, asked>>
    BY <1>10 DEF Elapse, After
  <2>2. After >= due /\ After - asked <= Own(attempt + 1) /\ After \in Nat
        /\ sent - asked <= Own(MaxAttempts)
    BY <1>1, <2>1 DEF ClockInv, After
  <2>3. QED BY <1>1, <2>1, <2>2 DEF ClockInv, After, Own
<1>11. QED BY <1>3, <1>4, <1>5, <1>6, <1>8, <1>9, <1>10 DEF Next, Do

LEMMA ClockHolds == ASSUME MaxAttempts = 3 PROVE Spec => []ClockInv
<1>1. Init => ClockInv
  BY RetryAssumption DEF Init, ClockInv, After, Forward, Own
<1>2. QED BY <1>1, ClockStep, RetryCorrect, PTL DEF Spec

\* For the three attempts of the code and any server: a Retry-After that a
\* Duration can express is respected.
THEOREM RetryAfterHonoured == ASSUME MaxAttempts = 3 PROVE Spec => []NotBeforeAsked
<1>1. RetryInv /\ ClockInv => NotBeforeAsked
  BY DEF RetryInv, TypeOK, ClockInv, NotBeforeAsked, After, Forward
<1>2. QED BY <1>1, ClockHolds, RetryCorrect, PTL

\* If two timeouts and 15 s are less than what EnsureAuthenticated leaves, the
\* access token lives until the last attempt, whatever times the server names
\* not counted: with the timeout of 30 s of the code they are 75 s of 300 s.
THEOREM TokenLives ==
  ASSUME MaxAttempts = 3, 2 * Timeout + 60 < Margin
  PROVE  Spec => []TokenOutlivesRetries
<1>1. RetryInv /\ ClockInv => TokenOutlivesRetries
  <2>1. Own(MaxAttempts) = 2 * Timeout + 60 /\ Timeout \in Nat /\ Margin \in Nat
    BY RetryAssumption DEF Own
  <2>2. SUFFICES ASSUME RetryInv, ClockInv PROVE sent - asked < Margin
    BY DEF TokenOutlivesRetries
  <2>3. sent \in Nat /\ asked \in Nat
    BY <2>2 DEF RetryInv, TypeOK
  <2>4. sent - asked <= Own(MaxAttempts)
    BY <2>2 DEF ClockInv
  <2>5. QED BY <2>1, <2>3, <2>4
<1>2. QED BY <1>1, ClockHolds, RetryCorrect, PTL

-----------------------------------------------------------------------------
\* No more than maxAttempts attempts are made.
THEOREM TypeCorrect == Spec => []TypeOK
<1>1. RetryInv => TypeOK
  BY DEF RetryInv
<1>2. QED BY <1>1, RetryCorrect, PTL

\* No response but the one returned is left open, for any number of attempts.
THEOREM OthersClosed == Spec => []OnlyReturnedOpen
<1>1. RetryInv => OnlyReturnedOpen
  BY DEF RetryInv, OnlyReturnedOpen, Response
<1>2. QED BY <1>1, RetryCorrect, PTL

\* What is returned is the last answer, given up only after the last attempt,
\* and a final answer is never followed by another request.
THEOREM LastAnswerReturned == Spec => []ReturnsLastAnswer
<1>1. RetryInv => ReturnsLastAnswer
  <2> SUFFICES ASSUME RetryInv PROVE ReturnsLastAnswer
    OBVIOUS
  <2>1. TypeOK
    BY DEF RetryInv
  <2>2. /\ answers \in Seq(Answers) /\ attempt \in 1..MaxAttempts
        /\ Len(answers) \in Nat
    <3>1. answers \in Seq(Answers) /\ attempt \in 1..MaxAttempts
      BY <2>1 DEF TypeOK
    <3>2. Len(answers) \in Nat
      BY <3>1
    <3>3. QED BY <3>1, <3>2
  <2>3. ASSUME NEW i \in 1..Len(answers) - 1
        PROVE  shouldRetry(answers[i])
    <3>1. i \in 1..Len(answers) /\ i < Len(answers)
      BY <2>2
    <3>2. QED BY <3>1 DEF RetryInv
  <2>4. ASSUME result = "answered"
        PROVE  answers # << >> /\ (shouldRetry(answer) => Len(answers) = MaxAttempts)
    <3>1. pc = "returned" /\ Len(answers) = attempt /\ ~Again
      BY <2>4 DEF RetryInv
    <3>2. QED BY <2>2, <3>1 DEF Again
  <2>5. QED BY <2>3, <2>4 DEF ReturnsLastAnswer
<1>2. QED BY <1>1, RetryCorrect, PTL

\* No attempt sends a body an earlier one has used up.
THEOREM BodiesWhole == Spec => []WholeBodies
<1>1. RetryInv => WholeBodies
  BY DEF RetryInv
<1>2. QED BY <1>1, RetryCorrect, PTL
=============================================================================
