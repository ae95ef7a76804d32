----------------------------- MODULE SyncProofs -----------------------------
(***************************************************************************)
(* Proofs about module Sync, for any documents, runners, dates and names:  *)
(* it keeps its types; the watermark hides nothing that is owed, and       *)
(* nothing at all where the feed is ordered, the types to upload are the   *)
(* same for all and paperless-ngx consumes what it accepts; a run keeps    *)
(* its contract.                                                           *)
(***************************************************************************)
EXTENDS SyncInvariant, TLAPS

-----------------------------------------------------------------------------
(* The states a runner may come to hold are well-formed. *)

\* A run that is not going on: what Idle builds is a runner's state.
LEMMA IdleType ==
  ASSUME NEW o \in {"none", "ok", "error"}, NEW D \in SUBSET Docs
  PROVE  Idle(o, D) \in RunState
BY DEF Idle, Fresh, RunState, PCs, Zero, maxAttempts

\* Finishing a document, with or without an error, retrying a request and
\* returning from Run lead from a runner's state to a runner's state.
LEMMA StepTypes ==
  ASSUME NEW s \in RunState, NEW d \in Docs
  PROVE  /\ Done(s, d) \in RunState
         /\ Fail(s, d) \in RunState
         /\ Retry(s, d) \in RunState
         /\ Return(s) \in RunState
<1> USE SyncAssumption
<1>1. Fail(s, d) \in RunState
  BY DEF Fail, Passed, RunState, PCs, maxAttempts
<1>2. Done(s, d) \in RunState
  BY DEF Done, Passed, RunState, PCs, maxAttempts
<1>3. Retry(s, d) \in RunState
  BY <1>1 DEF Retry, RunState, PCs, maxAttempts
<1>4. Return(s) \in RunState
  BY IdleType DEF Return, RunState
<1>5. QED BY <1>1, <1>2, <1>3, <1>4

\* The field updates of the other steps keep a runner's state well-formed.
LEMMA UpdateTypes ==
  ASSUME NEW s \in RunState
  PROVE  /\ \A w \in Nat :
              [s EXCEPT !.pc = "loop", !.watermark = w, !.newest = w] \in RunState
         /\ \A d \in Docs :
              /\ [s EXCEPT !.todo = @ \ {d}] \in RunState
              /\ [s EXCEPT !.pc = "fetch", !.doc = d] \in RunState
         /\ [s EXCEPT !.pc = "upload", !.attempt = 1] \in RunState
<1>1. \A t \in RunState, p \in PCs : [t EXCEPT !.pc = p] \in RunState
  BY DEF RunState
<1>2. \A t \in RunState, w \in Nat : [t EXCEPT !.watermark = w] \in RunState
  BY DEF RunState
<1>3. \A t \in RunState, w \in Nat : [t EXCEPT !.newest = w] \in RunState
  BY DEF RunState
<1>4. \A t \in RunState, d \in Docs : [t EXCEPT !.doc = d] \in RunState
  BY DEF RunState
<1>5. \A t \in RunState : [t EXCEPT !.attempt = 1] \in RunState
  BY DEF RunState, maxAttempts
<1>6. {"loop", "fetch", "upload"} \subseteq PCs
  BY DEF PCs
<1>7. ASSUME NEW w \in Nat
      PROVE  [s EXCEPT !.pc = "loop", !.watermark = w, !.newest = w] \in RunState
  <2>1. [s EXCEPT !.pc = "loop", !.watermark = w, !.newest = w]
          = [[[s EXCEPT !.pc = "loop"] EXCEPT !.watermark = w] EXCEPT !.newest = w]
    BY DEF RunState
  <2>2. [[[s EXCEPT !.pc = "loop"] EXCEPT !.watermark = w] EXCEPT !.newest = w]
          \in RunState
    BY <1>1, <1>2, <1>3, <1>6
  <2>3. QED BY <2>1, <2>2
<1>8. ASSUME NEW d \in Docs
      PROVE  /\ [s EXCEPT !.todo = @ \ {d}] \in RunState
             /\ [s EXCEPT !.pc = "fetch", !.doc = d] \in RunState
  <2>1. [s EXCEPT !.todo = @ \ {d}] \in RunState
    BY DEF RunState
  <2>2. [s EXCEPT !.pc = "fetch", !.doc = d]
          = [[s EXCEPT !.pc = "fetch"] EXCEPT !.doc = d]
    BY DEF RunState
  <2>3. [[s EXCEPT !.pc = "fetch"] EXCEPT !.doc = d] \in RunState
    BY <1>1, <1>4, <1>6
  <2>4. QED BY <2>1, <2>2, <2>3
<1>9. [s EXCEPT !.pc = "upload", !.attempt = 1] \in RunState
  <2>1. [s EXCEPT !.pc = "upload", !.attempt = 1]
          = [[s EXCEPT !.pc = "upload"] EXCEPT !.attempt = 1]
    BY DEF RunState
  <2>2. [[s EXCEPT !.pc = "upload"] EXCEPT !.attempt = 1] \in RunState
    BY <1>1, <1>5, <1>6
  <2>3. QED BY <2>1, <2>2
<1>10. QED BY <1>7, <1>8, <1>9

\* What any step of a runner gives it is a runner's state, and the watermark
\* file still holds a date.
LEMMA RunnerTypes ==
  ASSUME TypeOK, NEW r \in Runners,
         BeginRun(r) \/ ListFails(r) \/ RunStep(r) \/ Crash(r)
  PROVE  run' \in [Runners -> RunState] /\ wfile' \in Nat
<1>1. run \in [Runners -> RunState] /\ run[r] \in RunState /\ wfile \in Nat
  BY DEF TypeOK
<1>2. ASSUME NEW s \in RunState, Become(r, s)
      PROVE  run' \in [Runners -> RunState]
  BY <1>1, <1>2 DEF Become
<1>3. CASE BeginRun(r)
  <2>1. PICK D \in SUBSET Docs : ListDocuments(r, D)
    BY <1>3 DEF BeginRun
  <2>2. Fresh("load", D, D, "none") \in RunState
    BY DEF Fresh, RunState, PCs, Zero, maxAttempts
  <2>3. QED BY <1>1, <1>2, <2>1, <2>2 DEF ListDocuments
<1>4. CASE ListFails(r) \/ Crash(r)
  BY <1>1, <1>2, <1>4, IdleType DEF ListFails, Crash
<1>5. CASE FileStep(r)
  <2>1. CASE LoadWatermark(r)
    <3>1. PICK w \in {wfile, Zero} :
            Become(r, [run[r] EXCEPT !.pc = "loop", !.watermark = w, !.newest = w])
      BY <2>1 DEF LoadWatermark
    <3>2. [run[r] EXCEPT !.pc = "loop", !.watermark = w, !.newest = w] \in RunState
      BY <1>1, <3>1, UpdateTypes DEF Zero
    <3>3. QED BY <1>1, <1>2, <2>1, <3>1, <3>2 DEF LoadWatermark
  <2>2. [run[r] EXCEPT !.pc = "save"] \in RunState
        /\ [run[r] EXCEPT !.pc = "write"] \in RunState
        /\ run[r].newest \in Nat
    BY <1>1 DEF RunState, PCs
  <2>3. Return(run[r]) \in RunState
    BY <1>1, IdleType DEF Return, RunState
  <2>4. CASE EndLoop(r)
    BY <1>1, <1>2, <2>2, <2>3, <2>4 DEF EndLoop
  <2>5. CASE TruncateWatermark(r)
    BY <1>2, <2>2, <2>5 DEF TruncateWatermark, Zero
  <2>6. CASE WriteWatermark(r)
    BY <1>2, <2>2, <2>3, <2>6 DEF WriteWatermark
  <2>7. CASE SaveFails(r)
    BY <1>1, <1>2, <2>3, <2>7 DEF SaveFails
  <2>8. QED BY <1>5, <2>1, <2>4, <2>5, <2>6, <2>7 DEF FileStep
<1>6. ASSUME NEW d \in Docs, DocStep(r, d)
      PROVE  run' \in [Runners -> RunState] /\ wfile' \in Nat
  <2>1. wfile' \in Nat
    BY <1>1, <1>6 DEF DocStep, SkipOlder, SkipType, SkipExisting, CheckMissing,
       CheckFails, DownloadDocument, DownloadFails, UploadAccepted,
       UploadReplyLost, UploadUnanswered, UploadRefused
  <2>2. /\ [run[r] EXCEPT !.todo = @ \ {d}] \in RunState
        /\ [run[r] EXCEPT !.pc = "fetch", !.doc = d] \in RunState
        /\ [run[r] EXCEPT !.pc = "upload", !.attempt = 1] \in RunState
    BY <1>1, UpdateTypes
  <2>3. /\ Done(run[r], d) \in RunState
        /\ Fail(run[r], d) \in RunState
        /\ Retry(run[r], d) \in RunState
    BY <1>1, StepTypes
  <2>4. \E s \in RunState : Become(r, s)
    BY <1>6, <2>2, <2>3 DEF DocStep, SkipOlder, SkipType, SkipExisting,
       CheckMissing, CheckFails, DownloadDocument, DownloadFails, UploadAccepted,
       UploadReplyLost, UploadUnanswered, UploadRefused
  <2>5. QED BY <1>2, <2>1, <2>4
<1>7. QED BY <1>3, <1>4, <1>5, <1>6 DEF RunStep
-----------------------------------------------------------------------------
(* Type correctness. *)

\* A runner never changes the inbox, and changes paperless-ngx only by having
\* a document accepted; some documents may become late when it lists them.
LEMMA RunnerFrame ==
  ASSUME NEW r \in Runners,
         BeginRun(r) \/ ListFails(r) \/ RunStep(r) \/ Crash(r)
  PROVE  /\ inbox' = inbox
         /\ \E S \in SUBSET inbox : late' = late \cup S
         /\ BeginRun(r) \/ late' = late
         /\ crashes' = crashes \/ (crashes < MaxCrashes /\ crashes' = crashes + 1)
         /\ UNCHANGED paperless \/ \E d \in Docs : Accept(d)
<1>1. CASE BeginRun(r)
  <2>1. PICK D \in SUBSET Docs : ListDocuments(r, D)
    BY <1>1 DEF BeginRun
  <2>2. OlderIn(inbox \ D, D) \in SUBSET inbox
    BY DEF OlderIn
  <2>3. QED BY <1>1, <2>1, <2>2 DEF ListDocuments
<1>2. CASE ListFails(r) \/ RunStep(r) \/ Crash(r)
  <2>1. /\ inbox' = inbox /\ late' = late
        /\ crashes' = crashes \/ (crashes < MaxCrashes /\ crashes' = crashes + 1)
        /\ UNCHANGED paperless \/ \E d \in Docs : Accept(d)
    BY <1>2 DEF ListFails, Crash, RunStep, FileStep, LoadWatermark, EndLoop,
       TruncateWatermark, WriteWatermark, SaveFails, DocStep, SkipOlder,
       SkipType, SkipExisting, CheckMissing, CheckFails, DownloadDocument,
       DownloadFails, UploadAccepted, UploadReplyLost, UploadUnanswered,
       UploadRefused
  <2>2. late' = late \cup {}
    BY <2>1
  <2>3. QED BY <2>1, <2>2
<1>3. QED BY <1>1, <1>2

\* No step of the bank, of paperless-ngx or of a runner leaves the types.
LEMMA TypeStep == TypeOK /\ [Next]_vars => TypeOK'
<1> SUFFICES ASSUME TypeOK, [Next]_vars PROVE TypeOK'
  OBVIOUS
<1> USE SyncAssumption DEF TypeOK
<1>1. CASE UNCHANGED vars
  BY <1>1 DEF vars
<1>2. ASSUME NEW d \in Docs, Arrive(d) \/ Consume(d) \/ DropQueued(d)
      PROVE  TypeOK'
  BY <1>2 DEF Arrive, Consume, DropQueued, paperless, OlderIn
<1>3. ASSUME NEW r \in Runners,
             BeginRun(r) \/ ListFails(r) \/ RunStep(r) \/ Crash(r)
      PROVE  TypeOK'
  <2>1. run' \in [Runners -> RunState] /\ wfile' \in Nat
    BY <1>3, RunnerTypes
  <2>2. /\ inbox' = inbox /\ late' \in SUBSET Docs
        /\ crashes' = crashes \/ (crashes < MaxCrashes /\ crashes' = crashes + 1)
        /\ UNCHANGED paperless \/ \E d \in Docs : Accept(d)
    BY <1>3, RunnerFrame
  <2>3. crashes' \in 0..MaxCrashes
    BY <2>2
  <2>4. ASSUME NEW d \in Docs, Accept(d)
        PROVE  /\ queued' \in SUBSET Docs
               /\ archived' \in SUBSET Docs
               /\ submissions' \in [Docs -> 0..MaxSubmissions]
    BY <2>4 DEF Accept
  <2>5. QED BY <2>1, <2>2, <2>3, <2>4 DEF paperless
<1>4. QED BY <1>1, <1>2, <1>3 DEF Next, Environment

\* Whatever the bank, paperless-ngx, crashes and other runners do, the state
\* stays well-formed; in particular no request is sent more than maxAttempts
\* times.
THEOREM TypeCorrect == Spec => []TypeOK
<1>1. Init => TypeOK
  BY SyncAssumption, IdleType DEF Init, TypeOK, Zero
<1>2. QED BY <1>1, TypeStep, PTL DEF Spec
-----------------------------------------------------------------------------
(* The watermark hides nothing that is owed. *)

\* More accepted documents, and more late ones, settle no less.
LEMMA SettledGrows ==
  ASSUME NEW r \in Runners, NEW d \in Docs, NEW L, NEW M, L \subseteq M,
         NEW S, NEW T, S \subseteq T, Settled(S, L, r, d)
  PROVE  Settled(T, M, r, d)
BY DEF Settled, Owed, CoveredBy

\* Where runs share a watermark, what one of them has settled is settled for
\* all: they owe the same.
LEMMA SettledForAll ==
  ASSUME HasWatermarkPath, NEW q \in Runners, NEW r \in Runners, NEW d \in Docs,
         NEW L, NEW S, Settled(S, L, r, d)
  PROVE  Settled(S, L, q, d)
BY DEF Settled, Owed, EveryoneWants

\* What holds of a mark or of a runner still holds when paperless-ngx has
\* accepted more documents and more are late.
LEMMA InvGrows ==
  ASSUME NEW I \in SUBSET Docs, NEW L, NEW M, L \subseteq M,
         NEW S, NEW T, S \subseteq T
  PROVE  /\ \A w \in Nat : SafeMark(w, I, L, S) => SafeMark(w, I, M, T)
         /\ \A r \in Runners, s \in RunState :
              RunnerInv(r, s, I, L, S) => RunnerInv(r, s, I, M, T)
<1>1. \A w \in Nat : SafeMark(w, I, L, S) => SafeMark(w, I, M, T)
  BY SettledGrows DEF SafeMark
<1>2. ASSUME NEW r \in Runners, NEW s \in RunState, RunnerInv(r, s, I, L, S)
      PROVE  RunnerInv(r, s, I, M, T)
  <2>1. s.watermark \in Nat /\ s.newest \in Nat /\ s.docs \in SUBSET Docs
    BY DEF RunState
  <2>2. SafeMark(s.watermark, I, M, T) /\ SafeMark(s.newest, I, M, T)
    BY <1>1, <1>2, <2>1 DEF RunnerInv
  <2>3. \A d \in s.docs \ s.todo : Settled(S, L, r, d) => Settled(T, M, r, d)
    BY <2>1, SettledGrows
  <2>4. LaterIsNewer(s, I, M)
    BY <1>2 DEF RunnerInv, LaterIsNewer
  <2>5. QED BY <1>2, <2>2, <2>3, <2>4 DEF RunnerInv
<1>3. QED BY <1>1, <1>2

\* A document may join the inbox if it is no older than what is there, or
\* counts as late.
LEMMA InvArrive ==
  ASSUME NEW I \in SUBSET Docs, NEW S, NEW d \in Docs, NEW L, NEW M, L \subseteq M,
         d \in M \/ \A e \in I : DateOf[e] <= DateOf[d]
  PROVE  /\ \A w \in Nat : SafeMark(w, I, L, S) => SafeMark(w, I \cup {d}, M, S)
         /\ \A r \in Runners, s \in RunState :
              RunnerInv(r, s, I, L, S) => RunnerInv(r, s, I \cup {d}, M, S)
<1> USE SyncAssumption
<1>1. ASSUME NEW w \in Nat, SafeMark(w, I, L, S)
      PROVE  SafeMark(w, I \cup {d}, M, S)
  <2>1. ASSUME HasWatermarkPath, NEW r \in Runners, DateOf[d] < w
        PROVE  Settled(S, M, r, d)
    <3>1. PICK e \in I : DateOf[e] = w
      BY <1>1, <2>1 DEF SafeMark, Zero
    <3>2. d \in M
      <4>1. DateOf[e] \in Nat /\ DateOf[d] \in Nat
        BY <3>1
      <4>2. DateOf[e] <= DateOf[d] => FALSE
        BY <2>1, <3>1, <4>1
      <4>3. QED BY <3>1, <4>2
    <3>3. QED BY <2>1, <3>2 DEF Settled, Owed
  <2>2. ASSUME HasWatermarkPath, NEW r \in Runners, NEW e \in I, DateOf[e] < w
        PROVE  Settled(S, M, r, e)
    BY <1>1, <2>2, SettledGrows DEF SafeMark
  <2>3. QED BY <1>1, <2>1, <2>2 DEF SafeMark
<1>2. ASSUME NEW r \in Runners, NEW s \in RunState, RunnerInv(r, s, I, L, S)
      PROVE  RunnerInv(r, s, I \cup {d}, M, S)
  <2>1. s.watermark \in Nat /\ s.newest \in Nat /\ s.docs \in SUBSET Docs
    BY DEF RunState
  <2>2. SafeMark(s.watermark, I \cup {d}, M, S) /\ SafeMark(s.newest, I \cup {d}, M, S)
    BY <1>1, <1>2, <2>1 DEF RunnerInv
  <2>3. LaterIsNewer(s, I \cup {d}, M)
    BY <1>2 DEF RunnerInv, LaterIsNewer
  <2>4. \A e \in s.docs \ s.todo : Settled(S, L, r, e) => Settled(S, M, r, e)
    BY <2>1, SettledGrows
  <2>5. QED BY <1>2, <2>2, <2>3, <2>4 DEF RunnerInv
<1>3. QED BY <1>1, <1>2

\* A runner outside Run, with nothing to show for it.
LEMMA IdleInv ==
  ASSUME NEW r \in Runners, NEW I \in SUBSET Docs, NEW L, NEW S,
         NEW o \in {"none", "error"}
  PROVE  RunnerInv(r, Idle(o, {}), I, L, S)
BY SyncAssumption DEF RunnerInv, Idle, Fresh, LaterIsNewer, SafeMark, Zero

\* The earliest document of a run may become the newest one the run has
\* accounted for, if nothing failed before it: older ones are either passed
\* and settled or, having appeared after the list was fetched, late.
LEMMA NewestIsSafe ==
  ASSUME NEW r \in Runners, NEW s \in RunState,
         NEW I \in SUBSET Docs, NEW L, NEW S, RunnerInv(r, s, I, L, S),
         s.outcome = "none", ~s.failed, NEW d \in Earliest(s.todo)
  PROVE  SafeMark(DateOf[d], I, L, S)
<1> USE SyncAssumption
<1>1. d \in s.todo /\ s.todo \subseteq s.docs /\ s.docs \subseteq I
  BY DEF Earliest, RunnerInv
<1>2. ASSUME HasWatermarkPath, NEW e \in I, DateOf[e] < DateOf[d]
      PROVE  Settled(S, L, r, e)
  <2>1. DateOf[e] \in Nat /\ DateOf[d] \in Nat
    BY <1>1
  <2>2. CASE e \in L
    BY <1>2, <2>2 DEF Settled, Owed
  <2>3. ASSUME e \notin s.docs PROVE e \in L
    BY <1>1, <1>2, <2>1, <2>3 DEF RunnerInv, LaterIsNewer
  <2>4. e \notin s.todo
    <3>1. e \in s.todo => DateOf[d] <= DateOf[e]
      BY DEF Earliest
    <3>2. QED BY <1>2, <2>1, <3>1
  <2>5. CASE e \in s.docs
    BY <2>4, <2>5 DEF RunnerInv
  <2>6. QED BY <2>2, <2>3, <2>5
<1>3. QED BY <1>1, <1>2, SettledForAll DEF SafeMark

\* A document that is settled may be passed.
LEMMA DoneInv ==
  ASSUME NEW r \in Runners, NEW s \in RunState,
         NEW I \in SUBSET Docs, NEW L, NEW S, RunnerInv(r, s, I, L, S),
         s.pc # "write", s.outcome = "none", NEW d \in Earliest(s.todo),
         Settled(S, L, r, d)
  PROVE  RunnerInv(r, Done(s, d), I, L, S)
<1> DEFINE t == Done(s, d)
<1>1. /\ t.pc = "loop" /\ t.docs = s.docs /\ t.todo = s.todo \ {d}
      /\ t.watermark = s.watermark /\ t.failed = s.failed
      /\ t.outcome = s.outcome
      /\ t.newest = IF ~s.failed /\ DateOf[d] > s.newest THEN DateOf[d] ELSE s.newest
  BY DEF Done, Passed
<1>2. SafeMark(t.newest, I, L, S)
  BY <1>1, NewestIsSafe DEF RunnerInv
<1>3. LaterIsNewer(t, I, L)
  BY <1>1 DEF RunnerInv, LaterIsNewer
<1>4. ~t.failed => \A e \in t.docs \ t.todo : Settled(S, L, r, e)
  BY <1>1 DEF RunnerInv
<1> HIDE DEF t
<1>5. RunnerInv(r, t, I, L, S)
  BY <1>1, <1>2, <1>3, <1>4 DEF RunnerInv
<1>6. QED BY <1>5 DEF t

\* A document that failed may be passed, for the run has failed with it.
LEMMA FailInv ==
  ASSUME NEW r \in Runners, NEW s \in RunState, NEW I \in SUBSET Docs, NEW L,
         NEW S, RunnerInv(r, s, I, L, S), s.outcome = "none", NEW d \in Docs
  PROVE  RunnerInv(r, Fail(s, d), I, L, S)
BY DEF RunnerInv, Fail, Passed, LaterIsNewer

\* A request that is repeated changes nothing else; its last failure is the
\* document's.
LEMMA RetryInv ==
  ASSUME NEW r \in Runners, NEW s \in RunState, NEW I \in SUBSET Docs, NEW L,
         NEW S, RunnerInv(r, s, I, L, S), s.outcome = "none", NEW d \in Docs
  PROVE  RunnerInv(r, Retry(s, d), I, L, S)
<1>1. RunnerInv(r, [s EXCEPT !.attempt = @ + 1], I, L, S)
  BY DEF RunnerInv, LaterIsNewer, RunState
<1>2. QED BY <1>1, FailInv DEF Retry

\* A run that has passed all its documents may return.
LEMMA ReturnInv ==
  ASSUME NEW r \in Runners, NEW s \in RunState, NEW I \in SUBSET Docs, NEW L,
         NEW S, RunnerInv(r, s, I, L, S), s.todo = {}, s.outcome = "none"
  PROVE  RunnerInv(r, Return(s), I, L, S)
BY SyncAssumption DEF RunnerInv, Return, Idle, Fresh, LaterIsNewer, SafeMark, Zero

\* One runner moves to s and no date it cannot trust gets into the file: the
\* invariant holds again.
LEMMA RunnerMoves ==
  ASSUME IInv, TypeOK', NEW r \in Runners, NEW s \in RunState, Become(r, s),
         inbox' = inbox, late \subseteq late', accepted \subseteq accepted',
         (queued \cup archived \subseteq accepted)',
         wfile' # Zero => HasWatermarkPath,
         SafeMark(wfile', inbox, late', accepted'),
         RunnerInv(r, s, inbox, late', accepted')
  PROVE  IInv'
<1>1. ASSUME NEW q \in Runners
      PROVE  RunnerInv(q, run'[q], inbox, late', accepted')
  <2>1. CASE q = r
    BY <2>1 DEF Become, IInv, TypeOK
  <2>2. CASE q # r
    <3>1. run'[q] = run[q] /\ run[q] \in RunState /\ inbox \in SUBSET Docs
      BY <2>2 DEF Become, IInv, TypeOK
    <3>2. RunnerInv(q, run[q], inbox, late, accepted)
      BY DEF IInv
    <3>3. QED BY <3>1, <3>2, InvGrows
  <2>3. QED BY <2>1, <2>2
<1>2. QED BY <1>1 DEF IInv

\* Accepting a document adds it to those accepted, and to no others.
LEMMA AcceptAdds ==
  ASSUME TypeOK, NEW d \in Docs, Accept(d), queued \cup archived \subseteq accepted
  PROVE  /\ accepted' = accepted \cup {d}
         /\ (queued \cup archived \subseteq accepted)'
<1>1. /\ submissions \in [Docs -> 0..MaxSubmissions]
      /\ submissions' = [submissions EXCEPT ![d] =
                           IF @ < MaxSubmissions THEN @ + 1 ELSE @]
  BY DEF TypeOK, Accept
<1>2. \A e \in Docs : submissions'[e] # 0 <=> submissions[e] # 0 \/ e = d
  BY <1>1, SyncAssumption
<1>3. accepted' = accepted \cup {d}
  BY <1>2 DEF accepted
<1>4. QED BY <1>3 DEF Accept

\* A step of one runner's work on one document keeps the invariant.
LEMMA DocStepInv ==
  ASSUME IInv, TypeOK', NEW r \in Runners, NEW d \in Docs,
         DocStep(r, d)
  PROVE  IInv'
<1> DEFINE s == run[r]
<1> USE SyncAssumption
<1>1. /\ s \in RunState /\ inbox \in SUBSET Docs /\ wfile \in Nat
      /\ RunnerInv(r, s, inbox, late, accepted)
      /\ SafeMark(wfile, inbox, late, accepted)
      /\ queued \cup archived \subseteq accepted
      /\ wfile # Zero => HasWatermarkPath
  BY DEF IInv, TypeOK
<1>2. inbox' = inbox /\ late' = late /\ wfile' = wfile
  BY DEF DocStep, SkipOlder, SkipType, SkipExisting, CheckMissing, CheckFails,
     DownloadDocument, DownloadFails, UploadAccepted, UploadReplyLost,
     UploadUnanswered, UploadRefused
<1>3. accepted \subseteq accepted' /\ (queued \cup archived \subseteq accepted)'
  <2>1. CASE Accept(d)
    BY <1>1, <2>1, AcceptAdds DEF IInv
  <2>2. CASE UNCHANGED paperless
    BY <1>1, <2>2 DEF paperless, accepted
  <2>3. QED BY <2>1, <2>2 DEF DocStep, SkipOlder, SkipType, SkipExisting,
           CheckMissing, CheckFails, DownloadDocument, DownloadFails,
           UploadAccepted, UploadReplyLost, UploadUnanswered, UploadRefused
<1>4. SafeMark(wfile', inbox, late, accepted') /\ RunnerInv(r, s, inbox, late, accepted')
  BY <1>1, <1>2, <1>3, InvGrows
<1>5. /\ Done(s, d) \in RunState /\ Fail(s, d) \in RunState
      /\ Retry(s, d) \in RunState
      /\ [s EXCEPT !.todo = @ \ {d}] \in RunState
      /\ [s EXCEPT !.pc = "fetch", !.doc = d] \in RunState
      /\ [s EXCEPT !.pc = "upload", !.attempt = 1] \in RunState
  BY <1>1, StepTypes, UpdateTypes
<1>6. s.pc \notin {"idle", "write"} /\ s.outcome = "none"
  BY <1>1 DEF DocStep, SkipOlder, SkipType, SkipExisting, CheckMissing, CheckFails,
     DownloadDocument, DownloadFails, UploadAccepted, UploadReplyLost,
     UploadUnanswered, UploadRefused, Considers, Uploading, RunnerInv
<1>7. ASSUME NEW t \in RunState, Become(r, t), RunnerInv(r, t, inbox, late, accepted')
      PROVE  IInv'
  BY <1>1, <1>2, <1>3, <1>4, <1>7, RunnerMoves
<1>8. ASSUME d \in Earliest(s.todo), Settled(accepted', late, r, d)
      PROVE  RunnerInv(r, Done(s, d), inbox, late, accepted')
  BY <1>1, <1>4, <1>6, <1>8, DoneInv
<1>9. RunnerInv(r, Fail(s, d), inbox, late, accepted')
  BY <1>1, <1>4, <1>6, FailInv
<1>10. RunnerInv(r, Retry(s, d), inbox, late, accepted')
  BY <1>1, <1>4, <1>6, RetryInv
<1>11. CASE SkipOlder(r, d)
  <2> DEFINE t == [s EXCEPT !.todo = @ \ {d}]
  <2>1. /\ d \in Earliest(s.todo) /\ s.pc = "loop"
        /\ DateOf[d] < s.watermark /\ HasWatermarkPath
    BY <1>1, <1>11 DEF SkipOlder, OlderThan, RunnerInv
  <2>2. Settled(accepted', late, r, d)
    BY <1>4, <2>1 DEF RunnerInv, SafeMark, Earliest
  <2>3. RunnerInv(r, t, inbox, late, accepted')
    BY <1>1, <1>4, <2>1, <2>2 DEF RunnerInv, LaterIsNewer, RunState
  <2>4. QED BY <1>5, <1>7, <1>11, <2>3 DEF SkipOlder
<1>12. CASE SkipType(r, d)
  <2>1. d \in Earliest(s.todo) /\ Settled(accepted', late, r, d)
    BY <1>12 DEF SkipType, Considers, Settled, Owed
  <2>2. QED BY <1>5, <1>7, <1>8, <1>12, <2>1 DEF SkipType
<1>13. CASE SkipExisting(r, d)
  <2>1. d \in Earliest(s.todo) /\ Settled(accepted, late, r, d)
    BY <1>1, <1>13 DEF SkipExisting, Considers, Settled, DocumentExists, CoveredBy
  <2>2. Settled(accepted', late, r, d)
    BY <1>3, <2>1, SettledGrows
  <2>3. QED BY <1>5, <1>7, <1>8, <1>13, <2>1, <2>2 DEF SkipExisting
<1>14. CASE CheckMissing(r, d)
  <2> DEFINE t == [s EXCEPT !.pc = "fetch", !.doc = d]
  <2>1. d \in Earliest(s.todo) /\ mimeTypeAllowed(r, d)
    BY <1>14 DEF CheckMissing, Considers
  <2>2. /\ t.pc = "fetch" /\ t.doc = d /\ t.docs = s.docs /\ t.todo = s.todo
        /\ t.watermark = s.watermark /\ t.newest = s.newest
        /\ t.failed = s.failed /\ t.outcome = s.outcome
    BY <1>1 DEF RunState
  <2>3. RunnerInv(r, t, inbox, late, accepted')
    BY <1>4, <1>6, <2>1, <2>2 DEF RunnerInv, LaterIsNewer
  <2>4. QED BY <1>5, <1>7, <1>14, <2>3 DEF CheckMissing
<1>15. CASE CheckFails(r, d)
  BY <1>5, <1>7, <1>9, <1>15 DEF CheckFails
<1>16. CASE DownloadDocument(r, d)
  <2> DEFINE t == [s EXCEPT !.pc = "upload", !.attempt = 1]
  <2>1. s.pc = "fetch"
    BY <1>16 DEF DownloadDocument
  <2>2. /\ t.pc = "upload" /\ t.doc = s.doc /\ t.docs = s.docs /\ t.todo = s.todo
        /\ t.watermark = s.watermark /\ t.newest = s.newest
        /\ t.failed = s.failed /\ t.outcome = s.outcome
    BY <1>1 DEF RunState
  <2>3. RunnerInv(r, t, inbox, late, accepted')
    BY <1>4, <1>6, <2>1, <2>2 DEF RunnerInv, LaterIsNewer
  <2>4. QED BY <1>5, <1>7, <1>16, <2>3 DEF DownloadDocument
<1>17. CASE DownloadFails(r, d)
  BY <1>5, <1>7, <1>9, <1>17 DEF DownloadFails
<1>18. CASE UploadAccepted(r, d)
  <2>1. d \in Earliest(s.todo)
    BY <1>1, <1>18 DEF UploadAccepted, Uploading, RunnerInv
  <2>2. Settled(accepted', late, r, d)
    BY <1>1, <1>18, AcceptAdds DEF UploadAccepted, Settled, CoveredBy, IInv
  <2>3. QED BY <1>5, <1>7, <1>8, <1>18, <2>1, <2>2 DEF UploadAccepted
<1>19. CASE UploadReplyLost(r, d)
  BY <1>5, <1>7, <1>9, <1>10, <1>19 DEF UploadReplyLost
<1>20. CASE UploadUnanswered(r, d)
  BY <1>5, <1>7, <1>10, <1>20 DEF UploadUnanswered
<1>21. CASE UploadRefused(r, d)
  BY <1>5, <1>7, <1>9, <1>21 DEF UploadRefused
<1>22. QED BY <1>11, <1>12, <1>13, <1>14, <1>15, <1>16, <1>17, <1>18, <1>19,
             <1>20, <1>21 DEF DocStep

\* So does starting a run, failing to, reading or writing the watermark file,
\* ending the loop, and being killed.
LEMMA RunStepInv ==
  ASSUME IInv, TypeOK', NEW r \in Runners,
         BeginRun(r) \/ ListFails(r) \/ RunStep(r) \/ Crash(r)
  PROVE  IInv'
<1> DEFINE s == run[r]
<1> USE SyncAssumption
<1>1. /\ s \in RunState /\ inbox \in SUBSET Docs /\ wfile \in Nat
      /\ RunnerInv(r, s, inbox, late, accepted)
      /\ SafeMark(wfile, inbox, late, accepted)
      /\ queued \cup archived \subseteq accepted
      /\ wfile # Zero => HasWatermarkPath
  BY DEF IInv, TypeOK
<1>2. SafeMark(Zero, inbox, late, accepted)
  BY <1>1 DEF SafeMark, Zero
<1>3. ASSUME NEW t \in RunState, Become(r, t), UNCHANGED <<inbox, late, paperless>>,
             wfile' # Zero => HasWatermarkPath,
             SafeMark(wfile', inbox, late, accepted), RunnerInv(r, t, inbox, late, accepted)
      PROVE  IInv'
  <2>1. accepted' = accepted /\ (queued \cup archived \subseteq accepted)'
    BY <1>1, <1>3 DEF accepted, paperless
  <2>2. QED BY <1>3, <2>1, RunnerMoves
<1>4. CASE BeginRun(r)
  <2>1. PICK D \in SUBSET Docs : ListDocuments(r, D)
    BY <1>4 DEF BeginRun
  <2> DEFINE t == Fresh("load", D, D, "none")
  <2>2. /\ D \subseteq inbox /\ late' = late \cup OlderIn(inbox \ D, D)
        /\ Become(r, t) /\ UNCHANGED <<inbox, paperless, wfile>>
    BY <2>1 DEF ListDocuments
  <2>3. t \in RunState
    BY DEF Fresh, RunState, PCs, Zero, maxAttempts
  <2>4. SafeMark(wfile, inbox, late', accepted) /\ SafeMark(Zero, inbox, late', accepted)
    <3>1. late \subseteq late' /\ accepted \subseteq accepted /\ Zero \in Nat
      BY <2>2 DEF Zero
    <3>2. QED BY <1>1, <1>2, <3>1, InvGrows
  <2>5. LaterIsNewer(t, inbox, late')
    <3>1. ASSUME NEW e \in inbox \ (D \cup late'), NEW f \in D
          PROVE  DateOf[f] <= DateOf[e]
      <4>1. ~(DateOf[e] < DateOf[f])
        BY <2>2, <3>1 DEF OlderIn
      <4>2. DateOf[e] \in Nat /\ DateOf[f] \in Nat
        BY <1>1
      <4>3. QED BY <4>1, <4>2
    <3>2. QED BY <3>1 DEF LaterIsNewer, Fresh
  <2>6. RunnerInv(r, t, inbox, late', accepted)
    BY <2>2, <2>4, <2>5 DEF RunnerInv, Fresh
  <2>7. accepted' = accepted /\ (queued \cup archived \subseteq accepted)'
    BY <1>1, <2>2 DEF accepted, paperless
  <2>8. QED BY <1>1, <2>2, <2>3, <2>4, <2>6, <2>7, RunnerMoves
<1>5. CASE ListFails(r) \/ Crash(r)
  <2>1. \A o \in {"none", "error"} :
          Idle(o, {}) \in RunState /\ RunnerInv(r, Idle(o, {}), inbox, late, accepted)
    BY <1>1, IdleType, IdleInv
  <2>2. QED BY <1>1, <1>3, <1>5, <2>1 DEF ListFails, Crash
<1>6. CASE LoadWatermark(r)
  <2>1. PICK w \in {wfile, Zero} :
          Become(r, [s EXCEPT !.pc = "loop", !.watermark = w, !.newest = w])
    BY <1>6 DEF LoadWatermark
  <2> DEFINE t == [s EXCEPT !.pc = "loop", !.watermark = w, !.newest = w]
  <2>2. /\ w \in Nat /\ SafeMark(w, inbox, late, accepted)
        /\ w # Zero => HasWatermarkPath
    BY <1>1, <1>2, <2>1 DEF Zero
  <2>3. t \in RunState
    BY <1>1, <2>2, UpdateTypes
  <2>4. /\ t.pc = "loop" /\ t.docs = s.docs /\ t.todo = s.todo
        /\ t.watermark = w /\ t.newest = w
        /\ t.failed = s.failed /\ t.outcome = s.outcome
    BY <1>1 DEF RunState
  <2>5. s.pc = "load"
    BY <1>6 DEF LoadWatermark
  <2>6. RunnerInv(r, t, inbox, late, accepted)
    BY <1>1, <2>2, <2>4, <2>5 DEF RunnerInv, LaterIsNewer
  <2>7. QED BY <1>1, <1>3, <1>6, <2>1, <2>3, <2>6 DEF LoadWatermark
<1>7. ASSUME s.todo = {}, s.pc # "idle"
      PROVE  Return(s) \in RunState /\ RunnerInv(r, Return(s), inbox, late, accepted)
  <2>1. Return(s) \in RunState
    BY <1>1, IdleType DEF Return, RunState
  <2>2. s.outcome = "none"
    BY <1>1, <1>7 DEF RunnerInv
  <2>3. QED BY <1>1, <1>7, <2>1, <2>2, ReturnInv
<1>8. CASE EndLoop(r)
  <2> DEFINE t == [s EXCEPT !.pc = "save"]
  <2>1. s.todo = {} /\ s.pc = "loop"
    BY <1>8 DEF EndLoop
  <2>2. t \in RunState /\ RunnerInv(r, t, inbox, late, accepted)
    BY <1>1, <2>1 DEF RunState, PCs, RunnerInv, LaterIsNewer
  <2>3. QED BY <1>1, <1>3, <1>7, <1>8, <2>1, <2>2 DEF EndLoop
<1>9. CASE TruncateWatermark(r)
  <2> DEFINE t == [s EXCEPT !.pc = "write"]
  <2>1. s.pc = "save" /\ HasWatermarkPath
    BY <1>9 DEF TruncateWatermark
  <2>2. t \in RunState /\ RunnerInv(r, t, inbox, late, accepted)
    BY <1>1, <2>1 DEF RunState, PCs, RunnerInv, LaterIsNewer
  <2>3. QED BY <1>2, <1>3, <1>9, <2>2 DEF TruncateWatermark
<1>10. CASE WriteWatermark(r)
  <2>1. s.pc = "write" /\ s.todo = {}
    BY <1>1, <1>10 DEF WriteWatermark, RunnerInv
  <2>2. SafeMark(s.newest, inbox, late, accepted) /\ HasWatermarkPath
    BY <1>1, <2>1 DEF RunnerInv
  <2>3. QED BY <1>3, <1>7, <1>10, <2>1, <2>2 DEF WriteWatermark
<1>11. CASE SaveFails(r)
  <2>1. s.pc # "idle" /\ s.todo = {}
    BY <1>1, <1>11 DEF SaveFails, RunnerInv
  <2>2. QED BY <1>1, <1>3, <1>7, <1>11, <2>1 DEF SaveFails
<1>12. ASSUME NEW d \in Docs, DocStep(r, d)
       PROVE  IInv'
  BY <1>12, DocStepInv
<1>13. QED BY <1>4, <1>5, <1>6, <1>8, <1>9, <1>10, <1>11, <1>12
           DEF RunStep, FileStep

\* The invariant is inductive, whatever the bank lists and paperless-ngx drops.
LEMMA IInvStep == IInv /\ [Next]_vars => IInv'
<1> SUFFICES ASSUME IInv, [Next]_vars PROVE IInv'
  OBVIOUS
<1> USE SyncAssumption
<1>1. TypeOK /\ TypeOK'
  BY TypeStep DEF IInv
<1>2. CASE UNCHANGED vars
  BY <1>2 DEF IInv, TypeOK, vars, accepted
<1>3. ASSUME NEW d \in Docs, Arrive(d)
      PROVE  IInv'
  <2>1. /\ inbox' = inbox \cup {d} /\ accepted' = accepted
        /\ UNCHANGED <<wfile, run, queued, archived>>
    BY <1>3 DEF Arrive, accepted, paperless
  <2>2. late \subseteq late'
    BY <1>3 DEF Arrive
  <2>3. inbox \in SUBSET Docs /\ wfile \in Nat /\ run \in [Runners -> RunState]
    BY <1>1 DEF TypeOK
  <2>4. d \in late' \/ \A e \in inbox : DateOf[e] <= DateOf[d]
    <3>1. \A e \in inbox : DateOf[e] \in Nat /\ DateOf[d] \in Nat
      BY <2>3
    <3>2. d \in late' \/ \A e \in inbox : ~(DateOf[d] < DateOf[e])
      BY <1>3 DEF Arrive, OlderIn
    <3>3. QED BY <3>1, <3>2
  <2>5. /\ \A w \in Nat : SafeMark(w, inbox, late, accepted) =>
             SafeMark(w, inbox', late', accepted)
        /\ \A r \in Runners, s \in RunState :
             RunnerInv(r, s, inbox, late, accepted) =>
               RunnerInv(r, s, inbox', late', accepted)
    BY <2>1, <2>2, <2>3, <2>4, InvArrive
  <2>6. QED BY <1>1, <2>1, <2>3, <2>5 DEF IInv
<1>4. ASSUME NEW d \in Docs, Consume(d) \/ DropQueued(d)
      PROVE  IInv'
  <2>1. accepted' = accepted /\ (queued \cup archived)' \subseteq queued \cup archived
    BY <1>4 DEF Consume, DropQueued, accepted
  <2>2. UNCHANGED <<inbox, late, wfile, run>>
    BY <1>4 DEF Consume, DropQueued
  <2>3. QED BY <1>1, <2>1, <2>2 DEF IInv
<1>5. ASSUME NEW r \in Runners,
             BeginRun(r) \/ ListFails(r) \/ RunStep(r) \/ Crash(r)
      PROVE  IInv'
  BY <1>1, <1>5, RunStepInv
<1>6. QED BY <1>2, <1>3, <1>4, <1>5 DEF Next, Environment

LEMMA IInvInit == Init => IInv
<1> SUFFICES ASSUME Init PROVE IInv
  OBVIOUS
<1> USE SyncAssumption
<1>1. TypeOK
  BY IdleType DEF Init, TypeOK, Zero
<1>2. SafeMark(wfile, inbox, late, accepted)
  BY DEF Init, SafeMark, Zero
<1>3. ASSUME NEW r \in Runners PROVE RunnerInv(r, run[r], inbox, late, accepted)
  BY IdleInv DEF Init
<1>4. QED BY <1>1, <1>2, <1>3 DEF IInv, Init, Zero

\* The invariant holds in every state, with no assumption on the bank, on the
\* types each runner wants or on the queue of paperless-ngx.
THEOREM InvariantHolds == Spec => []IInv
BY IInvInit, IInvStep, PTL DEF Spec

\* The saved watermark never hides a document that is owed and that
\* paperless-ngx has not accepted, whatever fails, crashes or runs at the same
\* time: a document everyone wants, unless it appeared behind a newer one.
THEOREM NothingOwedIsHidden == Spec => []WatermarkHidesNothingOwed
<1>1. IInv => WatermarkHidesNothingOwed
  <2> SUFFICES ASSUME IInv, NEW r \in Runners, NEW d \in inbox,
                      DateOf[d] < wfile, Owed(r, d, late)
               PROVE  CoveredBy(accepted, d)
    BY DEF WatermarkHidesNothingOwed
  <2>1. wfile # Zero
    BY SyncAssumption DEF Zero, IInv, TypeOK
  <2>2. QED BY <2>1 DEF IInv, SafeMark, Settled
<1>2. QED BY <1>1, InvariantHolds, PTL

-----------------------------------------------------------------------------
(* Where the feed is ordered and nothing is dropped, nothing is hidden. *)

\* Nothing is late and what paperless-ngx has accepted it still has.
NothingExcused == late = {} /\ accepted \subseteq queued \cup archived

\* No document appears behind a newer one in an ordered feed, and a queue that
\* loses nothing keeps what was accepted.
LEMMA NothingExcusedHolds ==
  ASSUME OrderedFeed, ~ConsumptionFails
  PROVE  Spec => []NothingExcused
<1> USE SyncAssumption
<1>1. Init => NothingExcused
  BY DEF Init, NothingExcused, accepted
<1>2. IInv /\ NothingExcused /\ [Next]_vars => NothingExcused'
  <2> SUFFICES ASSUME IInv, NothingExcused, [Next]_vars PROVE NothingExcused'
    OBVIOUS
  <2>1. TypeOK
    BY DEF IInv
  <2>2. CASE UNCHANGED vars
    BY <2>2 DEF vars, NothingExcused, accepted
  <2>3. ASSUME NEW d \in Docs, Arrive(d)
        PROVE  NothingExcused'
    <3>1. \A e \in inbox : ~(DateOf[d] < DateOf[e])
      <4>1. \A e \in inbox : DateOf[e] <= DateOf[d]
        BY <2>3 DEF Arrive, OrderedFeed
      <4>2. \A e \in inbox : DateOf[e] \in Nat /\ DateOf[d] \in Nat
        BY <2>1 DEF TypeOK
      <4>3. QED BY <4>1, <4>2
    <3>2. late' = late /\ UNCHANGED paperless
      BY <2>3, <3>1 DEF Arrive, OlderIn
    <3>3. QED BY <3>2 DEF NothingExcused, paperless, accepted
  <2>4. ASSUME NEW d \in Docs, Consume(d)
        PROVE  NothingExcused'
    BY <2>4 DEF Consume, NothingExcused, accepted
  <2>5. ASSUME NEW d \in Docs PROVE ~DropQueued(d)
    BY DEF DropQueued
  <2>6. ASSUME NEW r \in Runners,
               BeginRun(r) \/ ListFails(r) \/ RunStep(r) \/ Crash(r)
        PROVE  NothingExcused'
    <3>1. late' = late
      <4>1. ASSUME NEW D \in SUBSET Docs, ListDocuments(r, D)
            PROVE  late' = late
        BY <4>1 DEF ListDocuments, OrderedFeed, OlderIn
      <4>2. QED BY <2>6, <4>1, RunnerFrame DEF BeginRun
    <3>2. CASE UNCHANGED paperless
      BY <3>1, <3>2 DEF NothingExcused, paperless, accepted
    <3>3. ASSUME NEW d \in Docs, Accept(d)
          PROVE  NothingExcused'
      <4>1. accepted' = accepted \cup {d}
        BY <2>1, <3>3, AcceptAdds DEF IInv
      <4>2. QED BY <3>1, <3>3, <4>1 DEF NothingExcused, Accept
    <3>4. QED BY <2>6, <3>2, <3>3, RunnerFrame
  <2>7. QED BY <2>2, <2>3, <2>4, <2>5, <2>6 DEF Next, Environment
<1>3. QED BY <1>1, <1>2, InvariantHolds, PTL DEF Spec

\* With one list of types and nothing late, whoever wants a document owes it.
LEMMA WantedIsOwed ==
  ASSUME OneTypeList, NEW r \in Runners, NEW d \in Docs, mimeTypeAllowed(r, d)
  PROVE  Owed(r, d, {})
BY DEF OneTypeList, Owed, EveryoneWants, mimeTypeAllowed

\* The saved watermark never hides a document a runner still has to upload,
\* whatever fails, crashes or runs at the same time.
THEOREM WatermarkIsSound == Trustworthy /\ Spec => []WatermarkSound
<1>1. SUFFICES ASSUME Trustworthy PROVE Spec => []WatermarkSound
  OBVIOUS
<1>2. Spec => []NothingExcused
  BY <1>1, NothingExcusedHolds DEF Trustworthy
<1>3. IInv /\ NothingExcused /\ WatermarkHidesNothingOwed => WatermarkSound
  <2> SUFFICES ASSUME IInv, NothingExcused, WatermarkHidesNothingOwed,
                      NEW r \in Runners, NEW d \in inbox, DateOf[d] < wfile,
                      mimeTypeAllowed(r, d)
               PROVE  CoveredBy(queued \cup archived, d)
    BY DEF WatermarkSound, Accounted
  <2>1. Owed(r, d, late)
    BY <1>1, WantedIsOwed DEF Trustworthy, NothingExcused, IInv, TypeOK
  <2>2. CoveredBy(accepted, d)
    BY <2>1 DEF WatermarkHidesNothingOwed
  <2>3. QED BY <2>2 DEF NothingExcused, CoveredBy
<1>4. QED BY <1>2, <1>3, InvariantHolds, NothingOwedIsHidden, PTL

\* A run that reports success has nothing left to do for any document it
\* listed, the ones it never looked at included.
THEOREM SuccessIsTrue == Trustworthy /\ Spec => []SuccessIsComplete
<1>1. SUFFICES ASSUME Trustworthy PROVE Spec => []SuccessIsComplete
  OBVIOUS
<1>2. Spec => []NothingExcused
  BY <1>1, NothingExcusedHolds DEF Trustworthy
<1>3. IInv /\ NothingExcused => SuccessIsComplete
  <2> SUFFICES ASSUME IInv, NothingExcused, NEW r \in Runners,
                      run[r].outcome = "ok", NEW d \in run[r].docs,
                      mimeTypeAllowed(r, d)
               PROVE  CoveredBy(queued \cup archived, d)
    BY DEF SuccessIsComplete, Accounted
  <2>1. RunnerInv(r, run[r], inbox, late, accepted) /\ run[r] \in RunState
    BY DEF IInv, TypeOK
  <2>2. run[r].pc = "idle" /\ run[r].todo = {} /\ ~run[r].failed /\ d \in Docs
    BY <2>1 DEF RunnerInv, RunState
  <2>3. Owed(r, d, late)
    BY <1>1, <2>2, WantedIsOwed DEF Trustworthy, NothingExcused
  <2>4. CoveredBy(accepted, d)
    BY <2>1, <2>2, <2>3 DEF RunnerInv, Settled
  <2>5. QED BY <2>4 DEF NothingExcused, CoveredBy
<1>4. QED BY <1>2, <1>3, InvariantHolds, PTL

-----------------------------------------------------------------------------
(* The contract of a run. *)

\* What a step of one runner changes in the contract's view of it.
LEMMA ViewOfStep ==
  ASSUME TypeOK, NEW r \in Runners, NEW t, Become(r, t)
  PROVE  /\ listed' = [listed EXCEPT ![r] = t.docs]
         /\ state' = [state EXCEPT ![r] = IF t.pc = "idle" THEN t.outcome
                                                           ELSE "running"]
BY DEF TypeOK, Become, listed, state

\* Work on a document delivers it, or is not seen at all.
LEMMA DocStepRefines ==
  ASSUME IInv, NEW r \in Runners, NEW d \in Docs, DocStep(r, d)
  PROVE  Contract!Next \/ UNCHANGED <<inbox, excused, accepted, listed, state>>
<1> DEFINE s == run[r]
<1>1. s \in RunState /\ RunnerInv(r, s, inbox, late, accepted) /\ TypeOK
  BY DEF IInv, TypeOK
<1>2. inbox' = inbox /\ late' = late /\ excused' = excused
  BY DEF excused, DocStep, SkipOlder, SkipType, SkipExisting, CheckMissing,
     CheckFails, DownloadDocument, DownloadFails, UploadAccepted, UploadReplyLost,
     UploadUnanswered, UploadRefused
<1>3. s.pc # "idle"
  BY DEF DocStep, SkipOlder, SkipType, SkipExisting, CheckMissing, CheckFails,
     DownloadDocument, DownloadFails, UploadAccepted, UploadReplyLost,
     UploadUnanswered, UploadRefused, Considers, Uploading
<1>4. \E t : Become(r, t) /\ t.docs = s.docs /\ t.pc # "idle"
  <2>1. /\ Done(s, d).docs = s.docs /\ Done(s, d).pc # "idle"
        /\ Fail(s, d).docs = s.docs /\ Fail(s, d).pc # "idle"
    BY DEF Done, Fail, Passed
  <2>2. Retry(s, d).docs = s.docs /\ Retry(s, d).pc # "idle"
    BY <1>1, <1>3, <2>1 DEF Retry, RunState
  <2>3. /\ [s EXCEPT !.todo = @ \ {d}].docs = s.docs
        /\ [s EXCEPT !.todo = @ \ {d}].pc # "idle"
        /\ [s EXCEPT !.pc = "fetch", !.doc = d].docs = s.docs
        /\ [s EXCEPT !.pc = "fetch", !.doc = d].pc # "idle"
        /\ [s EXCEPT !.pc = "upload", !.attempt = 1].docs = s.docs
        /\ [s EXCEPT !.pc = "upload", !.attempt = 1].pc # "idle"
    BY <1>1, <1>3 DEF RunState
  <2>4. QED BY <2>1, <2>2, <2>3 DEF DocStep, SkipOlder, SkipType, SkipExisting,
           CheckMissing, CheckFails, DownloadDocument, DownloadFails,
           UploadAccepted, UploadReplyLost, UploadUnanswered, UploadRefused
<1>5. UNCHANGED <<listed, state>>
  <2>1. PICK t : Become(r, t) /\ t.docs = s.docs /\ t.pc # "idle"
    BY <1>4
  <2>2. /\ listed' = [listed EXCEPT ![r] = t.docs]
        /\ state' = [state EXCEPT ![r] = "running"]
    BY <1>1, <2>1, ViewOfStep
  <2>3. QED BY <1>3, <2>1, <2>2 DEF listed, state
<1>6. CASE UploadAccepted(r, d) \/ UploadReplyLost(r, d)
  <2>1. s.pc = "upload" /\ s.doc = d /\ Accept(d)
    BY <1>6 DEF UploadAccepted, UploadReplyLost, Uploading
  <2>2. d \in s.docs /\ mimeTypeAllowed(r, d)
    BY <1>1, <2>1 DEF RunnerInv, Earliest
  <2>3. accepted' = accepted \cup {d}
    BY <1>1, <2>1, AcceptAdds DEF IInv
  <2>4. Contract!Deliver(r, d)
    BY <1>2, <1>3, <1>5, <2>2, <2>3 DEF Contract!Deliver, listed, state, wanted
  <2>5. QED BY <2>4 DEF Contract!Next
<1>7. CASE UNCHANGED paperless
  BY <1>2, <1>5, <1>7 DEF paperless, accepted
<1>8. QED BY <1>6, <1>7 DEF DocStep, SkipOlder, SkipType, SkipExisting,
         CheckMissing, CheckFails, DownloadDocument, DownloadFails,
         UploadUnanswered, UploadRefused

\* Returning from Run is success or giving up, and success is deserved.
LEMMA ReturnRefines ==
  ASSUME IInv, NEW r \in Runners, Become(r, Return(run[r])),
         UNCHANGED <<inbox, late, paperless>>, run[r].pc # "idle", run[r].todo = {}
  PROVE  Contract!Next
<1> DEFINE s == run[r]
<1>1. s \in RunState /\ RunnerInv(r, s, inbox, late, accepted) /\ TypeOK
  BY DEF IInv, TypeOK
<1>2. /\ listed' = [listed EXCEPT ![r] = s.docs]
      /\ state' = [state EXCEPT ![r] = IF s.failed THEN "error" ELSE "ok"]
  BY <1>1, ViewOfStep DEF Return, Idle, Fresh
<1>3. listed' = listed /\ listed[r] = s.docs /\ state[r] = "running"
  BY <1>2 DEF listed, state
<1>4. inbox' = inbox /\ accepted' = accepted /\ excused' = excused
  BY DEF paperless, accepted, excused
<1>5. CASE s.failed
  <2>1. state' = [state EXCEPT ![r] = "error"] /\ listed' = [listed EXCEPT ![r] = listed[r]]
    BY <1>2, <1>3, <1>5
  <2>2. Contract!Stop(r)
    BY <1>4, <2>1 DEF Contract!Stop
  <2>3. QED BY <2>2 DEF Contract!Next
<1>6. CASE ~s.failed
  <2>1. \A d \in s.docs : Settled(accepted, late, r, d)
    BY <1>1, <1>6 DEF RunnerInv
  <2>2. ASSUME NEW d \in (listed[r] \cap promised[r]) \ excused
        PROVE  Contract!Covered(d)
    <3>1. d \in s.docs /\ d \in Docs /\ Owed(r, d, late)
      BY <1>3, <2>2 DEF promised, excused, Owed
    <3>2. CoveredBy(accepted, d)
      BY <2>1, <3>1 DEF Settled
    <3>3. QED BY <3>1, <3>2 DEF CoveredBy, covers, Contract!Covered, accepted
  <2>3. state' = [state EXCEPT ![r] = "ok"]
    BY <1>2, <1>6
  <2>4. Contract!Succeed(r)
    BY <1>3, <1>4, <2>2, <2>3 DEF Contract!Succeed
  <2>5. QED BY <2>4 DEF Contract!Next
<1>7. QED BY <1>5, <1>6

\* Every step is a step of the contract or none.
LEMMA StepRefines ==
  ASSUME IInv, [Next]_vars
  PROVE  [Contract!Next]_<<inbox, excused, accepted, listed, state>>
<1>1. TypeOK
  BY DEF IInv
<1>2. CASE UNCHANGED vars
  BY <1>2 DEF vars, accepted, listed, state, excused
<1>3. ASSUME NEW d \in Docs, Arrive(d)
      PROVE  Contract!Next
  <2> DEFINE passed == Contract!Passed({d}, inbox)
  <2>1. /\ d \notin inbox /\ inbox' = inbox \cup {d}
        /\ UNCHANGED <<accepted, listed, state>>
    BY <1>3 DEF Arrive, paperless, accepted, listed, state
  <2>2. excused' = excused \cup passed
    <3>1. \A e \in inbox : <<d, e>> \in behind <=>
                             HasWatermarkPath /\ DateOf[d] < DateOf[e]
      BY <1>1 DEF behind, TypeOK
    <3>2. CASE HasWatermarkPath /\ \E e \in inbox : DateOf[d] < DateOf[e]
      <4>1. passed = {d} /\ late' = late \cup {d}
        BY <1>3, <3>1, <3>2 DEF Arrive, OlderIn, Contract!Passed
      <4>2. QED BY <3>2, <4>1 DEF excused
    <3>3. CASE ~(HasWatermarkPath /\ \E e \in inbox : DateOf[d] < DateOf[e])
      <4>1. passed = {}
        BY <3>1, <3>3 DEF Contract!Passed
      <4>2. HasWatermarkPath => late' = late
        BY <1>3, <3>3 DEF Arrive, OlderIn
      <4>3. QED BY <4>1, <4>2 DEF excused
    <3>4. QED BY <3>2, <3>3
  <2>3. Contract!Arrive(d)
    BY <2>1, <2>2 DEF Contract!Arrive
  <2>4. QED BY <2>3 DEF Contract!Next
<1>4. ASSUME NEW d \in Docs, Consume(d) \/ DropQueued(d)
      PROVE  UNCHANGED <<inbox, excused, accepted, listed, state>>
  BY <1>4 DEF Consume, DropQueued, accepted, listed, state, excused
<1>5. ASSUME NEW r \in Runners, NEW D \in SUBSET Docs, ListDocuments(r, D)
      PROVE  Contract!Next
  <2>1. run[r].pc = "idle" /\ run[r] \in RunState
    BY <1>1, <1>5 DEF ListDocuments, TypeOK
  <2>2. state[r] # "running"
    BY <2>1 DEF state, RunState
  <2>3. /\ listed' = [listed EXCEPT ![r] = D]
        /\ state' = [state EXCEPT ![r] = "running"]
    BY <1>1, <1>5, ViewOfStep DEF ListDocuments, Fresh
  <2>4. excused' = excused \cup Contract!Passed(inbox \ D, D)
    <3>1. late' = late \cup OlderIn(inbox \ D, D)
      BY <1>5 DEF ListDocuments
    <3>2. Contract!Passed(inbox \ D, D)
            = IF HasWatermarkPath THEN OlderIn(inbox \ D, D) ELSE {}
      BY <1>1 DEF Contract!Passed, OlderIn, behind, TypeOK
    <3>3. QED BY <3>1, <3>2 DEF excused
  <2>5. /\ D \subseteq inbox
        /\ ListingSkips \/ D = inbox
        /\ UNCHANGED <<inbox, accepted>>
    BY <1>5 DEF ListDocuments, paperless, accepted
  <2>6. Contract!Begin(r, D)
    BY <2>2, <2>3, <2>4, <2>5 DEF Contract!Begin
  <2>7. QED BY <2>5, <2>6 DEF Contract!Next
<1>6. ASSUME NEW r \in Runners, ListFails(r) \/ Crash(r)
      PROVE  Contract!Next
  <2>1. PICK o \in {"error", "none"} : Become(r, Idle(o, {}))
    BY <1>6 DEF ListFails, Crash
  <2>2. /\ listed' = [listed EXCEPT ![r] = {}]
        /\ state' = [state EXCEPT ![r] = o]
    BY <1>1, <2>1, ViewOfStep DEF Idle, Fresh
  <2>3. UNCHANGED <<inbox, excused, accepted>>
    BY <1>6 DEF ListFails, Crash, paperless, accepted, excused
  <2>4. Contract!Stop(r)
    BY <2>2, <2>3 DEF Contract!Stop
  <2>5. QED BY <2>4 DEF Contract!Next
<1>7. ASSUME NEW r \in Runners, FileStep(r)
      PROVE  Contract!Next \/ UNCHANGED <<inbox, excused, accepted, listed, state>>
  <2>1. RunnerInv(r, run[r], inbox, late, accepted) /\ run[r] \in RunState
    BY DEF IInv, TypeOK
  <2>2. UNCHANGED <<inbox, late, paperless>> /\ run[r].pc # "idle"
    BY <1>7 DEF FileStep, LoadWatermark, EndLoop, TruncateWatermark,
       WriteWatermark, SaveFails
  <2>3. CASE Become(r, Return(run[r])) /\ run[r].todo = {}
    BY <2>2, <2>3, ReturnRefines
  <2>4. ASSUME NEW t, Become(r, t), t.docs = run[r].docs, t.pc # "idle"
        PROVE  UNCHANGED <<inbox, excused, accepted, listed, state>>
    <3>1. /\ listed' = [listed EXCEPT ![r] = t.docs]
          /\ state' = [state EXCEPT ![r] = "running"]
      BY <1>1, <2>4, ViewOfStep
    <3>2. QED BY <2>2, <2>4, <3>1 DEF listed, state, paperless, accepted, excused
  <2>5. CASE LoadWatermark(r)
    <3>1. PICK w \in {wfile, Zero} :
            Become(r, [run[r] EXCEPT !.pc = "loop", !.watermark = w, !.newest = w])
      BY <2>5 DEF LoadWatermark
    <3> DEFINE t == [run[r] EXCEPT !.pc = "loop", !.watermark = w, !.newest = w]
    <3>2. t.docs = run[r].docs /\ t.pc # "idle"
      BY <2>1 DEF RunState
    <3>3. QED BY <2>4, <3>1, <3>2
  <2>6. /\ [run[r] EXCEPT !.pc = "save"].docs = run[r].docs
        /\ [run[r] EXCEPT !.pc = "save"].pc # "idle"
        /\ [run[r] EXCEPT !.pc = "write"].docs = run[r].docs
        /\ [run[r] EXCEPT !.pc = "write"].pc # "idle"
    BY <2>1 DEF RunState
  <2>7. CASE EndLoop(r)
    BY <2>3, <2>4, <2>6, <2>7 DEF EndLoop
  <2>8. CASE TruncateWatermark(r)
    BY <2>4, <2>6, <2>8 DEF TruncateWatermark
  <2>9. CASE WriteWatermark(r) \/ SaveFails(r)
    <3>1. run[r].todo = {}
      BY <2>1, <2>9 DEF WriteWatermark, SaveFails, RunnerInv
    <3>2. QED BY <2>3, <2>9, <3>1 DEF WriteWatermark, SaveFails
  <2>10. QED BY <1>7, <2>5, <2>7, <2>8, <2>9 DEF FileStep
<1>8. QED BY <1>2, <1>3, <1>4, <1>5, <1>6, <1>7, DocStepRefines
          DEF Next, Environment, BeginRun, RunStep

\* A run keeps its contract, whatever the bank lists, the runners want and
\* paperless-ngx drops: the watermark changes how much a run looks at, and
\* what it may report as done only by what the contract excuses.
THEOREM SyncKeepsContract == Spec => KeepsContract
<1>1. Init => Contract!Init
  BY SyncAssumption DEF Init, Contract!Init, accepted, listed, state, excused, Idle,
     Fresh
<1>2. IInv /\ [Next]_vars
        => [Contract!Next]_<<inbox, excused, accepted, listed, state>>
  BY StepRefines
<1>3. QED BY <1>1, <1>2, InvariantHolds, PTL
          DEF Spec, KeepsContract, Contract!Spec, Contract!vars
=============================================================================
