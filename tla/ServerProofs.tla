---------------------------- MODULE ServerProofs ----------------------------
(***************************************************************************)
(* Proofs about module Server, for any banks, browsers and challenges.     *)
(***************************************************************************)
EXTENDS Server, TLAPS

\* What a step that turns the record of loop l into r does to the lock of its
\* bank: nothing, take it or give it up.
LockKept(l, r) ==
  \/ /\ authMu' = authMu
     /\ r.pc \in Holding <=> loop[l].pc \in Holding
     /\ r.pc \in Holding => r.bank = loop[l].bank
  \/ /\ authMu[loop[l].bank] = "free" /\ r.pc \in Holding /\ r.bank = loop[l].bank
     /\ loop[l].pc = "lock" /\ r.bank \in Banks
     /\ authMu' = [authMu EXCEPT ![loop[l].bank] = l]
  \/ /\ loop[l].pc \in Holding /\ r.pc \notin Holding
     /\ authMu' = [authMu EXCEPT ![loop[l].bank] = "free"]

\* ... and to the registry: nothing, as long as no open challenge is left
\* behind; or, holding the lock, clear it or publish in it.
RegistryKept(l, r) ==
  \/ /\ pending' = pending
     /\ loop[l].pc \in Open => r.pc \in Open /\ r.challenge = loop[l].challenge
     /\ r.pc # "reply"
  \/ /\ pending' = [pending EXCEPT ![loop[l].bank] = NoChallenge]
     /\ loop[l].pc \in Holding /\ r.pc # "reply"
  \/ /\ loop[l].pc \in Holding /\ r.pc \in Open /\ r.bank = loop[l].bank
     /\ r.challenge \in Challenges
     /\ \E needsInput \in BOOLEAN :
          /\ pending' = [pending EXCEPT ![loop[l].bank] =
                           [id |-> r.challenge, needsInput |-> needsInput]]
          /\ r.pc = "reply" => needsInput

\* ... and to its challenge: it keeps it, drops it, or has a new one.
ChallengeKept(l, r) ==
  r.challenge # None =>
    \/ r.challenge = loop[l].challenge /\ r.bank = loop[l].bank
    \/ r.challenge \notin InUse

\* A step of one loop that treats lock, registry and challenge like that keeps
\* the invariant.
LEMMA LocalStep ==
  ASSUME ServerAssumption, ServerInv, NEW l \in Loops, NEW r \in LoopStates,
         loop' = [loop EXCEPT ![l] = r],
         r.pc \in Holding \cup {"lock", "run"} => r.bank \in Banks,
         LockKept(l, r), RegistryKept(l, r), ChallengeKept(l, r),
         replied' \in SUBSET Challenges,
         UNCHANGED <<browser, cancelled>>
  PROVE  ServerInv'
<1> DEFINE Entries == [id : Challenges, needsInput : BOOLEAN] \cup {NoChallenge}
<1>1. /\ loop \in [Loops -> LoopStates] /\ authMu \in [Banks -> Loops \cup {"free"}]
      /\ pending \in [Banks -> Entries]
      /\ \A b \in Banks, d \in Loops :
           authMu[b] = d <=> loop[d].bank = b /\ loop[d].pc \in Holding
      /\ \A d \in Loops : loop[d].pc \in Holding \cup {"lock", "run"} => loop[d].bank \in Banks
      /\ "free" \notin Loops
  BY DEF ServerInv, TypeOK, bank, Loops
<1>2. loop' \in [Loops -> LoopStates] /\ loop'[l] = r
      /\ \A d \in Loops \ {l} : loop'[d] = loop[d]
  BY <1>1
<1>3. loop[l].pc \in Holding => loop[l].bank \in Banks /\ authMu[loop[l].bank] = l
  BY <1>1
<1>4. authMu' \in [Banks -> Loops \cup {"free"}]
  BY <1>1 DEF LockKept
<1>5. \A b \in Banks, d \in Loops :
        authMu'[b] = d <=> loop'[d].bank = b /\ loop'[d].pc \in Holding
  BY <1>1, <1>2, <1>3 DEF LockKept
<1>6. /\ \/ pending' = pending
         \/ /\ loop[l].pc \in Holding
            /\ \E v \in Entries : pending' = [pending EXCEPT ![loop[l].bank] = v]
      /\ pending' \in [Banks -> Entries]
  <2>1. NoChallenge \in Entries
    OBVIOUS
  <2>2. \A k \in Challenges, n \in BOOLEAN : [id |-> k, needsInput |-> n] \in Entries
    OBVIOUS
  <2> HIDE DEF Entries
  <2>3. \/ pending' = pending
        \/ /\ loop[l].pc \in Holding
           /\ \E v \in Entries : pending' = [pending EXCEPT ![loop[l].bank] = v]
    BY <2>1, <2>2 DEF RegistryKept
  <2>4. QED BY <1>1, <2>3
<1>7. TypeOK'
  <2>1. \A d \in Loops : loop'[d].pc \in Holding \cup {"lock", "run"} => loop'[d].bank \in Banks
    BY <1>1, <1>2
  <2>2. QED BY <1>2, <1>4, <1>5, <1>6, <2>1 DEF ServerInv, TypeOK, bank
<1>8. ASSUME NEW d \in Loops, loop'[d].pc = "reply"
      PROVE  pending'[loop'[d].bank] = [id |-> loop'[d].challenge, needsInput |-> TRUE]
  <2>1. CASE d = l
    <3>1. loop[l].pc \in Holding /\ r.bank = loop[l].bank /\ r.pc = "reply"
          /\ pending' = [pending EXCEPT ![loop[l].bank] =
                           [id |-> r.challenge, needsInput |-> TRUE]]
      BY <1>2, <1>8, <2>1 DEF RegistryKept
    <3>2. QED BY <1>1, <1>2, <1>3, <2>1, <3>1
  <2>2. CASE d # l
    <3>1. loop'[d] = loop[d] /\ loop[d].pc \in Holding
      BY <1>2, <1>8, <2>2 DEF Holding
    <3>2. pending[loop[d].bank] = [id |-> loop[d].challenge, needsInput |-> TRUE]
      BY <1>8, <3>1 DEF ServerInv, WaitingIsReachable, At, bank, challenge
    <3>3. loop[l].pc \in Holding => loop[d].bank # loop[l].bank
      BY <1>1, <1>3, <2>2, <3>1
    <3>4. loop[d].bank \in Banks
      BY <1>1, <3>1
    <3>5. pending'[loop[d].bank] = pending[loop[d].bank]
      BY <1>1, <1>6, <3>3, <3>4
    <3>6. QED BY <3>1, <3>2, <3>5
  <2>3. QED BY <2>1, <2>2
<1>9. ASSUME NEW b \in Banks, pending'[b] # NoChallenge
      PROVE  \E d \in Loops : /\ authMu'[b] = d /\ loop'[d].pc \in Open
                              /\ loop'[d].challenge = pending'[b].id
  <2>1. Open \subseteq Holding
    BY DEF Open, Holding
  <2>2. CASE loop[l].pc \in Holding /\ loop[l].bank = b
    <3>1. pending' = pending => loop[l].pc \in Open /\ loop[l].challenge = pending[b].id
      BY <1>1, <1>3, <1>9, <2>2 DEF ServerInv, challenge
    <3>2. r.pc \in Open /\ r.bank = b
      BY <1>1, <1>3, <1>9, <2>1, <2>2, <3>1 DEF RegistryKept, LockKept
    <3>3. r.challenge = pending'[b].id
      BY <1>1, <1>3, <1>9, <2>2, <3>1 DEF RegistryKept
    <3>4. QED BY <1>2, <1>5, <2>1, <3>2, <3>3
  <2>3. CASE ~(loop[l].pc \in Holding /\ loop[l].bank = b)
    <3>1. pending'[b] = pending[b]
      BY <1>1, <1>6, <2>3
    <3>2. PICK d \in Loops : /\ authMu[b] = d /\ loop[d].pc \in Open
                             /\ loop[d].challenge = pending[b].id
      BY <1>9, <3>1 DEF ServerInv, challenge
    <3>3. d # l
      BY <1>1, <2>1, <2>3, <3>2
    <3>4. QED BY <1>1, <1>2, <1>5, <2>1, <3>1, <3>2, <3>3
  <2>4. QED BY <2>2, <2>3
<1>10. \A d \in Loops : loop[d].challenge \in InUse
  BY DEF InUse, challenge
<1>11. ASSUME NEW d \in Loops, NEW m \in Loops, d # m, loop'[d].challenge # None
       PROVE  loop'[d].challenge # loop'[m].challenge
  <2>1. \A a, b \in Loops : a # b /\ loop[a].challenge # None =>
          loop[a].challenge # loop[b].challenge
    BY DEF ServerInv, challenge
  <2>2. QED BY <1>2, <1>10, <1>11, <2>1 DEF ChallengeKept
<1>12. ASSUME NEW w \in Browsers, NEW d \in Loops, browser[w].pc = "page",
              loop'[d].challenge = browser[w].target
       PROVE  loop'[d].bank = browser[w].bank
  <2>1. browser[w].target \in Challenges /\ browser[w].target \in InUse
    BY <1>12 DEF ServerInv, TypeOK, InUse
  <2>2. loop[d].challenge = browser[w].target /\ loop'[d].bank = loop[d].bank
    BY <1>2, <1>12, <2>1, ServerAssumption DEF ChallengeKept
  <2>3. QED BY <1>12, <2>2 DEF ServerInv, bank, challenge
<1>13. QED
  BY <1>7, <1>8, <1>9, <1>11, <1>12 DEF ServerInv, WaitingIsReachable, At, bank, challenge

\* What a loop becomes is well-formed.
LEMMA BecomesLoop ==
  ASSUME TypeOK, NEW l \in Loops, NEW pc \in PCs, NEW b \in Banks \cup {NoBank},
         NEW todo \in SUBSET Banks, NEW k \in Challenges \cup {None}, NEW ok \in BOOLEAN,
         Becomes(l, pc, b, todo, k, ok),
         pc \in Holding \cup {"lock", "run"} => b \in Banks
  PROVE  /\ loop' = [loop EXCEPT ![l] = loop'[l]]
         /\ loop'[l] \in LoopStates
         /\ loop'[l].pc = pc
         /\ loop'[l].bank = b
         /\ loop'[l].challenge = k
         /\ loop'[l].pc \in Holding \cup {"lock", "run"} => loop'[l].bank \in Banks
<1>1. loop'[l] = [pc |-> pc, bank |-> b, todo |-> todo, challenge |-> k, ok |-> ok]
  BY DEF Becomes, TypeOK
<1>2. loop'[l] \in LoopStates
  BY <1>1 DEF LoopStates
<1>3. loop' = [loop EXCEPT ![l] = loop'[l]]
  BY <1>1 DEF Becomes
<1>4. QED BY <1>1, <1>2, <1>3

\* Every step of a loop keeps the invariant.
LEMMA LoopKeeps ==
  ASSUME ServerAssumption, ServerInv, NEW l \in Loops, LoopStep(l)
  PROVE  ServerInv'
<1> DEFINE s == loop[l]
           r == loop'[l]
           Local == /\ loop' = [loop EXCEPT ![l] = r]
                    /\ r \in LoopStates
                    /\ r.pc \in Holding \cup {"lock", "run"} => r.bank \in Banks
<1>1. /\ TypeOK /\ s \in LoopStates /\ s.bank \in Banks \cup {NoBank}
      /\ s.todo \in SUBSET Banks /\ s.challenge \in Challenges \cup {None}
      /\ s.ok \in BOOLEAN /\ s.pc \in PCs
      /\ s.pc \in Holding \cup {"lock", "run"} => s.bank \in Banks
      /\ replied \in SUBSET Challenges
  BY DEF ServerInv, TypeOK, LoopStates, bank
<1>2. ASSUME Local, LockKept(l, r), RegistryKept(l, r), ChallengeKept(l, r),
             replied' \in SUBSET Challenges,
             UNCHANGED <<browser, cancelled>>
      PROVE  ServerInv'
  BY <1>2, LocalStep
<1>3. ASSUME NEW pc \in PCs, NEW k \in Challenges \cup {None}, NEW ok \in BOOLEAN,
             Goes(l, pc, k, ok), s.pc \in Holding \cup {"lock", "run"}
      PROVE  Local /\ r.pc = pc /\ r.bank = s.bank /\ r.challenge = k
  <2>1. Becomes(l, pc, s.bank, s.todo, k, ok)
    BY <1>3 DEF Goes, bank
  <2>2. s.bank \in Banks /\ s.bank \in Banks \cup {NoBank} /\ s.todo \in SUBSET Banks
    BY <1>1, <1>3
  <2>3. QED BY <1>1, <2>1, <2>2, BecomesLoop
<1>4. ASSUME NEW todo \in SUBSET Banks, Ranges(l, todo)
      PROVE  Local /\ r.pc = "next" /\ r.challenge = None
  <2>1. "next" \in PCs /\ "next" \notin Holding \cup {"lock", "run"}
    BY DEF PCs, Holding
  <2>2. QED BY <1>1, <1>4, <2>1, BecomesLoop DEF Ranges
<1>5. None \in Challenges \cup {None} /\ Holding \subseteq PCs /\ TRUE \in BOOLEAN /\ FALSE \in BOOLEAN
      /\ {"stopped", "idle", "lock", "run"} \subseteq PCs
      /\ Holding = {"check", "login", "reply", "answered", "given up", "poll", "finish",
                    "clear", "unlock"}
  BY DEF PCs, Holding
<1> HIDE DEF Local
<1>6. CASE Tick(l) \/ SyncRun(l)
  <2>1. \E todo \in SUBSET Banks : Ranges(l, todo)
    BY <1>1, <1>6 DEF Tick, SyncRun
  <2>2. Local /\ r.pc = "next" /\ r.challenge = None
    BY <1>4, <2>1
  <2>3. s.pc \in {"idle", "run"} /\ UNCHANGED <<authMu, pending, replied, browser, cancelled>>
       
    BY <1>1, <1>6 DEF Tick, SyncRun, At, ui
  <2>4. LockKept(l, r) /\ RegistryKept(l, r) /\ ChallengeKept(l, r)
    BY <2>2, <2>3 DEF LockKept, RegistryKept, ChallengeKept, Holding, Open
  <2>5. QED BY <1>1, <1>2, <2>2, <2>3, <2>4
<1>7. CASE Stop(l) \/ EndOfRange(l) \/ \E b \in Banks : NextBank(l, b)
  <2>1. {} \in SUBSET Banks /\ \A b \in Banks : s.todo \ {b} \in SUBSET Banks
    BY <1>1
  <2>2. Local /\ r.pc \in {"stopped", "idle", "lock"} /\ r.challenge = None
    <3>1. CASE Stop(l)
      BY <1>1, <1>5, <2>1, <3>1, BecomesLoop DEF Stop, Local
    <3>2. CASE EndOfRange(l)
      BY <1>1, <1>5, <2>1, <3>2, BecomesLoop DEF EndOfRange, Local
    <3>3. ASSUME NEW b \in Banks, NextBank(l, b)
          PROVE  Local /\ r.pc = "lock" /\ r.challenge = None
      <4>1. Becomes(l, "lock", b, s.todo \ {b}, None, FALSE)
        BY <3>3 DEF NextBank
      <4>2. b \in Banks \cup {NoBank} /\ s.todo \ {b} \in SUBSET Banks /\ "lock" \in PCs
        BY <1>5, <2>1
      <4>3. /\ loop' = [loop EXCEPT ![l] = r] /\ r \in LoopStates
            /\ r.pc = "lock" /\ r.bank = b /\ r.challenge = None
        BY <1>1, <1>5, <3>3, <4>1, <4>2, BecomesLoop
      <4>4. QED BY <3>3, <4>3 DEF Local
    <3>4. QED BY <1>7, <3>1, <3>2, <3>3
  <2>3. s.pc \in {"idle", "next"}
        /\ UNCHANGED <<authMu, pending, replied, browser, cancelled>>
    BY <1>7 DEF Stop, EndOfRange, NextBank, At, ui
  <2>4. LockKept(l, r) /\ RegistryKept(l, r) /\ ChallengeKept(l, r)
    BY <2>2, <2>3 DEF LockKept, RegistryKept, ChallengeKept, Holding, Open
  <2>5. QED BY <1>1, <1>2, <2>2, <2>3, <2>4
<1>8. CASE Lock(l)
  <2>1. Local /\ r.pc = "check" /\ r.bank = s.bank /\ r.challenge = None
    BY <1>3, <1>5, <1>8 DEF Lock, At
  <2>2. s.pc = "lock" /\ authMu[s.bank] = "free" /\ authMu' = [authMu EXCEPT ![s.bank] = l]
        /\ UNCHANGED <<pending, replied, browser, cancelled>>
    BY <1>8 DEF Lock, At, bank, ui
  <2>3. LockKept(l, r) /\ RegistryKept(l, r) /\ ChallengeKept(l, r)
    BY <1>1, <2>1, <2>2 DEF LockKept, RegistryKept, ChallengeKept, Holding, Open
  <2>4. QED BY <1>1, <1>2, <2>1, <2>2, <2>3
<1>9. CASE StartLogin(l) \/ LoginRejected(l) \/ \E ok \in BOOLEAN : Ensured(l, ok)
  <2>1. \E pc \in {"login", "clear", "unlock"}, ok \in BOOLEAN : Goes(l, pc, None, ok)
    BY <1>9 DEF StartLogin, LoginRejected, Ensured
  <2>2. s.pc \in {"check", "login"}
    BY <1>9 DEF StartLogin, LoginRejected, Ensured, At
  <2>3. Local /\ r.bank = s.bank /\ r.pc \in {"login", "clear", "unlock"} /\ r.challenge = None
    BY <1>3, <1>5, <2>1, <2>2
  <2>4. s.pc \in {"check", "login"}
        /\ UNCHANGED <<authMu, pending, replied, browser, cancelled>>
    BY <1>9 DEF StartLogin, LoginRejected, Ensured, At, ui
  <2>5. LockKept(l, r) /\ RegistryKept(l, r) /\ ChallengeKept(l, r)
    BY <2>3, <2>4 DEF LockKept, RegistryKept, ChallengeKept, Holding, Open
  <2>6. QED BY <1>1, <1>2, <2>3, <2>4, <2>5
<1>10. CASE Unlock(l)
  <2>1. Local /\ r.pc \in {"run", "next"} /\ r.challenge = None
    <3>1. s.pc = "unlock" /\ (Goes(l, "run", None, FALSE) \/ Ranges(l, s.todo))
      BY <1>10 DEF Unlock, At
    <3>2. QED BY <1>1, <1>3, <1>4, <1>5, <3>1
  <2>2. s.pc = "unlock" /\ authMu' = [authMu EXCEPT ![s.bank] = "free"]
        /\ UNCHANGED <<pending, replied, browser, cancelled>>
    BY <1>1, <1>10 DEF Unlock, At, bank, ui, Holding
  <2>3. LockKept(l, r) /\ RegistryKept(l, r) /\ ChallengeKept(l, r)
    BY <2>1, <2>2 DEF LockKept, RegistryKept, ChallengeKept, Holding, Open
  <2>4. QED BY <1>1, <1>2, <2>1, <2>2, <2>3
<1>11. ASSUME NEW n \in BOOLEAN, Handle(l, n)
       PROVE  ServerInv'
  <2>1. NewChallenge \in Challenges /\ NewChallenge \notin InUse
    BY <1>11 DEF Handle, NewChallenge
  <2>2. Local /\ r.bank = s.bank /\ r.pc = (IF n THEN "reply" ELSE "poll")
        /\ r.challenge = NewChallenge
    BY <1>3, <1>5, <1>11, <2>1 DEF Handle, At
  <2>3. s.pc = "login" /\ replied' \in SUBSET Challenges
        /\ pending' = [pending EXCEPT ![s.bank] = [id |-> NewChallenge, needsInput |-> n]]
        /\ UNCHANGED <<authMu, browser, cancelled>>
    BY <1>1, <1>11 DEF Handle, At, bank
  <2>4. LockKept(l, r) /\ RegistryKept(l, r) /\ ChallengeKept(l, r)
    BY <2>1, <2>2, <2>3 DEF LockKept, RegistryKept, ChallengeKept, Holding, Open
  <2>5. QED BY <1>1, <1>2, <2>2, <2>3, <2>4
<1>12. CASE Receive(l) \/ GiveUp(l) \/ PushApproved(l) \/ PollEnds(l)
            \/ \E ok \in BOOLEAN : FinishLogin(l, ok)
  <2>1. \E pc \in {"answered", "given up", "finish", "clear"}, ok \in BOOLEAN :
          Goes(l, pc, s.challenge, ok)
    BY <1>12 DEF Receive, GiveUp, PushApproved, PollEnds, FinishLogin, challenge
  <2>2. s.pc \in {"reply", "poll", "finish"}
    BY <1>12 DEF Receive, GiveUp, PushApproved, PollEnds, FinishLogin, At
  <2>3. Local /\ r.bank = s.bank /\ r.pc \in {"answered", "given up", "finish", "clear"}
        /\ r.challenge = s.challenge
    <3>1. PICK pc \in {"answered", "given up", "finish", "clear"}, ok \in BOOLEAN :
            Goes(l, pc, s.challenge, ok)
      BY <2>1
    <3>2. pc \in PCs /\ s.pc \in Holding /\ s.challenge \in Challenges \cup {None}
      BY <1>1, <1>5, <2>2
    <3>3. QED BY <1>3, <3>1, <3>2
  <2>4. s.pc \in {"reply", "poll", "finish"} /\ replied' \in SUBSET Challenges
        /\ UNCHANGED <<authMu, pending, browser, cancelled>>
    BY <1>1, <1>12 DEF Receive, GiveUp, PushApproved, PollEnds, FinishLogin, At, ui
  <2>5. LockKept(l, r) /\ RegistryKept(l, r) /\ ChallengeKept(l, r)
    BY <2>3, <2>4 DEF LockKept, RegistryKept, ChallengeKept, Holding, Open
  <2>6. QED BY <1>1, <1>2, <2>3, <2>4, <2>5
<1>13. CASE HandleReturns(l) \/ Clear(l)
  <2>1. \E pc \in {"finish", "clear", "unlock"}, k \in {s.challenge, None}, ok \in BOOLEAN :
          Goes(l, pc, k, ok)
    BY <1>1, <1>13 DEF HandleReturns, Clear, challenge
  <2>2. s.pc \in {"answered", "given up", "clear"}
    BY <1>13 DEF HandleReturns, Clear, At
  <2>3. Local /\ r.bank = s.bank /\ r.pc \in {"finish", "clear", "unlock"}
        /\ r.challenge \in {s.challenge, None}
    <3>1. PICK pc \in {"finish", "clear", "unlock"}, k \in {s.challenge, None},
               ok \in BOOLEAN : Goes(l, pc, k, ok)
      BY <2>1
    <3>2. pc \in PCs /\ s.pc \in Holding /\ k \in Challenges \cup {None}
      BY <1>1, <1>5, <2>2
    <3>3. QED BY <1>3, <3>1, <3>2
  <2>4. s.pc \in {"answered", "given up", "clear"}
        /\ pending' = [pending EXCEPT ![s.bank] = NoChallenge]
        /\ UNCHANGED <<authMu, replied, browser, cancelled>>
    BY <1>13 DEF HandleReturns, Clear, Cleared, At, bank
  <2>5. LockKept(l, r) /\ RegistryKept(l, r) /\ ChallengeKept(l, r)
    BY <2>3, <2>4 DEF LockKept, RegistryKept, ChallengeKept, Holding, Open
  <2>6. QED BY <1>1, <1>2, <2>3, <2>4, <2>5
<1>14. QED
  BY <1>6, <1>7, <1>8, <1>9, <1>10, <1>11, <1>12, <1>13 DEF LoopStep, Proceed, Login

\* No step of a browser disturbs it.
LEMMA BrowserKeeps ==
  ASSUME ServerAssumption, ServerInv, NEW w \in Browsers, BrowserStep(w)
  PROVE  ServerInv'
<1>1. UNCHANGED <<loop, authMu, pending, cancelled>>
  BY DEF BrowserStep, Get, Lookup, Send
<1>2. /\ pending \in [Banks -> [id : Challenges, needsInput : BOOLEAN] \cup {NoChallenge}]
      /\ browser[w] \in BrowserStates /\ browser \in [Browsers -> BrowserStates]
      /\ replied \in SUBSET Challenges
  BY DEF ServerInv, TypeOK
<1> DEFINE GoodPage(v) ==
      /\ browser[v].pc = "page" => browser[v].bank \in Banks
      /\ browser[v].pc \in {"page", "post"} => browser[v].target \in Challenges
      /\ \A l \in Loops : browser[v].pc = "page" /\ challenge(l) = browser[v].target =>
           bank(l) = browser[v].bank
<1>3. \A v \in Browsers : GoodPage(v)
  BY DEF ServerInv, TypeOK
<1> DEFINE Good == /\ browser' \in [Browsers -> BrowserStates]
                   /\ \A v \in Browsers : GoodPage(v)'
<1>4. ASSUME NEW pc \in {"idle", "page", "post"},
             NEW b \in Banks \cup {NoBank}, NEW k \in Challenges \cup {None},
             Shows(w, pc, b, k),
             pc = "page" => b \in Banks /\ \A l \in Loops : challenge(l) = k => bank(l) = b,
             pc \in {"page", "post"} => k \in Challenges
      PROVE  Good
  <2>1. [pc |-> pc, bank |-> b, target |-> k] \in BrowserStates
    BY DEF BrowserStates
  <2>2. browser' = [browser EXCEPT ![w] = [pc |-> pc, bank |-> b, target |-> k]]
    BY <1>4 DEF Shows
  <2>3. browser' \in [Browsers -> BrowserStates]
    BY <1>2, <2>1, <2>2
  <2>4. \A l \in Loops : bank(l)' = bank(l) /\ challenge(l)' = challenge(l)
    BY <1>1 DEF bank, challenge
  <2>5. ASSUME NEW v \in Browsers PROVE GoodPage(v)'
    <3>1. CASE v = w
      <4>1. browser'[v] = [pc |-> pc, bank |-> b, target |-> k]
        BY <1>2, <2>2, <3>1
      <4>2. QED BY <1>4, <2>4, <4>1
    <3>2. CASE v # w
      <4>1. browser'[v] = browser[v]
        BY <1>2, <2>2, <3>2
      <4>2. QED BY <1>3, <2>4, <4>1
    <3>3. QED BY <3>1, <3>2
  <2>6. QED BY <2>3, <2>5
<1> HIDE DEF Good
<1>5. Good /\ replied' \in SUBSET Challenges
  <2>1. ASSUME NEW b \in Banks, Get(w, b) PROVE Good
    <3>1. pending[b] # NoChallenge
      BY <2>1 DEF Get, NoChallenge
    <3>2. pending[b].id \in Challenges /\ Shows(w, "page", b, pending[b].id)
      BY <1>2, <2>1, <3>1 DEF Get
    <3>3. PICK l \in Loops : /\ authMu[b] = l /\ loop[l].pc \in Open
                             /\ challenge(l) = pending[b].id
      BY <3>1 DEF ServerInv
    <3>4. bank(l) = b
      BY <3>3 DEF ServerInv, TypeOK
    <3>5. \A m \in Loops : challenge(m) = pending[b].id => m = l
      BY <3>2, <3>3, ServerAssumption DEF ServerInv
    <3>6. QED BY <1>4, <3>2, <3>4, <3>5
  <2>2. ASSUME Lookup(w) PROVE Good
    <3>1. browser[w].bank \in Banks
      BY <1>3, <2>2 DEF Lookup
    <3>2. pending[browser[w].bank] # NoChallenge => pending[browser[w].bank].id \in Challenges
      BY <1>2, <3>1
    <3>3. \/ Shows(w, "idle", NoBank, None)
          \/ pending[browser[w].bank] # NoChallenge
               /\ Shows(w, "post", NoBank, pending[browser[w].bank].id)
      BY <2>2 DEF Lookup
    <3>4. CASE Shows(w, "idle", NoBank, None)
      BY <1>4, <3>4
    <3>5. ASSUME NEW k \in Challenges, Shows(w, "post", NoBank, k) PROVE Good
      BY <1>4, <3>5
    <3>6. QED BY <3>2, <3>3, <3>4, <3>5
  <2>3. ASSUME Send(w) PROVE Good
    BY <1>4, <2>3 DEF Send
  <2>4. CASE \E b \in Banks : Get(w, b)
    BY <1>2, <2>1, <2>4 DEF Get
  <2>5. CASE Lookup(w)
    BY <1>2, <2>2, <2>5 DEF Lookup
  <2>6. CASE Send(w)
    <3>1. browser[w].target \in Challenges
      BY <1>3, <2>3, <2>6 DEF Send
    <3>2. QED BY <1>2, <2>3, <2>6, <3>1 DEF Send
  <2>7. QED BY <2>4, <2>5, <2>6 DEF BrowserStep
<1>6. QED
  BY <1>1, <1>5 DEF Good, ServerInv, TypeOK, WaitingIsReachable, At, bank, challenge

LEMMA ServerStep == ServerInv /\ [Next]_vars => ServerInv'
<1>1. CASE UNCHANGED vars
  BY <1>1 DEF vars, ServerInv, TypeOK, WaitingIsReachable, At, bank, challenge
<1>2. CASE Cancel
  BY <1>2 DEF Cancel, ui, ServerInv, TypeOK, WaitingIsReachable, At, bank, challenge
<1>3. QED BY <1>1, <1>2, LoopKeeps, BrowserKeeps, ServerAssumption DEF Next

LEMMA ServerInvHolds == Spec => []ServerInv
<1>1. ASSUME Init PROVE ServerInv
  <2>1. /\ \A l \in Loops : /\ loop[l].bank = NoBank
                            /\ loop[l].pc \in {"next", "idle"}
        /\ loop \in [Loops -> LoopStates]
    BY <1>1 DEF Init, LoopStates, PCs
  <2>2. \A b \in Banks : authMu[b] = "free" /\ pending[b] = NoChallenge
    BY <1>1 DEF Init
  <2>3. browser \in [Browsers -> BrowserStates] /\ \A w \in Browsers : browser[w].pc = "idle"
    BY <1>1 DEF Init, BrowserStates
  <2>4. TypeOK
    BY <1>1, <2>1, <2>2, <2>3, ServerAssumption DEF Init, TypeOK, Holding, bank, Loops
  <2>5. \A l \in Loops : loop[l].challenge = None
    BY <1>1 DEF Init
  <2>6. QED
    BY <2>1, <2>2, <2>3, <2>4, <2>5, ServerAssumption
    DEF ServerInv, WaitingIsReachable, At, challenge
<1>2. QED BY <1>1, ServerStep, PTL DEF Spec

\* A bank's lock is held exactly by the loop that checks its token or logs in.
THEOREM TypeCorrect == Spec => []TypeOK
<1>1. ServerInv => TypeOK
  BY DEF ServerInv
<1>2. QED BY <1>1, ServerInvHolds, PTL

\* A login that waits for an answer can be answered at its bank's page.
THEOREM WaitingReachable == Spec => []WaitingIsReachable
<1>1. ServerInv => WaitingIsReachable
  BY DEF ServerInv
<1>2. QED BY <1>1, ServerInvHolds, PTL

\* Once a bank's lock is free, no challenge of it is shown.
THEOREM ChallengesEnd == Spec => []NoStaleChallenge
<1>1. ServerInv => NoStaleChallenge
  BY DEF ServerInv, NoStaleChallenge, Loops
<1>2. QED BY <1>1, ServerInvHolds, PTL

\* In every step, an answer to a challenge that a login still waits for gets to
\* that login's challenge.
THEOREM AnswersArrive == Spec => AnswerNotDiverted
<1> DEFINE Kept == \A w \in Browsers, l \in Loops :
                     /\ browser[w].pc = "page" /\ browser'[w].pc # "page"
                     /\ At(l, "reply") /\ challenge(l) = browser[w].target
                     => browser'[w].target = browser[w].target
<1>1. ServerInv /\ [Next]_vars => [Kept]_vars
  <2> SUFFICES ASSUME ServerInv, Next, NEW w \in Browsers, NEW l \in Loops,
                      browser[w].pc = "page", browser'[w].pc # "page",
                      At(l, "reply"), challenge(l) = browser[w].target
               PROVE  browser'[w].target = browser[w].target
    OBVIOUS
  <2>1. browser' # browser /\ browser \in [Browsers -> BrowserStates]
    BY DEF ServerInv, TypeOK
  <2>2. ~Cancel
    BY <2>1 DEF Cancel, ui
  <2>3. \A m \in Loops : ~LoopStep(m)
    BY <2>1 DEF LoopStep, Tick, Stop, Lock, PushApproved, Proceed, NextBank, EndOfRange,
                StartLogin, Unlock, SyncRun, Ensured, Login, Handle, LoginRejected, Receive,
                GiveUp, HandleReturns, PollEnds, Clear, FinishLogin, ui
  <2>4. PICK v \in Browsers : BrowserStep(v)
    BY <2>2, <2>3 DEF Next
  <2>5. v = w
    BY <2>1, <2>4 DEF BrowserStep, Get, Lookup, Send, Shows
  <2>6. Lookup(w)
    BY <2>4, <2>5 DEF BrowserStep, Get, Send
  <2>7. pending[browser[w].bank] = [id |-> browser[w].target, needsInput |-> TRUE]
    BY DEF ServerInv, WaitingIsReachable
  <2>8. browser[w].target # None
    BY ServerAssumption DEF ServerInv, TypeOK
  <2>9. Shows(w, "post", NoBank, browser[w].target)
    BY <2>6, <2>7, <2>8 DEF Lookup, NoChallenge
  <2>10. QED BY <2>1, <2>9 DEF Shows
<1>2. QED BY <1>1, ServerInvHolds, PTL DEF Spec, AnswerNotDiverted

-----------------------------------------------------------------------------
(* The desk of each bank: the loop that holds its lock. *)

\* What stays as it is at every desk, and what changes at one.
LEMMA DeskStands ==
  ASSUME TypeOK, TypeOK', NEW l \in Loops,
         \A d \in Loops \ {l} : loop'[d] = loop[d], UNCHANGED authMu,
         loop[l].pc \notin Holding, loop'[l].pc \notin Holding
  PROVE  desk' = desk
<1>1. ASSUME NEW b \in Banks
      PROVE  /\ authMu'[b] = authMu[b]
             /\ authMu[b] # "free" => loop'[authMu[b]] = loop[authMu[b]]
  <2>1. authMu[b] # l
    BY DEF TypeOK
  <2>2. authMu[b] \in Loops \cup {"free"}
    BY DEF TypeOK
  <2>3. QED BY <2>1, <2>2
<1>2. \A b \in Banks : authMu[b] # "free" => Stage(loop'[authMu[b]]) = Stage(loop[authMu[b]])
  BY <1>1
<1>3. QED BY <1>1, <1>2 DEF desk

LEMMA OtherDesksStand ==
  ASSUME TypeOK, TypeOK', NEW l \in Loops, NEW b \in Banks,
         \A d \in Loops \ {l} : loop'[d] = loop[d],
         \A c \in Banks \ {b} : authMu'[c] = authMu[c],
         authMu[b] = l \/ authMu'[b] = l,
         NEW v, desk'[b] = v
  PROVE  desk' = [desk EXCEPT ![b] = v]
<1>1. ASSUME NEW c \in Banks \ {b} PROVE desk'[c] = desk[c]
  <2>1. authMu[c] # l
    <3>1. \A x \in Banks : authMu[x] = l => loop[l].bank = x
      BY DEF TypeOK, bank
    <3>2. \A x \in Banks : authMu'[x] = l => loop'[l].bank = x
      BY DEF TypeOK, bank
    <3>3. QED BY <3>1, <3>2
  <2>2. authMu'[c] = authMu[c] /\ authMu[c] \in Loops \cup {"free"}
    BY DEF TypeOK
  <2>3. authMu[c] # "free" => loop'[authMu[c]] = loop[authMu[c]]
    BY <2>1, <2>2
  <2>4. desk[c] = IF authMu[c] = "free" THEN [at |-> "nobody", stage |-> "free"]
                  ELSE [at |-> authMu[c], stage |-> Stage(loop[authMu[c]])]
    BY DEF desk
  <2>5. desk'[c] = IF authMu'[c] = "free" THEN [at |-> "nobody", stage |-> "free"]
                   ELSE [at |-> authMu'[c], stage |-> Stage(loop'[authMu'[c]])]
    BY DEF desk
  <2>6. QED BY <2>2, <2>3, <2>4, <2>5
<1>2. /\ desk = [c \in Banks |-> desk[c]] /\ DOMAIN desk = Banks
      /\ desk' = [c \in Banks |-> desk'[c]]
  BY DEF desk
<1>3. [desk EXCEPT ![b] = v] = [c \in Banks |-> IF c = b THEN v ELSE desk[c]]
  BY <1>2
<1>4. QED BY <1>1, <1>2, <1>3

\* A loop's step is a step at its bank's desk, the end of its work, or neither.
LEMMA DeskLoopStep ==
  ASSUME ServerAssumption, ServerInv, TypeOK', NEW l \in Loops, LoopStep(l)
  PROVE  Desk!Next
<1> DEFINE s == loop[l]
           r == loop'[l]
           b == loop[l].bank
<1>1. /\ TypeOK /\ loop \in [Loops -> LoopStates] /\ l # "free" /\ l # "nobody"
      /\ authMu \in [Banks -> Loops \cup {"free"}]
      /\ s.pc \in Holding \cup {"lock", "run"} => b \in Banks
      /\ \A c \in Banks, d \in Loops : authMu[c] = d <=> loop[d].bank = c /\ loop[d].pc \in Holding
  BY DEF ServerInv, TypeOK, bank, Loops
<1>3. ASSUME NEW pc, NEW k, NEW ok, Goes(l, pc, k, ok)
      PROVE  /\ r.pc = pc /\ r.ok = ok
             /\ \A d \in Loops \ {l} : loop'[d] = loop[d]
  <2>1. Becomes(l, pc, bank(l), loop[l].todo, k, ok)
    BY <1>3 DEF Goes
  <2>2. QED BY <1>1, <2>1 DEF Becomes
<1>4. ASSUME NEW todo, Ranges(l, todo)
      PROVE  /\ r.pc = "next" /\ \A d \in Loops \ {l} : loop'[d] = loop[d]
  <2>1. Becomes(l, "next", NoBank, todo, None, FALSE)
    BY <1>4 DEF Ranges
  <2>2. QED BY <1>1, <2>1 DEF Becomes
<1>5. ASSUME \A d \in Loops \ {l} : loop'[d] = loop[d]
      PROVE  working' = IF r.pc = "run" THEN working \cup {l} ELSE working \ {l}
  BY <1>5 DEF working, At
<1>6. Holding = {"check", "login", "reply", "answered", "given up", "poll", "finish",
                 "clear", "unlock"}
  BY DEF Holding
<1>7. s.pc # "run" => l \notin working
  BY DEF working, At
<1>8. ASSUME UNCHANGED authMu, s.pc \in Holding, r.pc \in Holding,
             \A d \in Loops \ {l} : loop'[d] = loop[d]
      PROVE  /\ b \in Banks /\ desk[b] = [at |-> l, stage |-> Stage(s)]
             /\ desk' = [desk EXCEPT ![b] = [at |-> l, stage |-> Stage(r)]]
             /\ working' = working
  <2>1. b \in Banks /\ authMu[b] = l /\ authMu' = [authMu EXCEPT ![b] = l]
    BY <1>1, <1>8
  <2>2. desk[b] = [at |-> l, stage |-> Stage(s)]
    BY <1>1, <2>1 DEF desk
  <2>3. desk' = [desk EXCEPT ![b] = [at |-> l, stage |-> Stage(r)]]
    <3>1. desk'[b] = [at |-> l, stage |-> Stage(r)]
      BY <1>1, <1>8, <2>1 DEF desk
    <3>2. \A c \in Banks \ {b} : authMu'[c] = authMu[c]
      BY <1>8
    <3> HIDE DEF b, r
    <3>3. QED BY <1>1, <1>8, <2>1, <3>1, <3>2, OtherDesksStand
  <2>4. working' = working
    BY <1>5, <1>6, <1>7, <1>8
  <2>5. QED BY <2>1, <2>2, <2>3, <2>4
<1>9. ASSUME UNCHANGED authMu, s.pc \in Holding, r.pc \in Holding,
             \A d \in Loops \ {l} : loop'[d] = loop[d],
             \/ Stage(r) = Stage(s)
             \/ AutoReauth /\ Stage(s) = "checking" /\ Stage(r) = "login"
             \/ Stage(s) = "login" /\ Stage(r) = "asked"
             \/ Stage(s) = "asked" /\ Stage(r) = "answered"
             \/ Stage(s) \in {"checking", "answered"} /\ Stage(r) = "passed"
             \/ Stage(s) \in {"checking", "login", "asked", "answered"} /\ Stage(r) = "failed"
      PROVE  Desk!Next
  <2>1. /\ b \in Banks /\ desk[b].at = l /\ desk[b].stage = Stage(s)
        /\ desk' = [desk EXCEPT ![b] = [at |-> desk[b].at, stage |-> Stage(r)]]
        /\ working' = working
    BY <1>8, <1>9
  <2>2. CASE Stage(r) = Stage(s)
    <3>1. desk' = desk
      BY <1>8, <1>9, <2>1, <2>2 DEF desk
    <3>2. QED BY <2>1, <3>1 DEF Desk!Next, Desk!vars
  <2>3. CASE Stage(r) # Stage(s)
    <3>1. Desk!AtDesk(b)
      BY <1>9, <2>1, <2>3
         DEF Desk!AtDesk, Desk!StartLogin, Desk!Ask, Desk!Answer, Desk!Pass, Desk!Fail,
             Desk!Turns
    <3>2. QED BY <2>1, <3>1 DEF Desk!Next
  <2>4. QED BY <2>2, <2>3
<1>10. CASE Tick(l) \/ Stop(l) \/ EndOfRange(l) \/ \E c \in Banks : NextBank(l, c)
  <2>1. s.pc \in {"idle", "next"} /\ UNCHANGED authMu
    BY <1>10 DEF Tick, Stop, EndOfRange, NextBank, At
  <2>2. r.pc \in {"next", "stopped", "idle", "lock"} /\ \A d \in Loops \ {l} : loop'[d] = loop[d]
    BY <1>1, <1>10 DEF Tick, Stop, EndOfRange, NextBank, Ranges, Becomes
  <2>3. desk' = desk
    <3>1. s.pc \notin Holding /\ r.pc \notin Holding
      BY <1>6, <2>1, <2>2
    <3>2. /\ TypeOK /\ TypeOK' /\ \A d \in Loops \ {l} : loop'[d] = loop[d]
          /\ UNCHANGED authMu
      BY <1>1, <2>1, <2>2
    <3> HIDE DEF s, r
    <3>3. QED BY <3>1, <3>2, DeskStands DEF s, r
  <2>4. working' = working
    BY <1>5, <1>7, <2>1, <2>2
  <2>5. QED BY <2>3, <2>4 DEF Desk!Next, Desk!vars
<1>11. CASE SyncRun(l)
  <2>1. s.pc = "run" /\ UNCHANGED authMu /\ r.pc = "next"
        /\ \A d \in Loops \ {l} : loop'[d] = loop[d]
    BY <1>4, <1>11 DEF SyncRun, At
  <2>2. desk' = desk
    BY <1>1, <1>6, <2>1, DeskStands
  <2>3. l \in working /\ working' = working \ {l}
    BY <1>5, <2>1 DEF working, At
  <2>4. QED BY <2>2, <2>3 DEF Desk!Next, Desk!Done
<1>12. CASE Lock(l)
  <2>1. /\ s.pc = "lock" /\ b \in Banks /\ authMu[b] = "free" /\ r.pc = "check"
        /\ authMu' = [authMu EXCEPT ![b] = l] /\ \A d \in Loops \ {l} : loop'[d] = loop[d]
    BY <1>1, <1>3, <1>12 DEF Lock, At, bank
  <2>2. desk' = [desk EXCEPT ![b] = [at |-> l, stage |-> Stage(r)]]
    <3>1. authMu'[b] = l /\ \A c \in Banks \ {b} : authMu'[c] = authMu[c]
      BY <1>1, <2>1
    <3>2. desk'[b] = [at |-> l, stage |-> Stage(r)]
      BY <1>1, <2>1, <3>1 DEF desk
    <3> HIDE DEF b, r
    <3>3. QED BY <1>1, <2>1, <3>1, <3>2, OtherDesksStand
  <2>3. Stage(r) = "checking"
    BY <2>1 DEF Stage
  <2>4. desk[b] = Desk!Free
    BY <2>1 DEF desk, Desk!Free
  <2>5. l \notin working /\ working' = working
    BY <1>5, <1>7, <2>1
  <2>6. \A c \in Banks : desk[c].at # l
    <3> SUFFICES ASSUME NEW c \in Banks PROVE desk[c].at # l
      OBVIOUS
    <3>1. authMu[c] # l
      <4>1. loop[l].pc \notin Holding
        BY <1>6, <2>1
      <4>2. QED BY <1>1, <4>1
    <3>2. desk[c].at = IF authMu[c] = "free" THEN "nobody" ELSE authMu[c]
      BY DEF desk
    <3>3. QED BY <1>1, <3>1, <3>2
  <2>7. Desk!Take(l, b)
    BY <2>2, <2>3, <2>4, <2>5, <2>6 DEF Desk!Take
  <2>8. QED BY <2>1, <2>7 DEF Desk!Next
<1>13. CASE Unlock(l)
  <2>1. /\ s.pc = "unlock" /\ b \in Banks /\ authMu[b] = l
        /\ authMu' = [authMu EXCEPT ![b] = "free"]
        /\ \A d \in Loops \ {l} : loop'[d] = loop[d]
        /\ \/ r.pc = "run" /\ s.ok
           \/ r.pc = "next"
    <3>1. /\ s.pc = "unlock" /\ authMu' = [authMu EXCEPT ![b] = "free"]
          /\ \/ s.ok /\ Goes(l, "run", None, FALSE)
             \/ Ranges(l, s.todo)
      BY <1>13 DEF Unlock, At, bank
    <3>2. b \in Banks /\ authMu[b] = l
      BY <1>1, <1>6, <3>1
    <3>3. QED BY <1>3, <1>4, <3>1, <3>2
  <2>2. desk' = [desk EXCEPT ![b] = Desk!Free]
    <3>1. authMu'[b] = "free" /\ \A c \in Banks \ {b} : authMu'[c] = authMu[c]
      BY <1>1, <2>1
    <3>2. desk'[b] = Desk!Free
      BY <2>1, <3>1 DEF desk, Desk!Free
    <3> HIDE DEF b, r
    <3>3. QED BY <1>1, <2>1, <3>1, <3>2, OtherDesksStand
  <2>3. desk[b] = [at |-> l, stage |-> IF s.ok THEN "passed" ELSE "failed"]
    BY <1>1, <2>1 DEF desk, Stage
  <2>4. working' = IF r.pc = "run" THEN working \cup {l} ELSE working
    BY <1>5, <1>7, <2>1
  <2>5. Desk!Work(b) \/ Desk!Leave(b)
    BY <1>1, <2>1, <2>2, <2>3, <2>4 DEF Desk!Work, Desk!Leave, Desk!Free
  <2>6. QED BY <2>1, <2>5 DEF Desk!Next, Desk!AtDesk
<1>14. CASE StartLogin(l)
  <2>1. /\ AutoReauth /\ s.pc = "check" /\ UNCHANGED authMu /\ r.pc = "login"
        /\ \A d \in Loops \ {l} : loop'[d] = loop[d]
    BY <1>3, <1>14 DEF StartLogin, At
  <2>2. Stage(s) = "checking" /\ Stage(r) = "login"
    BY <2>1 DEF Stage
  <2>3. QED BY <1>6, <1>9, <2>1, <2>2
<1>15. ASSUME NEW ok \in BOOLEAN, Ensured(l, ok)
       PROVE  Desk!Next
  <2>1. /\ s.pc = "check" /\ UNCHANGED authMu /\ r.pc = "unlock" /\ r.ok = ok
        /\ \A d \in Loops \ {l} : loop'[d] = loop[d]
    BY <1>3, <1>15 DEF Ensured, At
  <2>2. Stage(s) = "checking" /\ Stage(r) \in {"passed", "failed"}
    BY <2>1 DEF Stage
  <2>3. QED BY <1>6, <1>9, <2>1, <2>2
<1>16. ASSUME NEW n \in BOOLEAN, Handle(l, n)
       PROVE  Desk!Next
  <2>1. /\ s.pc = "login" /\ UNCHANGED authMu /\ r.pc \in {"reply", "poll"}
        /\ \A d \in Loops \ {l} : loop'[d] = loop[d]
    BY <1>3, <1>16 DEF Handle, At
  <2>2. Stage(s) = "login" /\ Stage(r) = "asked"
    BY <2>1 DEF Stage
  <2>3. QED BY <1>6, <1>9, <2>1, <2>2
<1>17. CASE LoginRejected(l) \/ GiveUp(l) \/ PollEnds(l)
  <2>1. /\ \A d \in Loops \ {l} : loop'[d] = loop[d]
        /\ UNCHANGED authMu
        /\ \/ s.pc \in {"login", "poll"} /\ r.pc = "clear" /\ r.ok = FALSE
           \/ s.pc = "reply" /\ r.pc = "given up"
    BY <1>3, <1>17 DEF LoginRejected, GiveUp, PollEnds, At
  <2>2. \/ Stage(s) \in {"login", "asked"} /\ Stage(r) = "failed"
        \/ Stage(s) = "asked" /\ Stage(r) = "asked"
    BY <2>1 DEF Stage
  <2>3. QED BY <1>6, <1>9, <2>1, <2>2
<1>18. CASE Receive(l) \/ PushApproved(l)
  <2>1. /\ \A d \in Loops \ {l} : loop'[d] = loop[d]
        /\ UNCHANGED authMu
        /\ s.pc \in {"reply", "poll"} /\ r.pc \in {"answered", "finish"}
    BY <1>3, <1>18 DEF Receive, PushApproved, At
  <2>2. Stage(s) = "asked" /\ Stage(r) = "answered"
    BY <2>1 DEF Stage
  <2>3. QED BY <1>6, <1>9, <2>1, <2>2
<1>19. CASE HandleReturns(l)
  <2>1. /\ \A d \in Loops \ {l} : loop'[d] = loop[d]
        /\ UNCHANGED authMu
        /\ \/ s.pc = "answered" /\ r.pc = "finish"
           \/ s.pc = "given up" /\ r.pc = "clear" /\ r.ok = FALSE
    BY <1>3, <1>19 DEF HandleReturns, At
  <2>2. \/ Stage(s) = "answered" /\ Stage(r) = "answered"
        \/ Stage(s) = "asked" /\ Stage(r) = "failed"
    BY <2>1 DEF Stage
  <2>3. QED BY <1>6, <1>9, <2>1, <2>2
<1>20. ASSUME NEW ok \in BOOLEAN, FinishLogin(l, ok)
       PROVE  Desk!Next
  <2>1. /\ \A d \in Loops \ {l} : loop'[d] = loop[d]
        /\ UNCHANGED authMu /\ s.pc = "finish" /\ r.pc = "clear" /\ r.ok = ok
    BY <1>3, <1>20 DEF FinishLogin, At
  <2>2. Stage(s) = "answered" /\ Stage(r) \in {"passed", "failed"}
    BY <2>1 DEF Stage
  <2>3. QED BY <1>6, <1>9, <2>1, <2>2
<1>21. CASE Clear(l)
  <2>1. /\ \A d \in Loops \ {l} : loop'[d] = loop[d]
        /\ UNCHANGED authMu /\ s.pc = "clear" /\ r.pc = "unlock" /\ r.ok = s.ok
    BY <1>3, <1>21 DEF Clear, At
  <2>2. Stage(r) = Stage(s)
    BY <2>1 DEF Stage
  <2>3. QED BY <1>6, <1>9, <2>1, <2>2
<1>22. QED
  BY <1>10, <1>11, <1>12, <1>13, <1>14, <1>15, <1>16, <1>17, <1>18, <1>19, <1>20, <1>21
     DEF LoopStep, Proceed, Login

\* Whatever is answered, given up or cancelled and whenever, the loops of serve
\* keep to what LoginDesk says of a bank's desk.
THEOREM ServerKeepsDesk == Spec => KeepsDesk
<1>1. Init => Desk!Init
  <2> SUFFICES ASSUME Init PROVE Desk!Init
    OBVIOUS
  <2>1. \A b \in Banks : authMu[b] = "free"
    BY DEF Init
  <2>2. desk = [b \in Banks |-> Desk!Free]
    BY <2>1 DEF desk, Desk!Free
  <2>3. \A l \in Loops : ~At(l, "run")
    BY DEF Init, At
  <2>4. QED BY <2>2, <2>3 DEF Desk!Init, working
<1>2. ServerInv /\ ServerInv' /\ [Next]_vars => [Desk!Next]_<<desk, working>>
  <2> SUFFICES ASSUME ServerInv, ServerInv', [Next]_vars
               PROVE  Desk!Next \/ UNCHANGED <<desk, working>>
    OBVIOUS
  <2>1. CASE UNCHANGED <<loop, authMu>>
    <3>1. desk' = desk /\ working' = working
      BY <2>1 DEF desk, working, At
    <3>2. QED BY <3>1
  <2>2. ASSUME NEW l \in Loops, LoopStep(l) PROVE Desk!Next
    <3>1. TypeOK'
      BY DEF ServerInv
    <3>2. QED BY <2>2, <3>1, DeskLoopStep, ServerAssumption
  <2>3. UNCHANGED <<loop, authMu>> \/ \E l \in Loops : LoopStep(l)
    BY DEF Next, vars, Cancel, BrowserStep, Get, Lookup, Send
  <2>4. QED BY <2>1, <2>2, <2>3
<1>3. QED BY <1>1, <1>2, ServerInvHolds, PTL DEF Spec, KeepsDesk, Desk!Spec, Desk!vars
=============================================================================
