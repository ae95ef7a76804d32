---------------------------- MODULE TokensProofs ----------------------------
(***************************************************************************)
(* Proofs about module Tokens, for any number of loops, commands and       *)
(* tokens.                                                                 *)
(***************************************************************************)
EXTENDS Tokens, TLAPS

\* The steps of a login that get no token.
LoginGoesOn(c) ==
  FetchSession(c) \/ ValidateSession(c) \/ PromptTAN(c) \/ ActivateSession(c)

\* They keep the interim token, and what they come from is the step before.
LEMMA LoginAdvances ==
  ASSUME NEW c \in Clients, LoginGoesOn(c)
  PROVE  \E from, to \in Interim :
           /\ Advances(c, from, to)
           /\ to \in {"session", "validate"} => from = "session"
BY DEF LoginGoesOn, FetchSession, ValidateSession, PromptTAN, ActivateSession, Interim

-----------------------------------------------------------------------------
(* Type correctness. *)

\* A move to a known place with a token issued so far keeps the clients'
\* records well-formed.
LEMMA MoveType ==
  ASSUME TypeOK, NEW c \in Clients, NEW for \in Calls, NEW pc \in PCs,
         NEW k \in Nat, issued <= k, NEW t \in 0..k, Moves(c, for, pc, t)
  PROVE  client' \in [Clients -> [call : Calls, pc : PCs, token : 0..k]]
BY DEF TypeOK, Moves

\* Success and failure of a token check lead to well-formed records.
LEMMA OutcomeType ==
  ASSUME TypeOK, NEW c \in Clients, NEW k \in Nat, issued <= k, NEW t \in 0..k,
         Authenticated(c, t) \/ Denied(c, t) \/ GivesUp(c)
  PROVE  /\ client' \in [Clients -> [call : Calls, pc : PCs, token : 0..k]]
         /\ authMu' \in Loops \cup {"free"}
<1> DEFINE Good == [Clients -> [call : Calls, pc : PCs, token : 0..k]]
<1>1. client[c] \in [call : Calls, pc : PCs, token : 0..issued]
      /\ authMu \in Loops \cup {"free"}
  BY DEF TypeOK
<1>2. \A for \in Calls, pc \in PCs, u \in 0..k :
        Moves(c, for, pc, u) => client' \in Good
  BY MoveType
<1>3. call(c) \in Calls /\ NoToken \in 0..k
  BY <1>1 DEF call, NoToken
<1>4. {"idle", "api", "grant"} \subseteq PCs /\ {"check", "list", "download", "login"} = Calls
  BY DEF PCs, Interim, Calls
<1> HIDE DEF Good
<1>5. GivesUp(c) => client' \in Good /\ authMu' \in Loops \cup {"free"}
  BY <1>1, <1>2, <1>3, <1>4 DEF GivesUp, Unlock
<1>6. Denied(c, t) => client' \in Good /\ authMu' \in Loops \cup {"free"}
  BY <1>1, <1>2, <1>3, <1>4, <1>5 DEF Denied, Goes
<1>7. Authenticated(c, t) => client' \in Good /\ authMu' \in Loops \cup {"free"}
  BY <1>1, <1>2, <1>3, <1>4, <1>5 DEF Authenticated, Unlock
<1>8. QED BY <1>5, <1>6, <1>7 DEF Good

\* No step leaves the types.
LEMMA TypeStep == TypeOK /\ [Next]_vars => TypeOK'
<1> SUFFICES ASSUME TypeOK, [Next]_vars PROVE TypeOK'
  OBVIOUS
<1> USE TokensAssumption
<1>1. /\ issued \in 0..MaxTokens /\ issued \in Nat /\ cache \in 0..issued
      /\ full \in SUBSET (1..issued) /\ usable \in SUBSET (1..issued)
      /\ rotated \in SUBSET (1..issued) /\ aged \in SUBSET (1..issued)
      /\ authMu \in Loops \cup {"free"}
      /\ client \in [Clients -> [call : Calls, pc : PCs, token : 0..issued]]
      /\ trouble \in Troubles
  BY DEF TypeOK
<1>2. CASE UNCHANGED vars
  BY <1>2 DEF vars, TypeOK
<1>3. ASSUME NEW t \in Tokens, Age(t) \/ Lapse(t)
      PROVE  TypeOK'
  BY <1>1, <1>3 DEF Age, Lapse, bank, TypeOK, Troubles
<1>4. ASSUME NEW P \in Processes, Kill(P), trouble' = "serious"
      PROVE  TypeOK'
  <2>1. Idle \in [call : Calls, pc : PCs, token : 0..issued]
    BY <1>1 DEF Idle, Calls, PCs, Interim, NoToken
  <2>2. QED BY <1>1, <1>4, <2>1 DEF Kill, bank, TypeOK, Troubles
<1>5. ASSUME NEW c \in Clients, ClientStep(c)
      PROVE  TypeOK'
  <2>15. trouble' \in Troubles
    BY <1>1, <1>5 DEF ClientStep, Troubles
  <2>1. /\ client[c] \in [call : Calls, pc : PCs, token : 0..issued]
        /\ token(c) \in 0..issued /\ call(c) \in Calls
    BY <1>1 DEF token, call
  <2>2. ASSUME UNCHANGED <<bank, aged>>, cache' \in 0..issued,
               authMu' \in Loops \cup {"free"},
               client' \in [Clients -> [call : Calls, pc : PCs, token : 0..issued]]
        PROVE  TypeOK'
    BY <1>1, <2>2, <2>15 DEF bank, TypeOK
  <2>3. \A for \in Calls, pc \in PCs, t \in 0..issued : Moves(c, for, pc, t) =>
          client' \in [Clients -> [call : Calls, pc : PCs, token : 0..issued]]
    BY <1>1, MoveType
  <2>4. \A pc \in PCs, t \in 0..issued : Goes(c, pc, t) =>
          client' \in [Clients -> [call : Calls, pc : PCs, token : 0..issued]]
    BY <2>1, <2>3 DEF Goes
  <2>5. NoToken \in 0..issued
    BY <1>1 DEF NoToken
  <2>6. CASE Lock(c) \/ StartCommand(c) \/ New(c) \/ NextCall(c) \/ RunEnds(c)
    <3>1. CASE RunEnds(c)
      BY <1>1, <2>1, <2>2, <3>1, OutcomeType DEF RunEnds
    <3>2. CASE Lock(c) \/ StartCommand(c)
      BY <1>1, <2>2, <2>3, <2>5, <3>2 DEF Lock, StartCommand, Calls, PCs, Interim
    <3>3. CASE New(c) \/ NextCall(c)
      BY <1>1, <2>1, <2>2, <2>4, <3>3 DEF New, NextCall, PCs, Interim
    <3>4. QED BY <2>6, <3>1, <3>2, <3>3
  <2>7. CASE EnsureMissing(c) \/ EnsureFresh(c) \/ EnsureAged(c)
    <3>1. CASE EnsureAged(c)
      BY <1>1, <2>1, <2>2, <2>4, <3>1 DEF EnsureAged, PCs, Interim
    <3>2. CASE EnsureMissing(c) \/ EnsureFresh(c)
      BY <1>1, <2>1, <2>2, <2>5, <3>2, OutcomeType DEF EnsureMissing, EnsureFresh
    <3>3. QED BY <2>7, <3>1, <3>2
  <2>8. CASE RefreshRejected(c) \/ RefreshUnanswered(c) \/ SaveFails(c) \/ LoginFails(c)
    BY <1>1, <2>1, <2>2, <2>8, OutcomeType
       DEF RefreshRejected, RefreshUnanswered, SaveFails, LoginFails
  <2>9. CASE TruncateCache(c) \/ WriteCache(c)
    <3>1. CASE TruncateCache(c)
      BY <1>1, <2>1, <2>2, <2>4, <2>5, <3>1 DEF TruncateCache, PCs, Interim
    <3>2. CASE WriteCache(c)
      BY <1>1, <2>1, <2>2, <3>2, OutcomeType DEF WriteCache
    <3>3. QED BY <2>9, <3>1, <3>2
  <2>10. ASSUME NEW t \in Tokens, Issue(t)
         PROVE  /\ t \in Nat /\ t \in 1..t /\ issued' = t /\ issued <= t
                /\ t \in 0..MaxTokens /\ 1..issued \subseteq 1..t
                /\ 0..issued \subseteq 0..t
    BY <1>1, <2>10 DEF Issue, Tokens
  <2>11. ASSUME NEW t \in Tokens, Issue(t), aged' = aged, cache' = cache,
                full' \in SUBSET (1..t), usable' \in SUBSET (1..t),
                rotated' \in SUBSET (1..t), authMu' \in Loops \cup {"free"},
                client' \in [Clients -> [call : Calls, pc : PCs, token : 0..t]]
         PROVE  TypeOK'
    BY <1>1, <2>10, <2>11, <2>15 DEF TypeOK
  <2>12. ASSUME NEW t \in Tokens, RefreshGranted(c, t) \/ RefreshLost(c, t)
         PROVE  TypeOK'
    <3>1. At(c, "refresh") /\ Rotate(token(c), t) /\ Issue(t)
          /\ UNCHANGED <<aged, cache>>
      BY <2>12 DEF RefreshGranted, RefreshLost, Rotate
    <3>2. /\ full' \in SUBSET (1..t) /\ usable' \in SUBSET (1..t)
          /\ rotated' \in SUBSET (1..t)
      BY <1>1, <2>10, <3>1 DEF Rotate
    <3>3. token(c) \in 0..t /\ t \in 0..t
      BY <2>1, <2>10, <3>1
    <3>4. /\ client' \in [Clients -> [call : Calls, pc : PCs, token : 0..t]]
          /\ authMu' \in Loops \cup {"free"}
      <4>1. CASE RefreshGranted(c, t)
        <5>1. "truncate" \in PCs
          BY DEF PCs, Interim
        <5>2. QED BY <1>1, <2>1, <2>10, <3>1, <3>3, <4>1, <5>1, MoveType
                  DEF RefreshGranted, Goes
      <4>2. CASE RefreshLost(c, t)
        BY <2>10, <3>1, <3>3, <4>2, OutcomeType DEF RefreshLost
      <4>3. QED BY <2>12, <4>1, <4>2
    <3>5. QED BY <2>11, <3>1, <3>2, <3>4
  <2>13. ASSUME NEW t \in Tokens, PasswordGrant(c, t) \/ SecondaryGrant(c, t)
         PROVE  TypeOK'
    <3>1. Issue(t) /\ UNCHANGED <<aged, cache, authMu>>
      BY <2>13 DEF PasswordGrant, SecondaryGrant
    <3>2. /\ full' \in SUBSET (1..t) /\ usable' \in SUBSET (1..t)
          /\ rotated' \in SUBSET (1..t)
      BY <1>1, <2>10, <2>13, <3>1 DEF PasswordGrant, SecondaryGrant
    <3>3. \E pc \in PCs : Goes(c, pc, t)
      BY <2>13 DEF PasswordGrant, SecondaryGrant, PCs, Interim
    <3>4. client' \in [Clients -> [call : Calls, pc : PCs, token : 0..t]]
      BY <2>1, <2>10, <3>1, <3>3, MoveType DEF Goes
    <3>5. QED BY <1>1, <2>11, <3>1, <3>2, <3>4
  <2>14. CASE LoginGoesOn(c)
    <3>1. \E to \in PCs : Goes(c, to, token(c)) /\ UNCHANGED <<bank, aged, cache, authMu>>
      BY <2>14, LoginAdvances DEF Advances, PCs
    <3>2. QED BY <1>1, <2>1, <2>2, <2>4, <3>1
  <2>16. QED BY <1>5, <2>6, <2>7, <2>8, <2>9, <2>12, <2>13, <2>14
             DEF ClientStep, QuietStep, MildStep, SeriousStep, LoginGoesOn
<1>6. QED BY <1>2, <1>3, <1>4, <1>5 DEF Next

\* Under any faults, a token is used, cached or renewed only after the bank
\* has issued it, and only a loop of serve ever holds the lock.
THEOREM TypeCorrect == Spec => []TypeOK
<1>1. Init => TypeOK
  BY TokensAssumption DEF Init, TypeOK, Idle, Calls, PCs, Interim, NoToken, Troubles
<1>2. QED BY <1>1, TypeStep, PTL DEF Spec

-----------------------------------------------------------------------------
(* Only tokens of full authority are kept or used. *)

\* What a client is seen to be after an outcome: full tokens stay full.
LEMMA OutcomeFull ==
  ASSUME NEW c \in Clients, NEW F, NEW t \in F \cup {NoToken},
         client[c].call = "download" => t \in F,
         client' = [client EXCEPT ![c] = client'[c]],
         \/ Authenticated(c, t) /\ t \in F
         \/ Denied(c, t)
         \/ GivesUp(c),
         client \in [Clients -> [call : Calls, pc : PCs, token : 0..issued]]
  PROVE  FullClient(client'[c], F)
<1>1. ASSUME NEW for, NEW pc, NEW u, Moves(c, for, pc, u)
      PROVE  client'[c] = [call |-> for, pc |-> pc, token |-> u]
  BY <1>1 DEF Moves
<1>2. CASE GivesUp(c)
  <2>1. client'[c] = [call |-> "check", pc |-> "idle", token |-> NoToken]
    BY <1>1, <1>2 DEF GivesUp
  <2>2. QED BY <2>1 DEF FullClient, Interim
<1>3. CASE Denied(c, t)
  <2>1. \/ GivesUp(c)
        \/ client'[c] = [call |-> "login", pc |-> "grant", token |-> t]
        \/ call(c) = "download"
           /\ client'[c] = [call |-> "download", pc |-> "api", token |-> t]
    BY <1>1, <1>3 DEF Denied, Goes
  <2>2. QED BY <1>2, <2>1 DEF FullClient, Interim, call
<1>4. CASE Authenticated(c, t) /\ t \in F
  <2>1. \/ GivesUp(c)
        \/ \E for \in {"download", "list"} :
             client'[c] = [call |-> for, pc |-> "api", token |-> t]
    BY <1>1, <1>4 DEF Authenticated
  <2>2. QED BY <1>2, <1>4, <2>1 DEF FullClient, Interim
<1>5. QED BY <1>2, <1>3, <1>4

\* A client's move changes its own record only.
LEMMA StepIsLocal ==
  ASSUME TypeOK, NEW c \in Clients, ClientStep(c)
  PROVE  /\ client' = [client EXCEPT ![c] = client'[c]]
         /\ \A d \in Clients \ {c} : client'[d] = client[d]
<1>1. \E for, pc, u : Moves(c, for, pc, u)
  BY DEF ClientStep, QuietStep, MildStep, SeriousStep, Lock, StartCommand, New, EnsureMissing, EnsureFresh, EnsureAged,
         RefreshRejected, RefreshUnanswered, TruncateCache, WriteCache, SaveFails,
         LoginFails, NextCall, RunEnds, RefreshGranted, RefreshLost, PasswordGrant,
         SecondaryGrant, FetchSession, ValidateSession, PromptTAN, ActivateSession,
         Advances, Authenticated, Denied, GivesUp, Goes
<1>2. QED BY <1>1 DEF Moves, TypeOK

\* A step of a client keeps the tokens of full authority, and leaves in the
\* cache and with that client only such tokens.
LEMMA FullClientStep ==
  ASSUME FullInv, NEW c \in Clients, ClientStep(c)
  PROVE  /\ full \subseteq full'
         /\ cache' \in full' \cup {NoToken}
         /\ FullClient(client'[c], full')
<1> USE StepIsLocal DEF FullInv
<1> DEFINE T == [Clients -> [call : Calls, pc : PCs, token : 0..issued]]
<1>1. /\ FullClient(client[c], full) /\ cache \in full \cup {NoToken}
      /\ aged \in SUBSET (1..issued) /\ issued \in Nat /\ client \in T
      /\ client' = [client EXCEPT ![c] = client'[c]]
  BY DEF TypeOK
<1>2. ASSUME NEW for, NEW pc, NEW u, Moves(c, for, pc, u)
      PROVE  client'[c] = [call |-> for, pc |-> pc, token |-> u]
  BY <1>1, <1>2 DEF Moves
<1>3. ASSUME NEW pc, NEW u, Goes(c, pc, u)
      PROVE  client'[c] = [call |-> client[c].call, pc |-> pc, token |-> u]
  BY <1>2, <1>3 DEF Goes, call
<1>4. ASSUME full' = full, cache' \in full \cup {NoToken},
             NEW t \in full \cup {NoToken}, client[c].call = "download" => t \in full,
             (Authenticated(c, t) /\ t \in full) \/ Denied(c, t) \/ GivesUp(c)
      PROVE  /\ full \subseteq full' /\ cache' \in full' \cup {NoToken}
             /\ FullClient(client'[c], full')
  BY <1>1, <1>4, OutcomeFull
<1>5. CASE Lock(c) \/ StartCommand(c)
  <2>1. \E for \in {"check", "login", "list"} :
          client'[c] = [call |-> for, pc |-> "new", token |-> NoToken]
    BY <1>2, <1>5 DEF Lock, StartCommand
  <2>2. QED BY <1>1, <1>5, <2>1 DEF FullClient, Interim, Lock, StartCommand, bank
<1>6. CASE New(c)
  <2>1. \E pc \in {"grant", "ensure"} :
          /\ client'[c] = [call |-> client[c].call, pc |-> pc, token |-> cache]
          /\ pc = "grant" => client[c].call = "login"
    BY <1>3, <1>6 DEF New, call
  <2>2. QED BY <1>1, <1>6, <2>1 DEF FullClient, Interim, New, At, bank
<1>7. CASE EnsureAged(c) \/ NextCall(c)
  <2>1. client[c].token \in full
    BY <1>1, <1>7 DEF EnsureAged, NextCall, At, token, FullClient, Interim, NoToken
  <2>2. \E pc \in {"refresh", "ensure"} :
          client'[c] = [call |-> client[c].call, pc |-> pc, token |-> client[c].token]
    BY <1>3, <1>7 DEF EnsureAged, NextCall, token
  <2>3. QED BY <1>1, <1>7, <2>1, <2>2 DEF FullClient, Interim, EnsureAged, NextCall, bank
<1>8. CASE EnsureMissing(c) \/ EnsureFresh(c)
  BY <1>1, <1>4, <1>8 DEF EnsureMissing, EnsureFresh, FullClient, Interim, At, token, bank
<1>9. CASE RefreshRejected(c) \/ RefreshUnanswered(c) \/ SaveFails(c)
  BY <1>1, <1>4, <1>9
     DEF RefreshRejected, RefreshUnanswered, SaveFails, FullClient, Interim, At, token, bank
<1>10. CASE LoginFails(c) \/ RunEnds(c)
  BY <1>1, <1>4, <1>10 DEF LoginFails, RunEnds, FullClient, Interim, At, bank
<1>11. CASE TruncateCache(c)
  <2>1. client'[c] = [call |-> client[c].call, pc |-> "write", token |-> client[c].token]
    BY <1>3, <1>11 DEF TruncateCache, token
  <2>2. client[c].token \in full
    BY <1>1, <1>11 DEF TruncateCache, At, FullClient, Interim
  <2>3. QED BY <1>1, <1>11, <2>1, <2>2 DEF FullClient, Interim, TruncateCache, bank
<1>12. CASE WriteCache(c)
  BY <1>1, <1>4, <1>12 DEF WriteCache, FullClient, Interim, At, token, bank
<1>13. ASSUME NEW t \in Tokens, RefreshGranted(c, t)
       PROVE  /\ full \subseteq full' /\ cache' \in full' \cup {NoToken}
              /\ FullClient(client'[c], full')
  <2>1. client[c].token \in full
    BY <1>1, <1>13 DEF RefreshGranted, At, FullClient, Interim
  <2>2. full' = full \cup {t} /\ cache' = cache
    BY <1>13, <2>1 DEF RefreshGranted, Rotate, token
  <2>3. client'[c] = [call |-> client[c].call, pc |-> "truncate", token |-> t]
    BY <1>3, <1>13 DEF RefreshGranted
  <2>4. QED BY <1>1, <2>2, <2>3 DEF FullClient, Interim
<1>14. ASSUME NEW t \in Tokens, RefreshLost(c, t)
       PROVE  /\ full \subseteq full' /\ cache' \in full' \cup {NoToken}
              /\ FullClient(client'[c], full')
  <2>1. client[c].token \in full
    BY <1>1, <1>14 DEF RefreshLost, At, FullClient, Interim
  <2>2. full' = full \cup {t} /\ cache' = cache /\ Denied(c, client[c].token)
    BY <1>14, <2>1 DEF RefreshLost, Rotate, token
  <2>3. FullClient(client'[c], full')
    BY <1>1, <2>1, <2>2, OutcomeFull
  <2>4. QED BY <1>1, <2>2, <2>3
<1>15. ASSUME NEW t \in Tokens, PasswordGrant(c, t)
       PROVE  /\ full \subseteq full' /\ cache' \in full' \cup {NoToken}
              /\ FullClient(client'[c], full')
  <2>1. client'[c] = [call |-> client[c].call, pc |-> "session", token |-> t]
    BY <1>3, <1>15 DEF PasswordGrant
  <2>2. QED BY <1>1, <1>15, <2>1 DEF PasswordGrant, FullClient, At, Interim
<1>16. ASSUME NEW t \in Tokens, SecondaryGrant(c, t)
       PROVE  /\ full \subseteq full' /\ cache' \in full' \cup {NoToken}
              /\ FullClient(client'[c], full')
  <2>1. client'[c] = [call |-> client[c].call, pc |-> "truncate", token |-> t]
    BY <1>3, <1>16 DEF SecondaryGrant
  <2>2. QED BY <1>1, <1>16, <2>1 DEF SecondaryGrant, FullClient, Interim
<1>17. CASE LoginGoesOn(c)
  <2>1. PICK from, to \in Interim : Advances(c, from, to)
    BY <1>17, LoginAdvances
  <2>2. client'[c] = [call |-> client[c].call, pc |-> to, token |-> client[c].token]
        /\ client[c].pc \in Interim /\ full' = full /\ cache' = cache
    BY <1>3, <2>1 DEF Advances, token, At, bank
  <2>3. QED BY <1>1, <2>2 DEF FullClient, Interim
<1>18. QED
  BY <1>5, <1>6, <1>7, <1>8, <1>9, <1>10, <1>11, <1>12, <1>13, <1>14, <1>15, <1>16, <1>17
     DEF ClientStep, QuietStep, MildStep, SeriousStep, LoginGoesOn

LEMMA FullStep == FullInv /\ [Next]_vars => FullInv'
<1> SUFFICES ASSUME FullInv, [Next]_vars PROVE FullInv'
  OBVIOUS
<1>1. TypeOK /\ TypeOK'
  BY TypeStep DEF FullInv
<1>2. CASE UNCHANGED vars
  BY <1>1, <1>2 DEF vars, FullInv
<1>3. CASE \E t \in Tokens : Age(t) \/ Lapse(t)
  BY <1>1, <1>3 DEF Age, Lapse, bank, FullInv
<1>4. ASSUME NEW P \in Processes, Kill(P)
      PROVE  FullInv'
  <2>1. \A c \in Clients : client'[c] = Idle \/ client'[c] = client[c]
    BY <1>4 DEF Kill
  <2>2. FullClient(Idle, full)
    BY DEF FullClient, Interim, Idle
  <2>3. QED BY <1>1, <1>4, <2>1, <2>2 DEF Kill, bank, FullInv
<1>5. ASSUME NEW c \in Clients, ClientStep(c)
      PROVE  FullInv'
  <2>1. \A d \in Clients \ {c} : FullClient(client'[d], full')
    <3>1. \A d \in Clients \ {c} : client'[d] = client[d] /\ FullClient(client[d], full)
      BY <1>1, <1>5, StepIsLocal DEF FullInv
    <3>2. QED BY <1>5, <3>1, FullClientStep DEF FullClient
  <2>2. QED BY <1>1, <1>5, <2>1, FullClientStep DEF FullInv
<1>6. QED BY <1>2, <1>3, <1>4, <1>5 DEF Next

\* Whatever fails, dies or runs at the same time, the token of a login nobody
\* completed is neither cached nor used to list or download.
THEOREM FullTokensOnly == Spec => []OnlyFullTokens
<1>1. Init => FullInv
  BY TokensAssumption
     DEF Init, FullInv, TypeOK, FullClient, Idle, Calls, PCs, Interim, NoToken, Troubles
<1>2. FullInv => OnlyFullTokens
  BY DEF FullInv, FullClient, Interim, OnlyFullTokens, At, token
<1>3. QED BY <1>1, <1>2, FullStep, PTL DEF Spec

-----------------------------------------------------------------------------
(* Until something serious happens, the lock does what it is for. *)

\* What a step of c may do to authMu and to what others rely on: if c does not
\* hold the lock it takes it at most, uses up no token, and changes the cache
\* only at the price of mild trouble.
Undisturbed(c) ==
  \/ authMu = c
  \/ /\ authMu' = authMu \/ (authMu = "free" /\ authMu' = c)
     /\ rotated' = rotated
     /\ trouble' = "none" => /\ trouble = "none" /\ cache' = cache
                             /\ cache \notin usable => cache \notin usable'

\* Then what the other clients are doing is still covered.
LEMMA OthersKeep ==
  ASSUME NEW c \in Clients, NEW d \in Clients \ {c}, Undisturbed(c),
         LockClient(d, client[d]), client'[d] = client[d], d # "free"
  PROVE  LockClient(d, client[d])'
BY DEF Undisturbed, LockClient, Reading, LoggingInOutside, Authenticating, Saving

\* Every step of a client keeps the lock's discipline.
LEMMA LockClientStep ==
  ASSUME LockInv, NEW c \in Clients, ClientStep(c), trouble' # "serious"
  PROVE  LockInv'
<1> DEFINE r == client[c]
           x == client'[c]
           LockMoves == \/ authMu' = authMu \/ authMu = c
                        \/ authMu = "free" /\ authMu' = c
           Sources == {r.token, cache, NoToken, issued + 1}
<1>0. /\ QuietStep(c) \/ (MildStep(c) /\ trouble' # "none")
      /\ trouble' = "none" => trouble = "none"
  BY DEF ClientStep
<1>1. /\ TypeOK /\ TypeOK' /\ CacheKept
      /\ \A d \in Clients : LockClient(d, client[d]) /\ SavesNews(d) /\ d # "free"
      /\ r \in [call : Calls, pc : PCs, token : 0..issued]
      /\ issued \in Nat /\ cache \in 0..issued
  BY TypeStep, TokensAssumption DEF LockInv, TypeOK, Next, Clients
<1>2. /\ client' = [client EXCEPT ![c] = x]
      /\ \A d \in Clients \ {c} : client'[d] = client[d]
  BY <1>1, StepIsLocal
<1>3. ASSUME NEW for, NEW pc, NEW u, Moves(c, for, pc, u)
      PROVE  x = [call |-> for, pc |-> pc, token |-> u]
  BY <1>1, <1>3 DEF Moves, TypeOK
<1>4. ASSUME NEW pc, NEW u, Goes(c, pc, u)
      PROVE  x = [call |-> r.call, pc |-> pc, token |-> u]
  BY <1>3, <1>4 DEF Goes, call
<1> HIDE DEF x
<1>5. ASSUME rotated' \in {rotated, rotated \cup {r.token}},
             cache' \in {cache, NoToken, r.token}, x.token \in Sources,
             Undisturbed(c), LockClient(c, client[c])', SavesNews(c)', CacheKept'
      PROVE  LockInv'
  <2>1. \A d \in Clients \ {c} : LockClient(d, client[d])'
    BY <1>1, <1>2, <1>5, OthersKeep
  <2>2. ASSUME NEW d \in Clients \ {c}, Saving(client'[d])
        PROVE  /\ client'[d].token \notin rotated' \cup {cache', NoToken}
               /\ \A e \in Clients \ {d} : client'[e].token # client'[d].token
    <3>1. client'[d] = client[d] /\ client[d].token \in 0..issued
      BY <1>1, <1>2 DEF TypeOK
    <3>2. /\ client[d].token \notin rotated \cup {cache, NoToken}
          /\ \A e \in Clients \ {d} : client[e].token # client[d].token
      BY <1>1, <2>2, <3>1 DEF SavesNews
    <3>3. r.token # client[d].token /\ issued + 1 # client[d].token
      BY <1>1, <3>1, <3>2
    <3>4. x.token # client[d].token
      BY <1>5, <3>2, <3>3
    <3>5. \A e \in Clients \ {d} : client'[e].token # client[d].token
      BY <1>2, <3>2, <3>4 DEF x
    <3>6. QED BY <1>5, <3>1, <3>2, <3>3, <3>5
  <2>3. \A d \in Clients \ {c} : SavesNews(d)'
    BY <2>2 DEF SavesNews
  <2>4. QED BY <1>1, <1>5, <2>1, <2>3 DEF LockInv
<1>6. ASSUME UNCHANGED <<rotated, full, cache>>, ~Saving(r), LockMoves
      PROVE  CacheKept'
  BY <1>1, <1>2, <1>6 DEF CacheKept, x
<1>7. ASSUME UNCHANGED <<bank, cache>>, ~Saving(r), ~Saving(x), LockMoves,
             x.token \in Sources, LockClient(c, client[c])'
      PROVE  LockInv'
  <2>1. CacheKept' /\ SavesNews(c)'
    BY <1>6, <1>7 DEF bank, SavesNews, x
  <2>2. Undisturbed(c)
    BY <1>0, <1>7 DEF Undisturbed, bank
  <2>3. QED BY <1>5, <1>7, <2>1, <2>2 DEF bank
<1>8. ASSUME GivesUp(c)
      PROVE  /\ x.token = NoToken /\ ~Saving(x) /\ LockMoves
             /\ LockClient(c, client[c])'
  <2>1. x = [call |-> "check", pc |-> "idle", token |-> NoToken] /\ LockMoves
    BY <1>3, <1>8 DEF GivesUp, Unlock
  <2>2. QED BY <2>1 DEF LockClient, Saving, x
<1>9. ASSUME NEW t, Authenticated(c, t)
      PROVE  /\ x.token \in {t, NoToken} /\ ~Saving(x) /\ LockMoves
             /\ LockClient(c, client[c])'
  <2>1. CASE c \in Syncing
    <3>1. PICK for \in {"download", "list"} :
            x = [call |-> for, pc |-> "api", token |-> t]
      BY <1>3, <1>9, <2>1 DEF Authenticated
    <3>2. LockMoves
      BY <1>9, <2>1 DEF Authenticated, Unlock
    <3>3. QED BY <3>1, <3>2 DEF LockClient, Reading, Saving, x
  <2>2. CASE c \notin Syncing
    BY <1>8, <1>9, <2>2 DEF Authenticated
  <2>3. QED BY <2>1, <2>2
<1>10. ASSUME Denied(c, r.token), UNCHANGED <<bank, cache>>, ~Saving(r),
              r.call = "check" =>
                authMu = c /\ (trouble' = "none" => cache \notin usable)
       PROVE  LockInv'
  <2>1. CASE GivesUp(c)
    BY <1>7, <1>8, <1>10, <2>1
  <2>2. CASE r.call = "check" /\ ~GivesUp(c)
    <3>1. x = [call |-> "login", pc |-> "grant", token |-> r.token] /\ authMu' = authMu
      BY <1>3, <1>10, <2>2 DEF Denied, call
    <3>2. LockClient(c, client[c])'
      BY <1>10, <2>2, <3>1 DEF LockClient, Authenticating, x, bank
    <3>3. QED BY <1>7, <1>10, <3>1, <3>2 DEF Saving
  <2>3. CASE r.call # "check" /\ ~GivesUp(c)
    <3>1. x = [call |-> "download", pc |-> "api", token |-> r.token] /\ authMu' = authMu
      BY <1>4, <1>10, <2>3 DEF Denied, call
    <3>2. LockClient(c, client[c])'
      BY <3>1 DEF LockClient, Reading, x
    <3>3. QED BY <1>7, <1>10, <3>1, <3>2 DEF Saving
  <2>4. QED BY <2>1, <2>2, <2>3
<1>11. CASE Lock(c)
  <2>1. x = [call |-> "check", pc |-> "new", token |-> NoToken] /\ r.pc = "idle"
        /\ authMu = "free" /\ authMu' = c /\ UNCHANGED <<bank, cache>>
    BY <1>3, <1>11 DEF Lock, At
  <2>2. LockClient(c, client[c])'
    BY <2>1 DEF LockClient, Authenticating, x
  <2>3. QED BY <1>7, <2>1, <2>2 DEF Saving
<1>12. CASE StartCommand(c)
  <2>1. PICK for \in {"login", "list"} :
          x = [call |-> for, pc |-> "new", token |-> NoToken]
    BY <1>3, <1>12 DEF StartCommand
  <2>2. c \in Commands /\ r.pc = "idle" /\ UNCHANGED <<bank, cache, authMu>>
    BY <1>12 DEF StartCommand, At
  <2>3. LockClient(c, client[c])'
    BY <2>1, <2>2 DEF LockClient, Reading, LoggingInOutside, x
  <2>4. QED BY <1>7, <2>1, <2>2, <2>3 DEF Saving
<1>13. CASE New(c)
  <2>1. r.pc = "new" /\ UNCHANGED <<bank, cache, authMu>>
        /\ x = [call |-> r.call, pc |-> IF r.call = "login" THEN "grant" ELSE "ensure",
                token |-> cache]
    BY <1>4, <1>13 DEF New, At, call
  <2>2. LockClient(c, client[c])'
    <3>1. CASE Reading(r)
      BY <2>1, <3>1 DEF LockClient, Reading, x
    <3>2. CASE c \in Commands /\ LoggingInOutside(r)
      BY <2>1, <3>2 DEF LockClient, LoggingInOutside, x
    <3>3. CASE authMu = c /\ Authenticating(r)
      <4>1. r.call = "check" /\ cache \notin rotated
        BY <1>1, <2>1, <3>3 DEF Authenticating, Saving, CacheKept
      <4>2. QED BY <2>1, <3>3, <4>1 DEF LockClient, Authenticating, x, bank
    <3>4. QED BY <1>1, <2>1, <3>1, <3>2, <3>3 DEF LockClient
  <2>3. QED BY <1>7, <2>1, <2>2 DEF Saving
<1>14. CASE EnsureMissing(c)
  <2>1. r.pc = "ensure" /\ r.token = NoToken /\ UNCHANGED <<bank, cache>>
        /\ Denied(c, r.token)
    BY <1>14 DEF EnsureMissing, At, token
  <2>2. r.call = "check" => authMu = c /\ (trouble' = "none" => cache \notin usable)
    BY <1>0, <1>1, <2>1 DEF LockClient, Reading, LoggingInOutside, Authenticating,
       Saving, Interim, TypeOK, NoToken
  <2>3. QED BY <1>10, <2>1, <2>2 DEF Saving
<1>15. CASE EnsureFresh(c)
  <2>1. r.pc = "ensure" /\ UNCHANGED <<bank, cache>> /\ Authenticated(c, r.token)
    BY <1>15 DEF EnsureFresh, At, token
  <2>2. QED BY <1>7, <1>9, <2>1 DEF Saving
<1>16. CASE call(c) = "check" /\ EnsureAged(c)
  <2>1. r.pc = "ensure" /\ r.call = "check" /\ UNCHANGED <<bank, cache, authMu>>
        /\ x = [call |-> "check", pc |-> "refresh", token |-> r.token]
    BY <1>4, <1>16 DEF EnsureAged, At, token, call
  <2>2. LockClient(c, client[c])'
    BY <1>0, <1>1, <2>1 DEF LockClient, Reading, LoggingInOutside, Authenticating,
       Saving, bank, x
  <2>3. QED BY <1>7, <2>1, <2>2 DEF Saving
<1>17. CASE RefreshRejected(c) \/ (RefreshUnanswered(c) /\ trouble' # "none")
  <2>1. r.pc = "refresh" /\ UNCHANGED <<bank, cache>> /\ Denied(c, r.token)
        /\ (r.token \notin usable \/ trouble' # "none")
    BY <1>17 DEF RefreshRejected, RefreshUnanswered, At, token
  <2>2. authMu = c /\ (trouble = "none" => r.token = cache)
    BY <1>1, <2>1 DEF LockClient, Reading, LoggingInOutside, Authenticating, Saving,
       Interim
  <2>3. QED BY <1>0, <1>10, <2>1, <2>2 DEF Saving
<1>18. CASE TruncateCache(c)
  <2>1. r.pc = "truncate" /\ cache' = NoToken /\ UNCHANGED <<bank, authMu>>
        /\ x = [call |-> r.call, pc |-> "write", token |-> r.token]
    BY <1>4, <1>18 DEF TruncateCache, At, token
  <2>2. Saving(r) /\ Saving(x)
    BY <2>1 DEF Saving
  <2>3. LockClient(c, client[c])'
    BY <1>1, <2>1 DEF LockClient, Reading, LoggingInOutside, Authenticating, Saving,
       Interim, x
  <2>4. SavesNews(c)'
    BY <1>1, <1>2, <2>1, <2>2 DEF SavesNews, bank, x
  <2>5. CacheKept'
    BY <1>1, <2>1, <2>2 DEF CacheKept, TypeOK, NoToken, bank, x
  <2>6. Undisturbed(c)
    <3>1. authMu # c => c \in Commands
      BY <1>1, <2>1 DEF LockClient, Reading, LoggingInOutside, Authenticating, Saving
    <3>2. authMu # c => trouble' # "none"
      BY <1>0, <1>18, <3>1, TokensAssumption, <2>1 DEF QuietStep, MildStep, At, Lock,
         StartCommand, New, EnsureMissing, EnsureFresh, EnsureAged, RefreshRejected,
         FetchSession, ValidateSession, PromptTAN, ActivateSession, Advances,
         LoginFails, NextCall, RunEnds, RefreshGranted, PasswordGrant, SecondaryGrant,
         WriteCache, Interim
    <3>3. QED BY <2>1, <3>2 DEF Undisturbed, bank
  <2>7. QED BY <1>5, <2>1, <2>3, <2>4, <2>5, <2>6 DEF bank
<1>19. CASE WriteCache(c)
  <2>1. r.pc = "write" /\ cache' = r.token /\ UNCHANGED bank /\ Authenticated(c, r.token)
    BY <1>19 DEF WriteCache, At, token
  <2>2. /\ Saving(r) /\ r.token \notin rotated \cup {NoToken}
        /\ ~Saving(x) /\ LockMoves /\ LockClient(c, client[c])'
        /\ x.token \in {r.token, NoToken}
    BY <1>1, <1>9, <2>1 DEF Saving, SavesNews
  <2>3. CacheKept' /\ SavesNews(c)'
    BY <2>1, <2>2 DEF CacheKept, SavesNews, bank, x
  <2>4. Undisturbed(c)
    <3>1. authMu # c => c \in Commands
      BY <1>1, <2>1 DEF LockClient, Reading, LoggingInOutside, Authenticating, Saving
    <3>2. authMu # c => trouble' # "none"
      BY <1>0, <1>19, <3>1, TokensAssumption, <2>1 DEF QuietStep, MildStep, At, Lock,
         StartCommand, New, EnsureMissing, EnsureFresh, EnsureAged, RefreshRejected,
         FetchSession, ValidateSession, PromptTAN, ActivateSession, Advances,
         LoginFails, NextCall, RunEnds, RefreshGranted, PasswordGrant, SecondaryGrant,
         TruncateCache, Interim
    <3>3. QED BY <2>1, <2>2, <3>2 DEF Undisturbed, bank
  <2>5. QED BY <1>5, <2>1, <2>2, <2>3, <2>4 DEF bank
<1>20. CASE LoginFails(c) \/ RunEnds(c)
  <2>1. GivesUp(c) /\ ~Saving(r) /\ UNCHANGED <<bank, cache>>
    BY <1>20 DEF LoginFails, RunEnds, At, Saving, Interim
  <2>2. QED BY <1>7, <1>8, <2>1
<1>21. CASE NextCall(c)
  <2>1. r.pc = "api" /\ UNCHANGED <<bank, cache, authMu>>
        /\ x = [call |-> r.call, pc |-> "ensure", token |-> r.token]
    BY <1>4, <1>21 DEF NextCall, At, token
  <2>2. Reading(r)
    BY <1>1, <2>1 DEF LockClient, LoggingInOutside, Authenticating, Saving, Interim
  <2>3. LockClient(c, client[c])'
    BY <2>1, <2>2 DEF LockClient, Reading, x
  <2>4. QED BY <1>7, <2>1, <2>3 DEF Saving
<1>22. ASSUME NEW t \in Tokens, Issue(t)
       PROVE  /\ t = issued + 1 /\ t \notin rotated \cup {cache, NoToken}
              /\ \A d \in Clients \ {c} : client'[d].token # t
  <2>1. \A d \in Clients : client[d].token \in 0..issued
    BY <1>1 DEF TypeOK
  <2>2. t = issued + 1 /\ rotated \in SUBSET (1..issued)
    BY <1>1, <1>22 DEF Issue, TypeOK
  <2>3. QED BY <1>1, <1>2, <2>1, <2>2 DEF NoToken
<1>23. ASSUME NEW t \in Tokens, RefreshGranted(c, t)
       PROVE  LockInv'
  <2>1. /\ r.pc = "refresh" /\ Issue(t) /\ r.token \in usable
        /\ rotated' = rotated \cup {r.token} /\ UNCHANGED <<cache, authMu>>
        /\ x = [call |-> r.call, pc |-> "truncate", token |-> t]
    BY <1>4, <1>23 DEF RefreshGranted, Rotate, At, token
  <2>2. authMu = c /\ r.call = "check"
    BY <1>1, <2>1 DEF LockClient, Reading, LoggingInOutside, Authenticating, Saving,
       Interim
  <2>3. LockClient(c, client[c])' /\ Saving(x)
    BY <2>1, <2>2 DEF LockClient, Authenticating, Saving, x
  <2>4. t # r.token
    BY <1>1, <1>22, <2>1
  <2>5. SavesNews(c)'
    BY <1>22, <2>1, <2>4 DEF SavesNews, x
  <2>6. CacheKept'
    BY <2>1, <2>2, <2>3 DEF CacheKept, x
  <2>7. Undisturbed(c)
    BY <2>2 DEF Undisturbed
  <2>8. QED BY <1>5, <1>22, <2>1, <2>3, <2>5, <2>6, <2>7
<1>24. ASSUME NEW t \in Tokens, PasswordGrant(c, t)
       PROVE  LockInv'
  <2>1. /\ r.pc = "grant" /\ Issue(t) /\ usable' = usable \cup {t}
        /\ UNCHANGED <<full, rotated, cache, authMu>>
        /\ x = [call |-> r.call, pc |-> "session", token |-> t]
    BY <1>4, <1>24 DEF PasswordGrant, At
  <2>2. trouble' = "none" => trouble = "none" /\ (cache \notin usable => cache \notin usable')
    BY <1>0, <1>22, <2>1
  <2>3. LockClient(c, client[c])'
    BY <1>1, <2>1, <2>2 DEF LockClient, Reading, LoggingInOutside, Authenticating,
       Saving, Interim, x
  <2>4. SavesNews(c)' /\ CacheKept'
    BY <1>6, <2>1 DEF SavesNews, Saving, x
  <2>5. Undisturbed(c)
    BY <2>1, <2>2 DEF Undisturbed
  <2>6. QED BY <1>5, <1>22, <2>1, <2>3, <2>4, <2>5
<1>25. ASSUME NEW t \in Tokens, SecondaryGrant(c, t)
       PROVE  LockInv'
  <2>1. /\ r.pc = "secondary" /\ Issue(t) /\ usable' = usable \cup {t}
        /\ UNCHANGED <<rotated, cache, authMu>>
        /\ x = [call |-> r.call, pc |-> "truncate", token |-> t]
    BY <1>4, <1>25 DEF SecondaryGrant, At
  <2>2. trouble' = "none" => trouble = "none" /\ (cache \notin usable => cache \notin usable')
    BY <1>0, <1>22, <2>1
  <2>3. LockClient(c, client[c])' /\ Saving(x)
    BY <1>1, <2>1 DEF LockClient, Reading, LoggingInOutside, Authenticating,
       Saving, Interim, x
  <2>4. SavesNews(c)'
    BY <1>22, <2>1 DEF SavesNews, x
  <2>5. CacheKept'
    <3>1. ~Saving(r)
      BY <2>1 DEF Saving
    <3>2. cache' \in rotated' => \E d \in Clients : authMu' = d /\ Saving(client'[d])
      BY <1>1, <1>2, <2>1, <3>1 DEF CacheKept
    <3>3. QED BY <2>3, <3>2 DEF CacheKept, x
  <2>6. Undisturbed(c)
    BY <2>1, <2>2 DEF Undisturbed
  <2>7. QED BY <1>5, <1>22, <2>1, <2>3, <2>4, <2>5, <2>6
<1>26. CASE LoginGoesOn(c)
  <2>1. PICK from, to \in Interim :
          /\ Advances(c, from, to)
          /\ to \in {"session", "validate"} => from = "session"
    BY <1>26, LoginAdvances
  <2>2. /\ r.pc = from /\ UNCHANGED <<bank, cache, authMu>>
        /\ x = [call |-> r.call, pc |-> to, token |-> r.token]
    BY <1>4, <2>1 DEF Advances, token, At
  <2>3. LockClient(c, client[c])'
    BY <1>0, <1>1, <2>1, <2>2 DEF LockClient, Reading, LoggingInOutside,
       Authenticating, Saving, Interim, bank, x
  <2>4. QED BY <1>7, <2>1, <2>2, <2>3 DEF Saving, Interim
<1>27. QED
  BY <1>0, <1>11, <1>12, <1>13, <1>14, <1>15, <1>16, <1>17, <1>18, <1>19, <1>20,
     <1>21, <1>23, <1>24, <1>25, <1>26 DEF QuietStep, MildStep, LoginGoesOn

LEMMA LockStep == LockKept /\ [Next]_vars => LockKept'
<1>0. SUFFICES ASSUME LockInv, [Next]_vars, trouble' # "serious" PROVE LockInv'
  <2>1. ASSUME [Next]_vars, trouble = "serious", TypeOK PROVE trouble' = "serious"
    BY <2>1 DEF Next, ClientStep, Age, Lapse, vars
  <2>2. QED BY <2>1, TypeStep DEF LockKept, LockInv
<1>1. TypeOK /\ TypeOK'
  BY <1>0, TypeStep DEF LockInv
<1>2. ASSUME UNCHANGED <<rotated, full, cache, authMu, client, trouble>>,
             usable' \subseteq usable
      PROVE  LockInv'
  BY <1>0, <1>1, <1>2 DEF LockInv, CacheKept, LockClient, SavesNews, Reading,
     LoggingInOutside, Authenticating, Saving
<1>3. CASE UNCHANGED vars \/ \E t \in Tokens : Age(t) \/ Lapse(t)
  BY <1>2, <1>3 DEF vars, Age, Lapse, bank
<1>4. QED BY <1>0, <1>3, LockClientStep DEF Next

LEMMA LockHolds == Spec => []LockKept
<1>1. Init => LockKept
  <2> SUFFICES ASSUME Init PROVE TypeOK /\ LockInv
    BY DEF LockKept
  <2>1. TypeOK
    BY TokensAssumption DEF Init, TypeOK, Idle, Calls, PCs, Interim, NoToken, Troubles
  <2>2. QED BY <2>1 DEF Init, LockInv, CacheKept, LockClient, SavesNews, Saving, Idle,
               NoToken
<1>2. QED BY <1>1, LockStep, PTL DEF Spec

\* As long as nobody renews a token outside the lock, no renewed token is lost
\* and no process dies, no refresh token is presented twice, whatever else the
\* loops and the commands do at the same time, logging in included.
THEOREM LockPreventsDoubleRefresh == Spec => []NoDoubleRefresh
<1>1. LockKept => NoDoubleRefresh
  <2> SUFFICES ASSUME LockInv, NEW c \in Clients, At(c, "refresh")
               PROVE  token(c) \notin rotated
    BY DEF NoDoubleRefresh, RefreshedOnce, LockKept
  <2>1. QED BY DEF LockInv, LockClient, Reading, LoggingInOutside, Authenticating,
               Saving, Interim, At, token
<1>2. QED BY <1>1, LockHolds, PTL

\* Until then, a token that was used is left in the cache only while it is
\* being replaced.
THEOREM CacheKeptCurrent == Spec => []CacheIsCurrent
<1>1. LockKept => CacheIsCurrent
  BY DEF LockKept, LockInv, CacheKept, CacheIsCurrent
<1>2. QED BY <1>1, LockHolds, PTL

\* As long as nothing has gone wrong and no command has replaced the cache,
\* serve logs in by itself only when the cached token is beyond use.
THEOREM LoginOnlyWhenBeyondUse == Spec => LoginOnlyWhenNeeded
<1>1. LockKept /\ [Next]_vars =>
        [\A c \in Loops : At(c, "validate") /\ At(c, "tan")' /\ trouble = "none" =>
           cache \notin usable]_vars
  BY TokensAssumption DEF LockKept, LockInv, LockClient, Reading, LoggingInOutside,
     Authenticating, Saving, At, Clients
<1>2. QED BY <1>1, LockHolds, PTL DEF Spec, LoginOnlyWhenNeeded

-----------------------------------------------------------------------------
(* The bank's desk: the loop that holds the lock. *)

LoginPCs == {"grant", "truncate", "write"} \cup Interim

\* What a step of loop c makes of its record s: it takes the lock for a check;
\* stays where it is, by a step of a login or not; begins a login; leaves with a
\* token; or ends, whatever it was about.
DeskMove(c, s, r) ==
  \/ /\ s.pc = "idle" /\ authMu = "free" /\ authMu' = c
     /\ r.pc = "new" /\ r.call = "check"
  \/ /\ s.pc # "idle" /\ r.pc # "idle" /\ authMu' = authMu
     /\ r.call = s.call \/ {s.call, r.call} \subseteq {"list", "download"}
     /\ r.call = "login" => r.pc \in LoginPCs
     /\ s.call \in {"check", "login"} =>
          \/ Stage(r) = Stage(s)
          \/ Stage(s) = "login" /\ Stage(r) = "asked"
          \/ Stage(s) = "asked" /\ Stage(r) = "answered"
  \/ /\ s.pc # "idle" /\ s.call = "check" /\ AutoReauth /\ authMu' = authMu
     /\ r.pc = "grant" /\ r.call = "login"
  \/ /\ s.pc # "idle" /\ s.call \in {"check", "login"}
     /\ Stage(s) \in {"checking", "answered"}
     /\ authMu' = IF authMu = c THEN "free" ELSE authMu
     /\ r.pc = "api" /\ r.call = "list"
  \/ /\ s.pc # "idle" /\ r.pc = "idle" /\ r.call = "check"
     /\ authMu' = IF authMu = c THEN "free" ELSE authMu

LEMMA DeskMoves ==
  ASSUME DeskInv, NEW c \in Loops, ClientStep(c)
  PROVE  DeskMove(c, client[c], client'[c])
<1> DEFINE s == client[c]
           r == client'[c]
<1>1. /\ client \in [Clients -> [call : Calls, pc : PCs, token : 0..issued]] /\ c \in Clients
      /\ c \notin Commands /\ s.call \in {"check", "list", "download", "login"}
      /\ s.pc \in {"grant"} \cup Interim => s.call = "login"
      /\ s.call = "login" => s.pc \in {"grant", "truncate", "write"} \cup Interim
  BY TokensAssumption DEF DeskInv, FullInv, TypeOK, FullClient, Clients, Calls, call
<1>2. ASSUME NEW for, NEW pc, NEW u, Moves(c, for, pc, u)
      PROVE  r.call = for /\ r.pc = pc
  BY <1>1, <1>2 DEF Moves
<1>3. ASSUME NEW pc, NEW u, Goes(c, pc, u)
      PROVE  r.call = s.call /\ r.pc = pc
  BY <1>2, <1>3 DEF Goes, call
<1>4. ASSUME s.pc # "idle", GivesUp(c)
      PROVE  DeskMove(c, s, r)
  BY <1>2, <1>4 DEF GivesUp, Unlock, DeskMove
<1>5. ASSUME s.pc \in {"ensure", "refresh", "truncate", "write"},
             NEW t, Denied(c, t)
      PROVE  DeskMove(c, s, r)
  <2>1. CASE GivesUp(c)
    BY <1>4, <1>5, <2>1
  <2>2. CASE s.call = "check" /\ AutoReauth /\ Moves(c, "login", "grant", t) /\ UNCHANGED authMu
    BY <1>2, <1>5, <2>2 DEF DeskMove
  <2>3. CASE s.call = "download" /\ Goes(c, "api", t) /\ UNCHANGED authMu
    BY <1>3, <1>5, <2>3 DEF DeskMove
  <2>4. QED BY <1>5, <2>1, <2>2, <2>3 DEF Denied, call
<1>6. ASSUME s.pc \in {"ensure", "write"}, NEW t, Authenticated(c, t)
      PROVE  DeskMove(c, s, r)
  <2>1. CASE GivesUp(c)
    BY <1>4, <1>6, <2>1
  <2>2. CASE /\ s.call \in {"list", "download"}
             /\ Moves(c, "download", "api", t) /\ Unlock(c)
    <3>1. authMu # c
      BY <1>1, <2>2 DEF DeskInv, call
    <3>2. r.call = "download" /\ r.pc = "api" /\ authMu' = authMu
      BY <1>2, <2>2, <3>1 DEF Unlock
    <3>3. QED BY <1>6, <2>2, <3>2 DEF DeskMove
  <2>3. CASE /\ s.call \in {"check", "login"}
             /\ Moves(c, "list", "api", t) /\ Unlock(c)
    <3>1. Stage(s) \in {"checking", "answered"}
      BY <1>1, <1>6, <2>3 DEF Stage, Interim
    <3>2. r.call = "list" /\ r.pc = "api"
          /\ authMu' = IF authMu = c THEN "free" ELSE authMu
      BY <1>2, <2>3 DEF Unlock
    <3>3. QED BY <1>6, <2>3, <3>1, <3>2 DEF DeskMove
  <2>4. QED BY <1>1, <1>6, <2>1, <2>2, <2>3 DEF Authenticated, call
<1>7. ASSUME s.pc # "idle", NEW pc \in PCs \ {"idle"}, NEW u, Goes(c, pc, u),
             UNCHANGED authMu, s.call = "login" => pc \in LoginPCs,
             s.call # "login" => pc \notin {"grant"} \cup Interim,
             s.call = "login" => \/ Stage([s EXCEPT !.pc = pc]) = Stage(s)
                                 \/ s.pc = "validate" /\ pc = "tan"
                                 \/ s.pc = "tan" /\ pc = "activate"
      PROVE  DeskMove(c, s, r)
  <2>1. r.call = s.call /\ r.pc = pc
    BY <1>3, <1>7
  <2>3. CASE s.call = "login"
    <3>1. [s EXCEPT !.pc = pc].pc = pc /\ [s EXCEPT !.pc = pc].call = s.call
      BY <1>1
    <3>2. Stage(r) = Stage([s EXCEPT !.pc = pc])
      BY <2>1, <3>1 DEF Stage
    <3>3. \/ Stage(r) = Stage(s)
          \/ Stage(s) = "login" /\ Stage(r) = "asked"
          \/ Stage(s) = "asked" /\ Stage(r) = "answered"
      <4>1. CASE s.pc = "validate" /\ pc = "tan"
        BY <2>1, <2>3, <4>1 DEF Stage
      <4>2. CASE s.pc = "tan" /\ pc = "activate"
        BY <2>1, <2>3, <4>2 DEF Stage
      <4>3. QED BY <1>7, <2>3, <3>2, <4>1, <4>2
    <3>4. QED BY <1>7, <2>1, <2>3, <3>3 DEF DeskMove
  <2>4. CASE s.call # "login"
    <3>1. ASSUME s.call = "check" PROVE Stage(s) = "checking" /\ Stage(r) = "checking"
      <4>1. r.call = "check" /\ r.pc \notin {"grant"} \cup Interim
        BY <1>7, <2>1, <2>4, <3>1
      <4>2. Stage(s) = "checking"
        BY <1>1, <3>1 DEF Stage, Interim
      <4>3. Stage(r) = "checking"
        BY <4>1 DEF Stage, Interim
      <4>4. QED BY <4>2, <4>3
    <3>2. QED BY <1>7, <2>1, <2>4, <3>1 DEF DeskMove
  <2>5. QED BY <2>3, <2>4
<1>8. CASE Lock(c)
  BY <1>2, <1>8 DEF Lock, At, DeskMove
<1>9. CASE StartCommand(c)
  BY <1>1, <1>9 DEF StartCommand
<1>10. CASE New(c) \/ EnsureAged(c) \/ NextCall(c) \/ TruncateCache(c)
            \/ \E t \in Tokens : RefreshGranted(c, t)
  <2>1. /\ s.pc \in {"new", "ensure", "api", "truncate", "refresh"}
        /\ UNCHANGED authMu
        /\ \E pc, u :
             /\ pc \in PCs \ {"idle"} /\ Goes(c, pc, u) /\ (s.pc = "truncate" => pc = "write")
             /\ s.call # "login" => pc \notin {"grant"} \cup Interim
    BY <1>10 DEF New, EnsureAged, NextCall, TruncateCache, RefreshGranted, At, PCs, Interim,
                 call
  <2>2. PICK pc, u :
          /\ pc \in PCs \ {"idle"} /\ Goes(c, pc, u) /\ (s.pc = "truncate" => pc = "write")
          /\ s.call # "login" => pc \notin {"grant"} \cup Interim
    BY <2>1
  <2>3. s.call = "login" => s.pc = "truncate" /\ pc = "write" /\ pc \in LoginPCs
    BY <1>1, <2>1, <2>2 DEF Interim, LoginPCs
  <2>4. s.call = "login" => Stage([s EXCEPT !.pc = pc]) = Stage(s)
    BY <1>1, <2>3 DEF Stage
  <2>5. QED BY <1>7, <2>1, <2>2, <2>3, <2>4
<1>11. CASE EnsureMissing(c) \/ RefreshRejected(c) \/ RefreshUnanswered(c) \/ SaveFails(c)
            \/ \E t \in Tokens : RefreshLost(c, t)
  <2>1. /\ s.pc \in {"ensure", "refresh", "truncate", "write"}
        /\ GivesUp(c) \/ \E t : Denied(c, t)
    BY <1>11 DEF EnsureMissing, RefreshRejected, RefreshUnanswered, SaveFails, RefreshLost, At
  <2>2. QED BY <1>4, <1>5, <2>1
<1>12. CASE EnsureFresh(c) \/ WriteCache(c)
  <2>1. s.pc \in {"ensure", "write"} /\ \E t : Authenticated(c, t)
    BY <1>12 DEF EnsureFresh, WriteCache, At
  <2>2. QED BY <1>6, <2>1
<1>13. CASE LoginFails(c) \/ RunEnds(c)
  <2>1. s.pc # "idle" /\ GivesUp(c)
    BY <1>13 DEF LoginFails, RunEnds, At, Interim
  <2>2. QED BY <1>4, <2>1
<1>14. CASE LoginGoesOn(c) \/ \E t \in Tokens : PasswordGrant(c, t) \/ SecondaryGrant(c, t)
  <2>1. /\ s.pc \in {"grant"} \cup Interim /\ UNCHANGED authMu
        /\ \E pc, u : /\ Goes(c, pc, u)
                      /\ \/ s.pc = "grant" /\ pc = "session"
                         \/ s.pc = "session" /\ pc = "validate"
                         \/ s.pc = "validate" /\ pc = "tan"
                         \/ s.pc = "tan" /\ pc = "activate"
                         \/ s.pc = "activate" /\ pc = "secondary"
                         \/ s.pc = "secondary" /\ pc = "truncate"
    BY <1>14 DEF LoginGoesOn, FetchSession, ValidateSession, PromptTAN, ActivateSession,
                 Advances, PasswordGrant, SecondaryGrant, At, Interim
  <2>2. PICK pc, u : /\ Goes(c, pc, u)
                     /\ \/ s.pc = "grant" /\ pc = "session"
                        \/ s.pc = "session" /\ pc = "validate"
                        \/ s.pc = "validate" /\ pc = "tan"
                        \/ s.pc = "tan" /\ pc = "activate"
                        \/ s.pc = "activate" /\ pc = "secondary"
                        \/ s.pc = "secondary" /\ pc = "truncate"
    BY <2>1
  <2>3. pc \in PCs \ {"idle"} /\ pc \in LoginPCs /\ s.pc # "idle" /\ s.call = "login"
    BY <1>1, <2>1, <2>2 DEF PCs, LoginPCs, Interim
  <2>4. \/ Stage([s EXCEPT !.pc = pc]) = Stage(s)
        \/ s.pc = "validate" /\ pc = "tan"
        \/ s.pc = "tan" /\ pc = "activate"
    <3>1. [s EXCEPT !.pc = pc].pc = pc /\ [s EXCEPT !.pc = pc].call = "login"
      BY <1>1, <2>3
    <3>2. QED BY <2>2, <2>3, <3>1 DEF Stage
  <2>5. QED BY <1>7, <2>1, <2>2, <2>3, <2>4
<1>15. QED
  BY <1>8, <1>9, <1>10, <1>11, <1>12, <1>13, <1>14
     DEF ClientStep, QuietStep, MildStep, SeriousStep, LoginGoesOn

\* A step of another process than serve leaves the lock alone.
LEMMA CommandsPassBy ==
  ASSUME DeskInv, NEW c \in Commands, ClientStep(c)
  PROVE  authMu' = authMu /\ \A l \in Loops : client'[l] = client[l]
<1>1. c \notin Loops /\ authMu # c /\ c \in Clients /\ TypeOK
  BY TokensAssumption DEF DeskInv, FullInv, TypeOK, Clients
<1>2. Unlock(c) => authMu' = authMu
  BY <1>1 DEF Unlock
<1>3. authMu' = authMu
  BY <1>1, <1>2 DEF ClientStep, QuietStep, MildStep, SeriousStep, Lock, StartCommand, New,
     EnsureMissing, EnsureFresh, EnsureAged, RefreshRejected, RefreshUnanswered,
     TruncateCache, WriteCache, SaveFails, LoginFails, NextCall, RunEnds,
     RefreshGranted, RefreshLost, PasswordGrant, SecondaryGrant, FetchSession,
     ValidateSession, PromptTAN, ActivateSession, Advances, Authenticated, Denied, GivesUp
<1>4. \A l \in Loops : client'[l] = client[l]
  BY <1>1, StepIsLocal DEF Clients
<1>5. QED BY <1>3, <1>4

\* When serve dies, or a command does.
LEMMA KillMoves ==
  ASSUME DeskInv, NEW P \in Processes, Kill(P)
  PROVE  \/ authMu' = "free" /\ \A l \in Loops : client'[l] = Idle
         \/ authMu' = authMu /\ \A l \in Loops : client'[l] = client[l]
<1>1. /\ authMu \in Loops \cup {"free"}
      /\ P = Loops \/ \E c \in Commands : P = {c}
      /\ client' = [c \in Clients |-> IF c \in P THEN Idle ELSE client[c]]
      /\ authMu' = IF authMu \in P THEN "free" ELSE authMu
  BY DEF DeskInv, FullInv, TypeOK, Processes, Kill
<1>2. CASE P = Loops
  BY <1>1, <1>2 DEF Clients
<1>3. CASE \E c \in Commands : P = {c}
  BY <1>1, <1>3, TokensAssumption DEF Clients
<1>4. QED BY <1>1, <1>2, <1>3

\* A loop's record and the lock, as DeskInv relates them.
AboutLock(l, mu, x) ==
  /\ mu = l <=> x.pc # "idle" /\ x.call \in {"check", "login"}
  /\ x.pc = "idle" => x.call = "check"
  /\ x.call = "login" => x.pc \in LoginPCs

LEMMA DeskStep == DeskInv /\ [Next]_vars => DeskInv'
<1>0. SUFFICES ASSUME DeskInv, [Next]_vars PROVE DeskInv'
  OBVIOUS
<1>1. FullInv'
  BY <1>0, FullStep DEF DeskInv
<1>2. \A l \in Loops : AboutLock(l, authMu, client[l])
  BY <1>0 DEF DeskInv, AboutLock, At, call, LoginPCs
<1>3. SUFFICES \A l \in Loops : AboutLock(l, authMu', client'[l])
  BY <1>1 DEF DeskInv, AboutLock, At, call, LoginPCs
<1>4. CASE authMu' = authMu /\ \A l \in Loops : client'[l] = client[l]
  BY <1>2, <1>4
<1>5. CASE authMu' = "free" /\ \A l \in Loops : client'[l] = Idle
  BY <1>5, TokensAssumption DEF AboutLock, Idle
<1>6. ASSUME NEW c \in Loops, ClientStep(c)
      PROVE  \A l \in Loops : AboutLock(l, authMu', client'[l])
  <2>1. DeskMove(c, client[c], client'[c])
    BY <1>0, <1>6, DeskMoves
  <2>2. AboutLock(c, authMu, client[c]) /\ c # "free"
    BY <1>2, TokensAssumption
  <2>3. AboutLock(c, authMu', client'[c])
    BY <2>1, <2>2 DEF DeskMove, AboutLock, LoginPCs
  <2>4. ASSUME NEW l \in Loops \ {c} PROVE AboutLock(l, authMu', client'[l])
    <3>1. client'[l] = client[l]
      BY <1>0, <1>6, StepIsLocal DEF DeskInv, FullInv, Clients
    <3>2. authMu' = l <=> authMu = l
      BY <2>1, TokensAssumption DEF DeskMove
    <3>3. QED BY <1>2, <3>1, <3>2 DEF AboutLock
  <2>5. QED BY <2>3, <2>4
<1>7. \/ authMu' = authMu /\ \A l \in Loops : client'[l] = client[l]
      \/ authMu' = "free" /\ \A l \in Loops : client'[l] = Idle
      \/ \E c \in Loops : ClientStep(c)
  <2>1. CASE UNCHANGED vars \/ \E t \in Tokens : Age(t) \/ Lapse(t)
    BY <2>1 DEF vars, Age, Lapse
  <2>2. CASE \E c \in Clients : ClientStep(c)
    BY <1>0, <2>2, CommandsPassBy DEF Clients
  <2>3. CASE \E P \in Processes : Kill(P)
    BY <1>0, <2>3, KillMoves
  <2>4. QED BY <1>0, <2>1, <2>2, <2>3 DEF Next
<1>8. QED BY <1>4, <1>5, <1>6, <1>7

LEMMA DeskHolds == Spec => []DeskInv
<1>1. Init => DeskInv
  <2> SUFFICES ASSUME Init PROVE DeskInv
    OBVIOUS
  <2>1. TypeOK
    BY TokensAssumption DEF Init, TypeOK, Idle, Calls, PCs, Interim, NoToken, Troubles
  <2>2. FullInv
    BY <2>1 DEF Init, FullInv, FullClient, Interim, Idle, NoToken
  <2>3. QED BY <2>2, TokensAssumption DEF Init, DeskInv, At, call, Idle, Clients
<1>2. QED BY <1>1, DeskStep, PTL DEF Spec

\* Nothing of the desk or the work changes as long as the loops and the lock do
\* not.
LEMMA DeskStandsStill ==
  ASSUME TypeOK, authMu' = authMu, \A l \in Loops : client'[l] = client[l]
  PROVE  desk' = desk /\ working' = working
<1>1. authMu # "free" => Stage(client'[authMu]) = Stage(client[authMu])
  BY DEF TypeOK
<1>2. desk' = desk
  BY <1>1 DEF desk
<1>3. working' = working
  BY DEF working, call
<1>4. QED BY <1>2, <1>3

\* A loop's step is a step at the desk, the end of its work, or neither.
LEMMA DeskLoopStep ==
  ASSUME DeskInv, NEW c \in Loops, ClientStep(c)
  PROVE  Desk!Next
<1> DEFINE s == client[c]
           r == client'[c]
           b == "the bank"
<1>1. /\ TypeOK /\ c # "free" /\ c # "nobody" /\ c \in Clients
      /\ authMu \in Loops \cup {"free"} /\ "nobody" \notin Loops
      /\ authMu = c <=> s.pc # "idle" /\ s.call \in {"check", "login"}
      /\ s.pc = "idle" => s.call = "check"
      /\ s.pc \in {"grant"} \cup Interim => s.call = "login"
      /\ s.call \in {"check", "list", "download", "login"}
  BY TokensAssumption DEF DeskInv, FullInv, FullClient, TypeOK, At, call, Clients, Calls
<1>2. DeskMove(c, s, r)
  BY DeskMoves
<1>3. \A d \in Loops \ {c} : client'[d] = client[d]
  BY <1>1, StepIsLocal DEF Clients
<1>4. working' = IF r.call \in {"list", "download"} THEN working \cup {c} ELSE working \ {c}
  BY <1>3 DEF working, call
<1>5. c \in working <=> s.call \in {"list", "download"}
  BY DEF working, call
<1>6. /\ desk[b] = IF authMu = "free" THEN [at |-> "nobody", stage |-> "free"]
                   ELSE [at |-> authMu, stage |-> Stage(client[authMu])]
      /\ desk'[b] = IF authMu' = "free" THEN [at |-> "nobody", stage |-> "free"]
                    ELSE [at |-> authMu', stage |-> Stage(client'[authMu'])]
  BY DEF desk
<1>7. ASSUME NEW v, desk'[b] = v
      PROVE  desk' = [desk EXCEPT ![b] = v]
  <2>1. desk = [x \in {b} |-> desk[x]] /\ desk' = [x \in {b} |-> desk'[x]]
    BY DEF desk
  <2>2. QED BY <1>7, <2>1
<1>8. ASSUME s.call \in {"list", "download"}, authMu' = authMu
      PROVE  desk' = desk
  <2>1. authMu # c
    BY <1>1, <1>8
  <2>2. authMu # "free" => client'[authMu] = client[authMu]
    BY <1>1, <1>3, <2>1
  <2>3. QED BY <1>8, <2>2 DEF desk
<1>9. ASSUME s.pc # "idle", s.call \in {"check", "login"}
      PROVE  /\ desk[b] = [at |-> c, stage |-> Stage(s)]
             /\ desk[b].at = c /\ desk[b].stage = Stage(s)
  <2>1. desk[b] = [at |-> c, stage |-> Stage(s)]
    BY <1>1, <1>6, <1>9
  <2> HIDE DEF b, s
  <2>2. QED BY <2>1
<1>10. CASE /\ s.pc = "idle" /\ authMu = "free" /\ authMu' = c
            /\ r.pc = "new" /\ r.call = "check"
  <2>1. Stage(r) = "checking"
    BY <1>10 DEF Stage, Interim
  <2>2. desk[b] = Desk!Free /\ desk'[b] = [at |-> c, stage |-> "checking"]
    BY <1>1, <1>6, <1>10, <2>1 DEF Desk!Free
  <2>3. c \notin working /\ working' = working
    BY <1>1, <1>4, <1>5, <1>10
  <2>4. desk[b].at # c
    <3>1. desk[b] = [at |-> "nobody", stage |-> "free"]
      BY <2>2 DEF Desk!Free
    <3> HIDE DEF b
    <3>2. QED BY <1>1, <3>1
  <2>5. Desk!Take(c, b)
    BY <1>7, <2>2, <2>3, <2>4 DEF Desk!Take
  <2>6. QED BY <2>5 DEF Desk!Next
<1>11. CASE /\ s.pc # "idle" /\ r.pc # "idle" /\ authMu' = authMu
            /\ r.call = s.call \/ {s.call, r.call} \subseteq {"list", "download"}
            /\ s.call \in {"check", "login"} =>
                 \/ Stage(r) = Stage(s)
                 \/ Stage(s) = "login" /\ Stage(r) = "asked"
                 \/ Stage(s) = "asked" /\ Stage(r) = "answered"
  <2>1. working' = working
    BY <1>4, <1>5, <1>11
  <2>2. CASE s.call \in {"list", "download"}
    BY <1>8, <1>11, <2>1, <2>2 DEF Desk!Next, Desk!vars
  <2>3. CASE s.call \in {"check", "login"}
    <3>1. authMu = c /\ desk[b].at = c /\ desk[b].stage = Stage(s)
          /\ desk[b] = [at |-> c, stage |-> Stage(s)]
      BY <1>1, <1>9, <1>11, <2>3
    <3>2. desk'[b] = [at |-> c, stage |-> Stage(r)]
      BY <1>1, <1>6, <1>11, <3>1
    <3>3. CASE Stage(r) = Stage(s)
      <4>1. desk' = desk
        BY <3>1, <3>2, <3>3 DEF desk
      <4>2. QED BY <2>1, <4>1 DEF Desk!Next, Desk!vars
    <3>4. CASE Stage(r) # Stage(s)
      <4>1. desk' = [desk EXCEPT ![b] = [at |-> desk[b].at, stage |-> Stage(r)]]
        BY <1>7, <3>1, <3>2
      <4>2. Desk!Ask(b) \/ Desk!Answer(b)
        BY <1>11, <2>1, <2>3, <3>1, <3>4, <4>1 DEF Desk!Ask, Desk!Answer, Desk!Turns
      <4>3. QED BY <4>2 DEF Desk!Next, Desk!AtDesk
    <3>5. QED BY <3>3, <3>4
  <2>4. QED BY <1>1, <2>2, <2>3
<1>12. CASE /\ s.pc # "idle" /\ s.call = "check" /\ AutoReauth /\ authMu' = authMu
            /\ r.pc = "grant" /\ r.call = "login"
  <2>1. s.pc \notin {"grant"} \cup Interim
    BY <1>1, <1>12
  <2>2. Stage(s) = "checking"
    BY <1>12, <2>1 DEF Stage, Interim
  <2>3. Stage(r) = "login"
    BY <1>12 DEF Stage
  <2>4. working' = working
    BY <1>4, <1>5, <1>12
  <2>5. desk[b].at = c /\ desk[b].stage = "checking" /\ desk'[b] = [at |-> c, stage |-> "login"]
    BY <1>1, <1>6, <1>9, <1>12, <2>2, <2>3
  <2>6. desk' = [desk EXCEPT ![b] = [at |-> desk[b].at, stage |-> "login"]]
    BY <1>7, <2>5
  <2>7. Desk!StartLogin(b)
    BY <1>12, <2>4, <2>5, <2>6 DEF Desk!StartLogin, Desk!Turns
  <2>8. QED BY <2>7 DEF Desk!Next, Desk!AtDesk
<1>13. CASE /\ s.pc # "idle" /\ s.call \in {"check", "login"}
            /\ Stage(s) \in {"checking", "answered"}
            /\ authMu' = IF authMu = c THEN "free" ELSE authMu
            /\ r.pc = "api" /\ r.call = "list"
  <2>1. desk[b].at = c /\ desk[b].stage = Stage(s) /\ desk'[b] = Desk!Free
    BY <1>1, <1>6, <1>9, <1>13 DEF Desk!Free
  <2>2. desk' = [desk EXCEPT ![b] = Desk!Free] /\ working' = working \cup {c}
    BY <1>4, <1>7, <1>13, <2>1
  <2>3. Desk!Work(b)
    BY <1>13, <2>1, <2>2 DEF Desk!Work
  <2>4. QED BY <2>3 DEF Desk!Next, Desk!AtDesk
<1>14. CASE /\ s.pc # "idle" /\ r.pc = "idle" /\ r.call = "check"
            /\ authMu' = IF authMu = c THEN "free" ELSE authMu
  <2>1. CASE s.call \in {"check", "login"}
    <3>1. desk[b].at = c /\ desk'[b] = Desk!Free
      BY <1>1, <1>6, <1>9, <1>14, <2>1 DEF Desk!Free
    <3>2. desk' = [desk EXCEPT ![b] = Desk!Free] /\ working' = working
      BY <1>4, <1>5, <1>7, <1>14, <2>1, <3>1
    <3>3. desk[b] # Desk!Free
      <4>1. Desk!Free.at = "nobody"
        BY DEF Desk!Free
      <4>2. QED BY <1>1, <3>1, <4>1
    <3>4. Desk!Leave(b)
      BY <3>2, <3>3 DEF Desk!Leave
    <3>5. QED BY <3>4 DEF Desk!Next, Desk!AtDesk
  <2>2. CASE s.call \in {"list", "download"}
    <3>1. authMu' = authMu
      BY <1>1, <1>14, <2>2
    <3>2. desk' = desk /\ c \in working /\ working' = working \ {c}
      BY <1>4, <1>5, <1>8, <1>14, <2>2, <3>1
    <3>3. QED BY <3>2 DEF Desk!Next, Desk!Done
  <2>3. QED BY <1>1, <2>1, <2>2
<1>15. QED BY <1>2, <1>10, <1>11, <1>12, <1>13, <1>14 DEF DeskMove

\* Whatever goes wrong, dies or runs next to them, the loops of serve, with all
\* the steps of a token check and a login, keep to what LoginDesk says of a
\* bank's desk.
THEOREM TokensKeepDesk == Spec => KeepsDesk
<1>1. Init => Desk!Init
  <2> SUFFICES ASSUME Init PROVE Desk!Init
    OBVIOUS
  <2>1. desk = [b \in {"the bank"} |-> Desk!Free]
    BY DEF Init, desk, Desk!Free
  <2>2. \A l \in Loops : call(l) = "check"
    BY DEF Init, call, Idle, Clients
  <2>3. working = {}
    BY <2>2 DEF working
  <2>4. QED BY <2>1, <2>3 DEF Desk!Init
<1>2. DeskInv /\ [Next]_vars => [Desk!Next]_<<desk, working>>
  <2> SUFFICES ASSUME DeskInv, [Next]_vars
               PROVE  Desk!Next \/ UNCHANGED <<desk, working>>
    OBVIOUS
  <2>1. TypeOK
    BY DEF DeskInv, FullInv
  <2>2. CASE authMu' = authMu /\ \A l \in Loops : client'[l] = client[l]
    BY <2>1, <2>2, DeskStandsStill
  <2>3. CASE authMu' = "free" /\ \A l \in Loops : client'[l] = Idle
    <3>1. desk' = [b \in {"the bank"} |-> Desk!Free] /\ working' = {}
      BY <2>3 DEF desk, working, call, Idle, Desk!Free
    <3>2. QED BY <3>1 DEF Desk!Next, Desk!Restart
  <2>4. ASSUME NEW c \in Loops, ClientStep(c) PROVE Desk!Next
    BY <2>4, DeskLoopStep
  <2>5. CASE UNCHANGED vars \/ \E t \in Tokens : Age(t) \/ Lapse(t)
    BY <2>2, <2>5 DEF vars, Age, Lapse
  <2>6. CASE \E c \in Clients : ClientStep(c)
    BY <2>2, <2>4, <2>6, CommandsPassBy DEF Clients
  <2>7. CASE \E P \in Processes : Kill(P)
    BY <2>2, <2>3, <2>7, KillMoves
  <2>8. QED BY <2>5, <2>6, <2>7 DEF Next
<1>3. QED BY <1>1, <1>2, DeskHolds, PTL DEF Spec, KeepsDesk, Desk!Spec, Desk!vars
=============================================================================
