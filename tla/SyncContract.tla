---------------------------- MODULE SyncContract ----------------------------
(***************************************************************************)
(* What a sync run promises, with no word of watermarks, retries or the    *)
(* order of its work: it works on the documents the bank listed when it    *)
(* began, hands paperless-ngx none but those, never takes one back, and    *)
(* reports success only when each of them that it answers for is covered   *)
(* by one paperless-ngx has accepted.                                      *)
(***************************************************************************)
CONSTANTS
  Docs,
  Runners,
  Wanted,    \* [Runners -> SUBSET Docs]: the types a runner uploads
  Promised,  \* [Runners -> SUBSET Docs]: the types it answers for
  Behind,    \* <<d, e>>: should d appear after e, or be left out of a list
             \* that has e, nobody answers for d
  ListingSkips,  \* may a list leave out documents?
  Covers     \* <<e, d>>: having e, paperless-ngx needs no d

VARIABLES
  inbox,    \* what has appeared at the bank
  excused,  \* what nobody answers for
  taken,    \* what paperless-ngx has accepted
  listed,   \* what each run works on
  state     \* none, running, ok or error

vars == <<inbox, excused, taken, listed, state>>

\* What appears, or is left out, when the documents L are listed.
Passed(S, L) == {d \in S : \E e \in L : <<d, e>> \in Behind}

Covered(d) == \E e \in taken : <<e, d>> \in Covers

Init ==
  /\ inbox \in SUBSET Docs
  /\ excused = {}
  /\ taken = {}
  /\ listed = [r \in Runners |-> {}]
  /\ state = [r \in Runners |-> "none"]

Arrive(d) ==
  /\ d \notin inbox
  /\ inbox' = inbox \cup {d}
  /\ excused' = excused \cup Passed({d}, inbox)
  /\ UNCHANGED <<taken, listed, state>>

Begin(r, L) ==
  /\ state[r] # "running"
  /\ L \subseteq inbox
  /\ ListingSkips \/ L = inbox
  /\ state' = [state EXCEPT ![r] = "running"]
  /\ listed' = [listed EXCEPT ![r] = L]
  /\ excused' = excused \cup Passed(inbox \ L, L)
  /\ UNCHANGED <<inbox, taken>>

Deliver(r, d) ==
  /\ state[r] = "running"
  /\ d \in listed[r] \cap Wanted[r]
  /\ taken' = taken \cup {d}
  /\ UNCHANGED <<inbox, excused, listed, state>>

Succeed(r) ==
  /\ state[r] = "running"
  /\ \A d \in (listed[r] \cap Promised[r]) \ excused : Covered(d)
  /\ state' = [state EXCEPT ![r] = "ok"]
  /\ UNCHANGED <<inbox, excused, taken, listed>>

\* It reports an error, or the process dies and reports nothing.
Stop(r) ==
  /\ \E o \in {"error", "none"} : state' = [state EXCEPT ![r] = o]
  /\ \E L \in {listed[r], {}} : listed' = [listed EXCEPT ![r] = L]
  /\ UNCHANGED <<inbox, excused, taken>>

Next ==
  \/ \E d \in Docs : Arrive(d)
  \/ \E r \in Runners :
       \/ \E L \in SUBSET inbox : Begin(r, L)
       \/ Succeed(r) \/ Stop(r)
       \/ \E d \in Docs : Deliver(r, d)

Spec == Init /\ [][Next]_vars
=============================================================================
