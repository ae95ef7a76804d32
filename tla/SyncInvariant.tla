--------------------------- MODULE SyncInvariant ---------------------------
(***************************************************************************)
(* Why the watermark of module Sync may be trusted: the inductive          *)
(* invariant that shows what it hides, the conditions on the bank and on   *)
(* the configuration under which that is nothing at all, and the contract  *)
(* of a run.                                                               *)
(***************************************************************************)
EXTENDS Sync

\* With the documents S accepted, runner r owes nothing for d.
Settled(S, L, r, d) == Owed(r, d, L) => CoveredBy(S, d)

\* w may be used as a watermark over the inbox I: it is the date of one of its
\* documents, so that whatever appears behind it is late, and everything
\* behind it that anyone owes is dealt with.
SafeMark(w, I, L, S) ==
  /\ w # Zero => \E e \in I : DateOf[e] = w
  /\ HasWatermarkPath =>
       \A r \in Runners, d \in I : DateOf[d] < w => Settled(S, L, r, d)

\* What the list s.docs does not have is no older than the list, or late: it
\* appeared afterwards or was left out.
LaterIsNewer(s, I, L) ==
  \A e \in I \ (s.docs \cup L), f \in s.docs : DateOf[f] <= DateOf[e]

RunnerInv(r, s, I, L, S) ==
  /\ s.todo \subseteq s.docs
  /\ s.docs \subseteq I
  /\ LaterIsNewer(s, I, L)
  /\ SafeMark(s.watermark, I, L, S)
  /\ SafeMark(s.newest, I, L, S)
  /\ s.watermark # Zero \/ s.pc = "write" => HasWatermarkPath
  /\ s.pc \in {"fetch", "upload"} =>
       s.doc \in Earliest(s.todo) /\ mimeTypeAllowed(r, s.doc)
  /\ s.pc \in {"idle", "save", "write"} => s.todo = {}
  /\ s.pc # "idle" => s.outcome = "none"
  /\ s.pc = "idle" => ~s.failed
  /\ s.outcome # "error" /\ ~s.failed =>
       \A d \in s.docs \ s.todo : Settled(S, L, r, d)

\* The inductive invariant: what paperless-ngx holds it has accepted, the
\* watermark file and both marks of every run are safe, and a run without
\* failures has dealt with all it has passed (sync.go:59-75).
IInv ==
  /\ TypeOK
  /\ queued \cup archived \subseteq accepted
  /\ wfile # Zero => HasWatermarkPath
  /\ SafeMark(wfile, inbox, late, accepted)
  /\ \A r \in Runners : RunnerInv(r, run[r], inbox, late, accepted)

-----------------------------------------------------------------------------
(* When nothing at all is hidden. *)

\* Documents carry dates, appear in the order of their dates and are listed.
OrderedFeed ==
  ~Backdating /\ ~ListingSkips /\ \A d \in Docs : DateOf[d] # Zero

\* All runners that share the watermark file want the same types.
OneTypeList ==
  \A q, r \in Runners : allowedMIMETypes(q) = allowedMIMETypes(r)

\* Besides, paperless-ngx consumes what it has queued.
Trustworthy == OrderedFeed /\ OneTypeList /\ ~ConsumptionFails

-----------------------------------------------------------------------------
(* A run as its caller sees it. *)

\* The documents each runner works on, and how it stands.
listed == [r \in Runners |-> run[r].docs]
state == [r \in Runners |-> IF run[r].pc = "idle" THEN run[r].outcome
                                                  ELSE "running"]

wanted == [r \in Runners |-> {d \in Docs : mimeTypeAllowed(r, d)}]

\* A watermark excuses what appears, or is left out, behind a newer document.
excused == IF HasWatermarkPath THEN late ELSE {}
behind ==
  {p \in Docs \X Docs : HasWatermarkPath /\ DateOf[p[1]] < DateOf[p[2]]}
promised == [r \in Runners |-> {d \in Docs : Owed(r, d, {})}]
covers == {p \in Docs \X Docs : p[1] = p[2] \/ StoredName(p[1]) = Filename[p[2]]}

Contract ==
  INSTANCE SyncContract WITH taken <- accepted, Wanted <- wanted,
    Promised <- promised, Behind <- behind, Covers <- covers

\* Every runner keeps the contract, in which a watermark shows only in what
\* it excuses: "purely a performance optimization" (Architecture.md:199) for
\* everything else.
KeepsContract == Contract!Spec
=============================================================================
