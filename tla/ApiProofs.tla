------------------------------ MODULE ApiProofs ------------------------------
(***************************************************************************)
(* Theorems about ApiClient and ApiValidate, for any models and tables, any *)
(* depth, and whatever errors.As makes of a CompositeError.                *)
(***************************************************************************)
EXTENDS ApiClient, SequenceTheorems, TLAPS

Everything == <<vars, callVars>>

-----------------------------------------------------------------------------
(* What the calls' steps do to their local variables. *)

Errors == Seq(ErrorSet)

LEMMA NoErrors == <<>> \in Errors
BY DEF Errors

\* A new call is well-formed and has no errors.
LEMMA CallFacts ==
  ASSUME NEW type \in Types, NEW at \in Seq(StepSet)
  PROVE  /\ Call(type, at) \in CallSet
         /\ Call(type, at).type = type
         /\ Call(type, at).at = at
         /\ Call(type, at).row = 1
         /\ Call(type, at).res = <<>>
BY DEF Call, CallSet

\* Outside the calls under way there is NoCall.
LEMMA NoCallFacts == NoCall \in CallSet /\ NoCall.type = "none" /\ NoCall.res = <<>>
BY DEF NoCall, Call, CallSet

\* A call that goes on adds the errors to its own.
LEMMA PassesFacts ==
  ASSUME NEW c \in CallSet, NEW errs \in Errors
  PROVE  /\ Passes(c, errs) \in CallSet
         /\ Passes(c, errs).type = c.type
         /\ Passes(c, errs).at = c.at
         /\ Passes(c, errs).row = c.row + 1
         /\ Passes(c, errs).res = c.res \o errs
BY DEF Passes, CallSet, Errors

LEMMA PassesElementFacts ==
  ASSUME NEW c \in CallSet
  PROVE  /\ PassesElement(c) \in CallSet
         /\ PassesElement(c).type = c.type
         /\ PassesElement(c).at = c.at
         /\ PassesElement(c).row = c.row
         /\ PassesElement(c).res = c.res
BY DEF PassesElement, CallSet

\* Renaming keeps the first error, for either behaviour of errors.As.
LEMMA RenameFacts ==
  ASSUME NEW step \in StepSet, NEW errs \in Errors, errs # <<>>
  PROVE  /\ Rename(step, errs) \in Errors
         /\ Rename(step, errs) # <<>>
         /\ Rename(step, errs)[1].id = errs[1].id
<1> DEFINE named == [j \in 1..Len(errs) |->
                      [id |-> errs[j].id, path |-> <<step>> \o errs[j].path]]
<1>1. Len(errs) \in Nat \ {0}
  BY DEF Errors
<1>2. ASSUME NEW j \in 1..Len(errs)
      PROVE  [id |-> errs[j].id, path |-> <<step>> \o errs[j].path] \in ErrorSet
  <2>1. errs[j] \in ErrorSet
    BY DEF Errors
  <2>2. <<step>> \o errs[j].path \in Seq(StepSet)
    BY <2>1 DEF ErrorSet
  <2>3. QED BY <2>1, <2>2 DEF ErrorSet
<1>3. named \in Errors /\ Len(named) = Len(errs)
  BY <1>1, <1>2 DEF Errors
<1>4. named[1] \in ErrorSet /\ named[1].id = errs[1].id
  <2>1. 1 \in 1..Len(errs)
    BY <1>1
  <2>2. named[1] = [id |-> errs[1].id, path |-> <<step>> \o errs[1].path]
    BY <2>1
  <2> HIDE DEF named
  <2>3. QED BY <1>2, <2>1, <2>2
<1> HIDE DEF named
<1>5. CASE Unwraps
  <2>1. Rename(step, errs) = <<named[1]>>
    BY <1>5 DEF Rename, named
  <2>2. QED BY <2>1, <1>4 DEF Errors
<1>6. CASE ~Unwraps
  <2>1. Rename(step, errs) = named
    BY <1>6 DEF Rename, named
  <2>2. QED BY <2>1, <1>1, <1>3, <1>4 DEF Errors
<1>7. QED BY <1>5, <1>6

\* What a caller makes of the errors of a nested call.
LEMMA ResumeFacts ==
  ASSUME NEW p \in CallSet, NEW errs \in Errors, FieldOf(p) \in FieldSet
  PROVE  /\ Resume(p, errs) \in CallSet
         /\ Resume(p, errs).type = p.type
         /\ Resume(p, errs).at = p.at
         /\ errs = <<>> =>
              /\ Resume(p, errs).row \in {p.row, p.row + 1}
              /\ Resume(p, errs).res = p.res
         /\ errs # <<>> =>
              /\ Resume(p, errs).row = p.row + 1
              /\ \E e \in Errors : /\ e # <<>> /\ e[1].id = errs[1].id
                                   /\ Resume(p, errs).res = p.res \o e
<1> DEFINE f == FieldOf(p)
           step == <<f.name, IF f.kind = "list" THEN p.elem + 1 ELSE 0>>
<1>1. step \in StepSet
  <2>1. f.name \in STRING /\ p.elem \in Nat
    BY DEF FieldSet, CallSet
  <2>2. (IF f.kind = "list" THEN p.elem + 1 ELSE 0) \in Nat
    BY <2>1
  <2>3. QED BY <2>1, <2>2 DEF StepSet
<1>2. CASE errs # <<>>
  <2> DEFINE e == IF "unnamed" \in Checks(p) THEN errs ELSE Rename(step, errs)
  <2>1. Resume(p, errs) = Passes(p, e)
    BY <1>2 DEF Resume
  <2>2. e \in Errors /\ e # <<>> /\ e[1].id = errs[1].id
    BY <1>1, <1>2, RenameFacts
  <2> HIDE DEF e
  <2>3. QED BY <1>2, <2>1, <2>2, PassesFacts
<1>3. CASE errs = <<>> /\ f.kind = "list"
  <2>1. Resume(p, errs) = PassesElement(p)
    BY <1>3 DEF Resume
  <2>2. QED BY <1>3, <2>1, PassesElementFacts
<1>4. CASE errs = <<>> /\ f.kind # "list"
  <2>1. Resume(p, errs) = Passes(p, <<>>)
    BY <1>4 DEF Resume
  <2>2. <<>> \in Errors /\ p.res \o <<>> = p.res
    BY DEF CallSet, Errors
  <2>3. /\ Passes(p, <<>>) \in CallSet
        /\ Passes(p, <<>>).type = p.type
        /\ Passes(p, <<>>).at = p.at
        /\ Passes(p, <<>>).row = p.row + 1
        /\ Passes(p, <<>>).res = p.res
    BY <2>2, PassesFacts
  <2>4. QED BY <1>4, <2>1, <2>3
<1>5. QED BY <1>2, <1>3, <1>4

-----------------------------------------------------------------------------
(* Type correctness. *)

\* The field a call is at.
LEMMA FieldFacts ==
  ASSUME NEW c \in CallSet, c.type \in Types, c.row <= Len(Fields(c))
  PROVE  /\ FieldOf(c) \in FieldSet
         /\ FieldOf(c).kind # "value" => FieldOf(c).of \in Types
<1>1. Models[c.type] \in Seq(FieldSet)
  BY ApiValidateAssumption
<1>2. c.row \in 1..Len(Models[c.type])
  BY <1>1 DEF CallSet, Fields
<1>3. FieldOf(c) = Models[c.type][c.row]
  BY DEF FieldOf, Fields
<1>4. Models[c.type][c.row] \in FieldSet
  BY <1>1, <1>2
<1>5. Models[c.type][c.row].kind # "value" => Models[c.type][c.row].of \in Types
  BY <1>2, ApiValidateAssumption
<1>6. QED BY <1>3, <1>4, <1>5

\* The calls under way.
LEMMA FrameFacts ==
  ASSUME TypeOK, NEW k \in 1..depth
  PROVE  /\ k \in 1..MaxDepth
         /\ frame[k] \in CallSet
         /\ frame[k].type \in Types
         /\ frame[k].at \in Seq(StepSet)
         /\ frame[k].row \in Nat \ {0}
         /\ frame[k].elem \in Nat
         /\ frame[k].res \in Errors
         /\ k < depth => FieldOf(frame[k]) \in FieldSet
<1>1. k \in 1..MaxDepth /\ frame[k] \in CallSet /\ frame[k].type \in Types
  <2>1. MaxDepth \in Nat /\ depth \in 0..MaxDepth
    BY ApiValidateAssumption DEF TypeOK
  <2>2. k \in 1..MaxDepth /\ k <= depth
    BY <2>1
  <2>3. QED BY <2>2 DEF TypeOK
<1>2. k < depth => frame[k].row <= Len(Fields(frame[k]))
  BY DEF TypeOK
<1>3. /\ frame[k].at \in Seq(StepSet) /\ frame[k].row \in Nat \ {0}
      /\ frame[k].elem \in Nat /\ frame[k].res \in Errors
  BY <1>1 DEF CallSet, Errors
<1>4. k < depth => FieldOf(frame[k]) \in FieldSet
  BY <1>1, <1>2, FieldFacts
<1>5. QED BY <1>1, <1>3, <1>4

\* While the innermost call is at a field, the outermost one is at one of its
\* own.
LEMMA OutermostRow ==
  ASSUME TypeOK, InField
  PROVE  frame[1].row \in 1..Len(first)
<1>1. depth \in Nat /\ depth > 0 /\ 1 \in 1..depth
  BY ApiValidateAssumption DEF TypeOK, InField
<1>2. frame[1].row \in Nat \ {0}
  BY <1>1, FrameFacts
<1>3. Len(first) = Len(Fields(frame[1]))
  BY DEF TypeOK, InField
<1>4. frame[1].row <= Len(Fields(frame[1]))
  <2>1. CASE depth = 1
    BY <2>1 DEF InField, Top
  <2>2. CASE depth # 1
    <3>1. 1 \in 1..(depth - 1)
      BY <1>1, <2>2
    <3>2. QED BY <3>1 DEF TypeOK
  <2>3. QED BY <2>1, <2>2
<1>5. Len(first) \in Nat
  BY DEF TypeOK
<1>6. QED BY <1>2, <1>3, <1>4, <1>5

\* The innermost call goes on.
LEMMA TopStep ==
  ASSUME TypeOK, status = "running", NEW c \in CallSet, c.type = Top.type,
         frame' = [frame EXCEPT ![depth] = c],
         UNCHANGED <<mode, status, depth, report>>,
         defects' \in Seq(Seq(StepSet)), first' \in Seq(0..MaxDefects),
         Len(first') = Len(first)
  PROVE  TypeOK'
<1>1. depth \in 1..MaxDepth /\ depth > 0 /\ frame \in [1..MaxDepth -> CallSet]
  BY ApiValidateAssumption DEF TypeOK
<1>2. frame' \in [1..MaxDepth -> CallSet]
  BY <1>1
<1>3. /\ \A k \in 1..MaxDepth : frame'[k].type = frame[k].type
      /\ \A k \in 1..MaxDepth : k # depth => frame'[k] = frame[k]
  BY <1>1 DEF Top
<1>4. \A k \in 1..MaxDepth : frame'[k].type \in Types <=> k <= depth
  BY <1>3 DEF TypeOK
<1>5. \A k \in 1..(depth - 1) : frame'[k].row <= Len(Fields(frame'[k]))
  BY <1>1, <1>3, ApiValidateAssumption DEF TypeOK
<1>6. Len(first') = Len(Fields(frame'[1]))
  <2>1. Fields(frame'[1]) = Fields(frame[1])
    BY <1>1, <1>3 DEF Fields
  <2>2. QED BY <2>1 DEF TypeOK
<1>7. QED BY <1>1, <1>2, <1>4, <1>5, <1>6 DEF TypeOK, Fields

\* No step of the validation leaves the types.
LEMMA FieldStepType == TypeOK /\ FieldStep => TypeOK'
<1> SUFFICES ASSUME TypeOK, FieldStep PROVE TypeOK'
  OBVIOUS
<1>1. status = "running" /\ Top.row <= Len(Fields(Top))
  BY DEF FieldStep, InField
<1>2. depth \in 1..depth /\ depth \in 1..MaxDepth /\ Top = frame[depth]
  BY <1>1, ApiValidateAssumption DEF TypeOK, Top
<1>3. /\ Top \in CallSet /\ Top.type \in Types /\ Top.at \in Seq(StepSet)
      /\ Top.elem \in Nat
  BY <1>2, FrameFacts
<1>4. Field \in FieldSet /\ (Field.kind # "value" => Field.of \in Types)
  BY <1>1, <1>3, FieldFacts DEF Field
<1>5. defects \in Seq(Seq(StepSet)) /\ first \in Seq(0..MaxDefects)
  BY DEF TypeOK
<1>6. CASE PassField
  <2>1. Passes(Top, <<>>) \in CallSet /\ Passes(Top, <<>>).type = Top.type
    BY <1>3, NoErrors, PassesFacts
  <2>2. QED BY <1>1, <1>5, <1>6, <2>1, TopStep DEF PassField
<1>7. CASE PassNil
  <2>1. PassesElement(Top) \in CallSet /\ PassesElement(Top).type = Top.type
    BY <1>3, PassesElementFacts
  <2>2. QED BY <1>1, <1>5, <1>7, <2>1, TopStep DEF PassNil
<1>8. ASSUME NEW rule \in Demands(Field), BreakRule(rule) PROVE TypeOK'
  <2> DEFINE step == <<Field.name, IF rule = "required" THEN Top.elem + 1 ELSE 0>>
             id == Len(defects) + 1
             errs == IF Checked(rule) THEN <<[id |-> id, path |-> <<step>>]>> ELSE <<>>
  <2>1. step \in StepSet
    <3>1. Field.name \in STRING /\ (IF rule = "required" THEN Top.elem + 1 ELSE 0) \in Nat
      BY <1>3, <1>4 DEF FieldSet
    <3>2. QED BY <3>1 DEF StepSet
  <2>2. id \in Nat \ {0} /\ id \in 0..MaxDefects
    BY <1>5, <1>8, ApiValidateAssumption DEF BreakRule
  <2>3. errs \in Errors
    <3>1. <<step>> \in Seq(StepSet)
      BY <2>1
    <3>2. [id |-> id, path |-> <<step>>] \in ErrorSet
      BY <2>2, <3>1 DEF ErrorSet
    <3> HIDE DEF id, step
    <3>3. <<[id |-> id, path |-> <<step>>]>> \in Errors
      BY <3>2 DEF Errors
    <3>4. QED BY <3>3, NoErrors
  <2>4. defects' \in Seq(Seq(StepSet))
    <3>1. defects' = Append(defects, Append(Top.at, step))
      BY <1>8 DEF BreakRule
    <3>2. Append(Top.at, step) \in Seq(StepSet)
      BY <1>3, <2>1
    <3>3. QED BY <1>5, <3>1, <3>2
  <2>5. first' \in Seq(0..MaxDefects) /\ Len(first') = Len(first)
    <3> DEFINE r == frame[1].row
               n == IF first[r] = 0 THEN id ELSE first[r]
    <3>1. first' = [first EXCEPT ![r] = n]
      BY <1>8 DEF BreakRule
    <3>2. r \in 1..Len(first)
      BY <1>1, OutermostRow DEF InField
    <3>3. first[r] \in 0..MaxDefects
      BY <1>5, <3>2, ElementOfSeq
    <3>4. n \in 0..MaxDefects
      BY <2>2, <3>3
    <3> HIDE DEF n, r, id
    <3>5. QED BY <1>5, <3>1, <3>2, <3>4, ExceptSeq
  <2>6. frame' = [frame EXCEPT ![depth] = Passes(Top, errs)]
        /\ UNCHANGED <<mode, status, depth, report>>
    BY <1>8 DEF BreakRule
  <2> HIDE DEF errs
  <2>7. Passes(Top, errs) \in CallSet /\ Passes(Top, errs).type = Top.type
    BY <1>3, <2>3, PassesFacts
  <2>8. QED BY <1>1, <2>4, <2>5, <2>6, <2>7, TopStep
<1>9. CASE Descend
  <2> DEFINE step == <<Field.name, IF Field.kind = "list" THEN Top.elem + 1 ELSE 0>>
             new == Call(Field.of, Append(Top.at, step))
  <2>1. step \in StepSet
    <3>1. Field.name \in STRING
          /\ (IF Field.kind = "list" THEN Top.elem + 1 ELSE 0) \in Nat
      BY <1>3, <1>4 DEF FieldSet
    <3>2. QED BY <3>1 DEF StepSet
  <2>2. Append(Top.at, step) \in Seq(StepSet) /\ Field.of \in Types
    BY <1>3, <1>4, <1>9, <2>1 DEF Descend, InList
  <2>3. new \in CallSet /\ new.type \in Types
    BY <2>2, CallFacts
  <2>4. /\ depth < MaxDepth /\ depth' = depth + 1
        /\ frame' = [frame EXCEPT ![depth + 1] = new]
        /\ UNCHANGED <<mode, status, report, defects, first>>
    BY <1>9 DEF Descend
  <2> HIDE DEF new
  <2>5. depth + 1 \in 1..MaxDepth /\ frame \in [1..MaxDepth -> CallSet]
    BY <1>2, <2>4, ApiValidateAssumption DEF TypeOK
  <2>6. /\ frame' \in [1..MaxDepth -> CallSet] /\ frame'[depth + 1] = new
        /\ \A k \in 1..MaxDepth : k # depth + 1 => frame'[k] = frame[k]
    BY <2>3, <2>4, <2>5
  <2>7. \A k \in 1..MaxDepth : frame'[k].type \in Types <=> k <= depth'
    BY <1>2, <2>3, <2>4, <2>6 DEF TypeOK
  <2>8. \A k \in 1..(depth' - 1) : frame'[k].row <= Len(Fields(frame'[k]))
    <3> SUFFICES ASSUME NEW k \in 1..depth PROVE frame'[k].row <= Len(Fields(frame'[k]))
      BY <1>2, <2>4
    <3>1. MaxDepth \in Nat /\ depth \in Nat /\ depth < MaxDepth
      BY <1>2, <2>4, ApiValidateAssumption
    <3>2. k \in 1..MaxDepth /\ k # depth + 1
      BY <3>1
    <3>3. frame'[k] = frame[k]
      BY <2>6, <3>2
    <3>4. frame[k].row <= Len(Fields(frame[k]))
      <4>1. CASE k = depth
        BY <1>1, <4>1 DEF Top
      <4>2. CASE k # depth
        <5>1. k \in 1..(depth - 1)
          BY <3>1, <4>2
        <5>2. QED BY <5>1 DEF TypeOK
      <4>3. QED BY <4>1, <4>2
    <3>5. QED BY <3>3, <3>4
  <2>9. status' = "running" /\ depth' > 0 /\ depth' \in 0..MaxDepth
    BY <1>1, <1>2, <2>4, ApiValidateAssumption
  <2>10. Len(first') = Len(Fields(frame'[1]))
    <3>1. frame'[1] = frame[1]
      BY <1>2, <2>5, <2>6, ApiValidateAssumption
    <3>2. QED BY <1>1, <2>4, <3>1 DEF TypeOK, Fields
  <2>11. QED BY <2>4, <2>6, <2>7, <2>8, <2>9, <2>10 DEF TypeOK, Fields
<1>10. QED BY <1>6, <1>7, <1>8, <1>9 DEF FieldStep

LEMMA ReturnType == TypeOK /\ Return => TypeOK'
<1> SUFFICES ASSUME TypeOK, Return PROVE TypeOK'
  OBVIOUS
<1> DEFINE p == frame[depth - 1]
           q == Resume(p, Top.res)
<1>1. /\ status = "running" /\ depth > 1 /\ depth' = depth - 1
      /\ frame' = [frame EXCEPT ![depth] = NoCall, ![depth - 1] = q]
      /\ UNCHANGED <<mode, status, report, defects, first>>
  BY DEF Return, Finished
<1>2. /\ MaxDepth \in Nat /\ depth \in 1..MaxDepth /\ depth - 1 \in 1..MaxDepth
      /\ depth \in 1..depth /\ depth - 1 \in 1..depth /\ depth - 1 < depth
      /\ depth - 1 # depth
  BY <1>1, ApiValidateAssumption DEF TypeOK
<1>3. Top.res \in Errors /\ p \in CallSet /\ FieldOf(p) \in FieldSet /\ p.type \in Types
  BY <1>2, FrameFacts DEF Top
<1>4. q \in CallSet /\ q.type = p.type
  BY <1>3, ResumeFacts
<1> HIDE DEF q
<1>5. /\ frame' \in [1..MaxDepth -> CallSet]
      /\ frame'[depth] = NoCall
      /\ frame'[depth - 1] = q
      /\ \A k \in 1..MaxDepth : k \notin {depth, depth - 1} => frame'[k] = frame[k]
  BY <1>1, <1>2, <1>4, NoCallFacts DEF TypeOK
<1>6. \A k \in 1..MaxDepth : frame'[k].type \in Types <=> k <= depth'
  <2> TAKE k \in 1..MaxDepth
  <2>1. CASE k = depth
    <3>1. frame'[k].type \notin Types
      BY <1>5, <2>1, NoCallFacts, ApiValidateAssumption
    <3>2. QED BY <1>1, <1>2, <2>1, <3>1
  <2>2. CASE k = depth - 1
    BY <1>1, <1>2, <1>3, <1>4, <1>5, <2>2
  <2>3. CASE k \notin {depth, depth - 1}
    <3>1. frame'[k] = frame[k] /\ (frame[k].type \in Types <=> k <= depth)
      BY <1>5, <2>3 DEF TypeOK
    <3>2. QED BY <1>1, <1>2, <2>3, <3>1
  <2>4. QED BY <2>1, <2>2, <2>3
<1>7. \A k \in 1..(depth' - 1) : frame'[k].row <= Len(Fields(frame'[k]))
  <2> SUFFICES ASSUME NEW k \in 1..(depth - 2)
               PROVE  frame'[k].row <= Len(Fields(frame'[k]))
    <3>1. depth' - 1 = depth - 2
      BY <1>1, <1>2
    <3>2. QED BY <3>1
  <2>1. k \in 1..MaxDepth /\ k \notin {depth, depth - 1} /\ k \in 1..(depth - 1)
    BY <1>2
  <2>2. frame'[k] = frame[k] /\ frame[k].row <= Len(Fields(frame[k]))
    BY <1>5, <2>1 DEF TypeOK
  <2>3. QED BY <2>2
<1>8. Len(first') = Len(Fields(frame'[1]))
  <2>1. frame'[1].type = frame[1].type
    BY <1>1, <1>2, <1>4, <1>5
  <2>2. QED BY <1>1, <2>1 DEF TypeOK, Fields
<1>9. status' = "running" /\ depth' > 0 /\ depth' \in 0..MaxDepth
  BY <1>1, <1>2
<1>10. QED BY <1>1, <1>5, <1>6, <1>7, <1>8, <1>9 DEF TypeOK, Fields

\* The outermost call ends.
LEMMA ReturnOutermostType == TypeOK /\ ReturnOutermost => TypeOK'
<1> SUFFICES ASSUME TypeOK, ReturnOutermost PROVE TypeOK'
  OBVIOUS
<1>1. /\ depth = 1 /\ depth' = 0 /\ status' = "returned" /\ report' = Top.res
      /\ frame' = [frame EXCEPT ![1] = NoCall]
      /\ UNCHANGED <<mode, defects, first>>
  BY DEF ReturnOutermost
<1>2. MaxDepth \in Nat /\ 1 \in 1..MaxDepth /\ 1 \in 1..depth
  BY <1>1, ApiValidateAssumption
<1>3. report' \in Seq(ErrorSet)
  BY <1>1, <1>2, FrameFacts DEF Top, Errors
<1>4. /\ frame' \in [1..MaxDepth -> CallSet]
      /\ frame'[1] = NoCall
      /\ \A k \in 1..MaxDepth : k # 1 => frame'[k] = frame[k]
  BY <1>1, <1>2, NoCallFacts DEF TypeOK
<1>5. \A k \in 1..MaxDepth : frame'[k].type \in Types <=> k <= depth'
  <2> TAKE k \in 1..MaxDepth
  <2>1. frame'[k].type \notin Types
    <3>1. CASE k = 1
      BY <1>4, <3>1, NoCallFacts, ApiValidateAssumption
    <3>2. CASE k # 1
      <4>1. ~(k <= depth)
        BY <1>1, <3>2
      <4>2. QED BY <1>4, <3>2, <4>1 DEF TypeOK
    <3>3. QED BY <3>1, <3>2
  <2>2. QED BY <1>1, <2>1
<1>6. /\ status' # "running" /\ ~(depth' > 0) /\ depth' \in 0..MaxDepth
      /\ 1..(depth' - 1) = {}
  BY <1>1, <1>2
<1>7. QED BY <1>1, <1>3, <1>4, <1>5, <1>6 DEF TypeOK, Modes

\* A model comes to be validated.
LEMMA BeginType ==
  ASSUME TypeOK, NEW type \in Types, NEW m \in Modes, Begin(type, m)
  PROVE  TypeOK'
<1> DEFINE new == Call(type, <<>>)
<1>1. /\ status = "idle" /\ status' = "running" /\ mode' = m /\ depth' = 1
      /\ frame' = [frame EXCEPT ![1] = new]
      /\ first' = [r \in 1..Len(Models[type]) |-> 0]
      /\ UNCHANGED <<report, defects>>
  BY DEF Begin
<1>2. depth = 0 /\ MaxDepth \in Nat /\ 1 \in 1..MaxDepth
  BY <1>1, ApiValidateAssumption DEF TypeOK
<1>3. new \in CallSet /\ new.type = type
  <2>1. <<>> \in Seq(StepSet)
    OBVIOUS
  <2>2. QED BY <2>1, CallFacts
<1> HIDE DEF new
<1>4. /\ frame' \in [1..MaxDepth -> CallSet]
      /\ frame'[1] = new
      /\ \A k \in 1..MaxDepth : k # 1 => frame'[k] = frame[k]
  BY <1>1, <1>2, <1>3 DEF TypeOK
<1>5. \A k \in 1..MaxDepth : frame'[k].type \in Types <=> k <= depth'
  BY <1>1, <1>2, <1>3, <1>4 DEF TypeOK
<1>6. first' \in Seq(0..MaxDefects) /\ Len(first') = Len(Models[type])
  <2>1. Len(Models[type]) \in Nat /\ 0 \in 0..MaxDefects
    BY ApiValidateAssumption
  <2>2. QED BY <1>1, <2>1, IsASeq
<1>7. Len(first') = Len(Fields(frame'[1]))
  BY <1>3, <1>4, <1>6 DEF Fields
<1>8. QED BY <1>1, <1>2, <1>4, <1>5, <1>6, <1>7 DEF TypeOK, Fields

LEMMA ForgetType == TypeOK /\ Forget => TypeOK'
BY DEF TypeOK, Forget, Modes, Fields

\* The steps of a call of an operation leave the validation alone.
LEMMA TypeStep == TypeOK /\ [Next]_Everything => TypeOK'
<1> SUFFICES ASSUME TypeOK, [Next]_Everything PROVE TypeOK'
  OBVIOUS
<1>1. CASE UNCHANGED vars
  BY <1>1 DEF TypeOK, vars, Fields
<1>2. CASE ValidatePayload
  <2>1. /\ Payload \in Types /\ Begin(Payload, "validate")
        /\ "validate" \in Modes
    BY <1>2 DEF ValidatePayload, Modes
  <2>2. QED BY <2>1, BeginType
<1>3. CASE ValidateModel
  BY <1>3, BeginType DEF ValidateModel
<1>4. CASE Step
  BY <1>4, FieldStepType, ReturnType, ReturnOutermostType, ForgetType DEF Step
<1>5. QED BY <1>1, <1>2, <1>3, <1>4 DEF Next, CallStep, Everything

\* TypeOK holds in every behaviour: calls are nested no deeper than the models,
\* each is at a field of its own, and the histories fit the validated model.
THEOREM TypeCorrect == Spec => []TypeOK
<1>1. Init => TypeOK
  <2> SUFFICES ASSUME Init PROVE TypeOK
    OBVIOUS
  <2>1. MaxDepth \in Nat /\ depth = 0 /\ status = "idle"
    BY ApiValidateAssumption DEF Init
  <2>2. frame \in [1..MaxDepth -> CallSet]
    BY NoCallFacts DEF Init
  <2>3. \A k \in 1..MaxDepth : frame[k].type \in Types <=> k <= depth
    BY <2>1, NoCallFacts, ApiValidateAssumption DEF Init
  <2>4. 1..(depth - 1) = {} /\ depth \in 0..MaxDepth
    BY <2>1
  <2>5. QED BY <2>1, <2>2, <2>3, <2>4 DEF Init, TypeOK, Modes
<1>2. QED BY <1>1, TypeStep, PTL DEF Spec, Everything, ClientInit

-----------------------------------------------------------------------------
(* No fault is passed over, and none is made up. *)

\* What a field's declaration asks of its value, the code checks.
LEMMA DemandedIsChecked ==
  ASSUME TablesAgree, TypeOK, InField, NEW rule \in Demands(Field)
  PROVE  Checked(rule)
<1>1. depth \in 1..depth /\ Top = frame[depth]
  BY ApiValidateAssumption DEF TypeOK, InField, Top
<1>2. Top.type \in Types /\ Top.row \in Nat \ {0}
  BY <1>1, FrameFacts
<1>3. Top.row \in 1..Len(Models[Top.type])
  BY <1>2, ApiValidateAssumption DEF InField, Fields
<1>4. /\ Field.rules \ {"readOnly"} \subseteq Entry(Validators[Top.type], Field.name)
      /\ ReadOnly(Field) \subseteq Entry(ContextValidators[Top.type], Field.name)
  BY <1>2, <1>3 DEF TablesAgree, Field, FieldOf, Fields
<1>5. CASE mode = "validate"
  BY <1>4, <1>5 DEF Demands, Checked, Checks, Field
<1>6. CASE mode = "request"
  BY <1>4, <1>6 DEF Demands, Checked, Checks, Field
<1>7. CASE mode = "response"
  BY <1>7 DEF Demands
<1>8. QED BY <1>5, <1>6, <1>7 DEF TypeOK, Modes

\* While a value is validated, it has shown a fault if and only if one of the
\* calls under way has an error.
Noticed ==
  /\ status = "idle" => report = <<>> /\ defects = <<>>
  /\ status = "running" =>
       /\ report = <<>>
       /\ defects = <<>> <=> \A k \in 1..depth : frame[k].res = <<>>
  /\ NilIffValid

\* The innermost call goes on without an error of its own.
LEMMA QuietStep ==
  ASSUME TypeOK, status = "running", NEW c \in CallSet, c.res = Top.res,
         frame' = [frame EXCEPT ![depth] = c]
  PROVE  \A k \in 1..depth : frame'[k].res = frame[k].res
<1> TAKE k \in 1..depth
<1>1. k \in 1..MaxDepth
  BY FrameFacts
<1>2. CASE k = depth
  BY <1>1, <1>2 DEF TypeOK, Top
<1>3. CASE k # depth
  BY <1>1, <1>3 DEF TypeOK
<1>4. QED BY <1>2, <1>3

\* What the innermost call is, and what passing a field leaves of it.
LEMMA TopFacts ==
  ASSUME TypeOK, status = "running"
  PROVE  /\ depth \in 1..depth /\ depth \in 1..MaxDepth /\ depth \in Nat \ {0}
         /\ MaxDepth \in Nat
         /\ Top = frame[depth] /\ Top \in CallSet /\ Top.res \in Errors
         /\ Top.at \in Seq(StepSet)
         /\ Passes(Top, <<>>) \in CallSet /\ Passes(Top, <<>>).res = Top.res
         /\ PassesElement(Top) \in CallSet /\ PassesElement(Top).res = Top.res
<1>1. /\ depth \in 1..depth /\ depth \in 1..MaxDepth /\ depth \in Nat \ {0}
      /\ MaxDepth \in Nat /\ Top = frame[depth]
  BY ApiValidateAssumption DEF TypeOK, Top
<1>2. Top \in CallSet /\ Top.res \in Errors /\ Top.at \in Seq(StepSet)
  BY <1>1, FrameFacts
<1>3. Passes(Top, <<>>) \in CallSet /\ Passes(Top, <<>>).res = Top.res \o <<>>
  BY <1>2, NoErrors, PassesFacts
<1>4. Top.res \o <<>> = Top.res
  BY <1>2, ConcatEmptySeq DEF Errors
<1>5. PassesElement(Top) \in CallSet /\ PassesElement(Top).res = Top.res
  BY <1>2, PassesElementFacts
<1>6. QED BY <1>1, <1>2, <1>3, <1>4, <1>5

\* A broken constraint that is checked becomes the last error of its call.
LEMMA BreakFacts ==
  ASSUME TypeOK, InField, NEW rule \in Demands(Field), BreakRule(rule), Checked(rule)
  PROVE  \E c \in CallSet, e \in Errors :
           /\ Len(e) = 1 /\ e[1].id = Len(defects) + 1
           /\ c.res = Top.res \o e /\ c.row = Top.row + 1 /\ c.type = Top.type
           /\ frame' = [frame EXCEPT ![depth] = c]
<1> DEFINE step == <<Field.name, IF rule = "required" THEN Top.elem + 1 ELSE 0>>
           err == [id |-> Len(defects) + 1, path |-> <<step>>]
<1>1. Top \in CallSet /\ Top.type \in Types /\ Top.elem \in Nat
  BY TopFacts, FrameFacts DEF InField
<1>2. Field.name \in STRING
  BY <1>1, FieldFacts DEF InField, Field, FieldSet
<1>3. step \in StepSet
  <2>1. (IF rule = "required" THEN Top.elem + 1 ELSE 0) \in Nat
    BY <1>1
  <2>2. QED BY <1>2, <2>1 DEF StepSet
<1>4. err \in ErrorSet
  <2>1. Len(defects) + 1 \in Nat \ {0} /\ <<step>> \in Seq(StepSet)
    BY <1>3 DEF TypeOK
  <2>2. QED BY <2>1 DEF ErrorSet
<1>5. frame' = [frame EXCEPT ![depth] = Passes(Top, <<err>>)]
  BY DEF BreakRule
<1>6. <<err>> \in Errors /\ Len(<<err>>) = 1 /\ <<err>>[1].id = Len(defects) + 1
  <2>1. err.id = Len(defects) + 1
    OBVIOUS
  <2> HIDE DEF err
  <2>2. QED BY <1>4, <2>1 DEF Errors
<1> HIDE DEF err
<1>7. /\ Passes(Top, <<err>>) \in CallSet /\ Passes(Top, <<err>>).type = Top.type
      /\ Passes(Top, <<err>>).row = Top.row + 1
      /\ Passes(Top, <<err>>).res = Top.res \o <<err>>
  BY <1>1, <1>6, PassesFacts
<1>8. QED BY <1>5, <1>6, <1>7

\* What becomes of a caller when the innermost call returns.
LEMMA ReturnFacts ==
  ASSUME TypeOK, Return
  PROVE  /\ depth \in Nat /\ depth > 1 /\ depth' = depth - 1
         /\ \A k \in 1..(depth - 2) : frame'[k] = frame[k]
         /\ frame[depth - 1].res \in Errors /\ Top.res \in Errors
         /\ frame[depth - 1].row \in Nat
         /\ frame'[depth - 1].type = frame[depth - 1].type
         /\ frame'[depth - 1].at = frame[depth - 1].at
         /\ Top.res = <<>> =>
              /\ frame'[depth - 1].row \in {frame[depth - 1].row, frame[depth - 1].row + 1}
              /\ frame'[depth - 1].res = frame[depth - 1].res
         /\ Top.res # <<>> =>
              /\ frame'[depth - 1].row = frame[depth - 1].row + 1
              /\ \E e \in Errors : /\ e # <<>> /\ e[1].id = Top.res[1].id
                                   /\ frame'[depth - 1].res = frame[depth - 1].res \o e
<1> DEFINE p == frame[depth - 1]
           q == Resume(p, Top.res)
<1>1. /\ status = "running" /\ depth > 1 /\ depth' = depth - 1
      /\ frame' = [frame EXCEPT ![depth] = NoCall, ![depth - 1] = q]
  BY DEF Return, Finished
<1>2. /\ MaxDepth \in Nat /\ depth \in 1..MaxDepth /\ depth - 1 \in 1..MaxDepth
      /\ depth \in 1..depth /\ depth - 1 \in 1..depth /\ depth - 1 < depth
      /\ depth - 1 # depth
  BY <1>1, ApiValidateAssumption DEF TypeOK
<1>3. /\ Top.res \in Errors /\ p \in CallSet /\ FieldOf(p) \in FieldSet
      /\ p.res \in Errors /\ p.row \in Nat
  BY <1>2, FrameFacts DEF Top
<1>4. frame'[depth - 1] = q
  BY <1>1, <1>2 DEF TypeOK
<1>5. \A k \in 1..(depth - 2) : frame'[k] = frame[k]
  <2> TAKE k \in 1..(depth - 2)
  <2>1. k \in 1..MaxDepth /\ k # depth /\ k # depth - 1
    BY <1>2
  <2>2. QED BY <1>1, <2>1 DEF TypeOK
<1> HIDE DEF q
<1>6. /\ q.type = p.type
      /\ q.at = p.at
      /\ Top.res = <<>> => q.row \in {p.row, p.row + 1} /\ q.res = p.res
      /\ Top.res # <<>> =>
           /\ q.row = p.row + 1
           /\ \E e \in Errors : /\ e # <<>> /\ e[1].id = Top.res[1].id
                                /\ q.res = p.res \o e
  BY <1>3, ResumeFacts DEF q
<1>7. depth \in Nat /\ p.res \in Errors /\ Top.res \in Errors /\ p.row \in Nat
  BY <1>2, <1>3
<1> HIDE DEF p
<1>8. QED BY <1>1, <1>4, <1>5, <1>6, <1>7 DEF p

LEMMA NoticedFieldStep ==
  ASSUME TablesAgree, TypeOK, Noticed, FieldStep
  PROVE  Noticed'
<1> DEFINE Quiet(d) == \A k \in 1..d : frame[k].res = <<>>
<1>1. InField /\ status = "running" /\ report = <<>>
  BY DEF FieldStep, InField, Noticed
<1>2. defects = <<>> <=> Quiet(depth)
  BY <1>1 DEF Noticed
<1>3. /\ depth \in 1..depth /\ depth \in 1..MaxDepth /\ depth \in Nat \ {0}
      /\ MaxDepth \in Nat /\ Top = frame[depth] /\ Top \in CallSet /\ Top.res \in Errors
  BY <1>1, TopFacts
<1>4. CASE PassField \/ PassNil
  <2>1. UNCHANGED <<status, depth, report, defects>>
    BY <1>4 DEF PassField, PassNil
  <2>2. \A k \in 1..depth : frame'[k].res = frame[k].res
    BY <1>1, <1>4, TopFacts, QuietStep DEF PassField, PassNil
  <2>3. QED BY <1>1, <1>2, <2>1, <2>2 DEF Noticed, NilIffValid
<1>5. ASSUME NEW rule \in Demands(Field), BreakRule(rule) PROVE Noticed'
  <2>1. PICK c \in CallSet, e \in Errors :
          Len(e) = 1 /\ c.res = Top.res \o e /\ frame' = [frame EXCEPT ![depth] = c]
    BY <1>1, <1>5, BreakFacts, DemandedIsChecked
  <2>2. frame'[depth] = c
    BY <1>3, <2>1 DEF TypeOK
  <2>3. frame'[depth].res # <<>>
    <3>1. e # <<>> /\ c.res = Top.res \o e
      <4>1. Len(e) # 0
        BY <2>1
      <4>2. Len(<<>>) = 0
        OBVIOUS
      <4>3. e # <<>>
        BY <4>1, <4>2
      <4>4. QED BY <2>1, <4>3
    <3>2. c.res # <<>>
      BY <1>3, <3>1, ConcatEqualIffEmpty DEF Errors
    <3>3. QED BY <2>2, <3>2
  <2>4. defects' # <<>>
    <3>1. PICK d \in Seq(StepSet) : defects' = Append(defects, d)
      <4> DEFINE step == <<Field.name, IF rule = "required" THEN Top.elem + 1 ELSE 0>>
      <4>1. defects' = Append(defects, Append(Top.at, step))
        BY <1>5 DEF BreakRule
      <4>2. Field.name \in STRING /\ Top.elem \in Nat /\ Top.at \in Seq(StepSet)
        BY <1>1, <1>3, FrameFacts, FieldFacts DEF InField, Field, FieldSet
      <4>3. (IF rule = "required" THEN Top.elem + 1 ELSE 0) \in Nat
        BY <4>2
      <4>4. step \in StepSet
        BY <4>2, <4>3 DEF StepSet
      <4> HIDE DEF step
      <4>5. Append(Top.at, step) \in Seq(StepSet)
        BY <4>2, <4>4
      <4>6. QED BY <4>1, <4>5
    <3>2. defects \in Seq(Seq(StepSet))
      BY DEF TypeOK
    <3>3. QED BY <3>1, <3>2, AppendProperties
  <2>5. status' = "running" /\ depth' = depth /\ report' = <<>>
    BY <1>1, <1>5 DEF BreakRule
  <2>6. QED BY <1>3, <2>3, <2>4, <2>5 DEF Noticed, NilIffValid
<1>6. CASE Descend
  <2>1. PICK new : /\ new.res = <<>>
                   /\ frame' = [frame EXCEPT ![depth + 1] = new]
    <3> DEFINE step == <<Field.name, IF Field.kind = "list" THEN Top.elem + 1 ELSE 0>>
               call == Call(Field.of, Append(Top.at, step))
    <3>1. call.res = <<>>
      BY DEF Call
    <3>2. frame' = [frame EXCEPT ![depth + 1] = call]
      BY <1>6 DEF Descend
    <3> HIDE DEF call
    <3>3. QED BY <3>1, <3>2
  <2>2. /\ depth' = depth + 1 /\ depth < MaxDepth
        /\ UNCHANGED <<status, report, defects>>
    BY <1>6 DEF Descend
  <2>3. \A k \in 1..depth : frame'[k] = frame[k]
    BY <1>3, <2>1, <2>2 DEF TypeOK
  <2>4. frame'[depth + 1].res = <<>>
    BY <1>3, <2>1, <2>2 DEF TypeOK
  <2>5. (\A k \in 1..depth' : frame'[k].res = <<>>) <=> Quiet(depth)
    <3>1. \A k \in 1..depth' : k \in 1..depth \/ k = depth + 1
      BY <1>3, <2>2
    <3>2. \A k \in 1..depth : k \in 1..depth'
      BY <1>3, <2>2
    <3>3. QED BY <2>3, <2>4, <3>1, <3>2
  <2> HIDE DEF Quiet
  <2>6. QED BY <1>1, <1>2, <2>2, <2>5 DEF Noticed, NilIffValid
<1>7. QED BY <1>4, <1>5, <1>6 DEF FieldStep

LEMMA NoticedReturn ==
  ASSUME TypeOK, Noticed, Return
  PROVE  Noticed'
<1>1. /\ status = "running" /\ Top = frame[depth]
      /\ UNCHANGED <<status, report, defects>>
  BY DEF Return, Finished, Top
<1>2. /\ report = <<>>
      /\ defects = <<>> <=> \A k \in 1..depth : frame[k].res = <<>>
  BY <1>1 DEF Noticed
<1>3. depth \in Nat /\ depth > 1 /\ depth' = depth - 1
  BY ReturnFacts
<1>4. frame'[depth - 1].res = <<>>
        <=> frame[depth - 1].res = <<>> /\ Top.res = <<>>
  <2>1. CASE Top.res = <<>>
    BY <2>1, ReturnFacts
  <2>2. CASE Top.res # <<>>
    <3>1. PICK e \in Errors : e # <<>> /\ frame'[depth - 1].res = frame[depth - 1].res \o e
      BY <2>2, ReturnFacts
    <3>2. frame[depth - 1].res \in Errors
      BY ReturnFacts
    <3>3. frame'[depth - 1].res # <<>>
      BY <3>1, <3>2, ConcatEqualIffEmpty DEF Errors
    <3>4. QED BY <2>2, <3>3
  <2>3. QED BY <2>1, <2>2
<1>5. (\A k \in 1..depth' : frame'[k].res = <<>>)
        <=> \A k \in 1..depth : frame[k].res = <<>>
  <2>1. \A k \in 1..(depth - 2) : frame'[k].res = frame[k].res
    BY ReturnFacts
  <2>2. /\ \A k \in 1..depth' : k \in 1..(depth - 2) \/ k = depth - 1
        /\ \A k \in 1..depth : k \in 1..(depth - 2) \/ k \in {depth - 1, depth}
        /\ \A k \in 1..(depth - 2) : k \in 1..depth /\ k \in 1..depth'
        /\ depth \in 1..depth /\ depth - 1 \in 1..depth /\ depth - 1 \in 1..depth'
    BY <1>3
  <2>3. QED BY <1>1, <1>4, <2>1, <2>2
<1>6. QED BY <1>1, <1>2, <1>5 DEF Noticed, NilIffValid

\* In every behaviour nil is returned for a valid value and for no other, if
\* the tables agree with the declarations.
THEOREM NilMeansValid == ASSUME TablesAgree PROVE Spec => []NilIffValid
<1>1. Init => Noticed
  BY DEF Init, Noticed, NilIffValid
<1>2. TypeOK /\ Noticed /\ [Next]_Everything => Noticed'
  <2> SUFFICES ASSUME TypeOK, Noticed, [Next]_Everything PROVE Noticed'
    OBVIOUS
  <2>1. CASE UNCHANGED vars
    BY <2>1 DEF vars, Noticed, NilIffValid
  <2>2. ASSUME NEW type, NEW m, Begin(type, m) PROVE Noticed'
    <3>1. status' = "running" /\ depth' = 1 /\ frame'[1].res = <<>> /\ 1..depth' = {1}
      <4>1. 1 \in 1..MaxDepth /\ frame' = [frame EXCEPT ![1] = Call(type, <<>>)]
        BY <2>2, ApiValidateAssumption DEF Begin
      <4>2. QED BY <2>2, <4>1 DEF Begin, Call, TypeOK
    <3>2. report' = <<>> /\ defects' = <<>>
      BY <2>2 DEF Begin, Noticed
    <3>3. QED BY <3>1, <3>2 DEF Noticed, NilIffValid
  <2>3. CASE FieldStep
    BY <2>3, NoticedFieldStep
  <2>4. CASE Return
    BY <2>4, NoticedReturn
  <2>5. CASE ReturnOutermost
    <3>1. /\ status = "running" /\ depth = 1 /\ Top = frame[1] /\ status' = "returned"
          /\ report' = Top.res /\ defects' = defects
      BY <2>5 DEF ReturnOutermost, Finished, Top
    <3>2. defects = <<>> <=> Top.res = <<>>
      BY <3>1 DEF Noticed
    <3>3. QED BY <3>1, <3>2 DEF Noticed, NilIffValid
  <2>6. CASE Forget
    BY <2>6 DEF Forget, Noticed, NilIffValid
  <2>7. QED BY <2>1, <2>2, <2>3, <2>4, <2>5, <2>6
            DEF Next, Step, CallStep, ValidatePayload, ValidateModel, Everything
<1>3. Noticed => NilIffValid
  BY DEF Noticed
<1>4. QED BY <1>1, <1>2, <1>3, TypeCorrect, PTL DEF Spec, Everything, ClientInit

-----------------------------------------------------------------------------
(* The first fault beneath a field is never dropped. *)

\* The calls from a to b have no errors.
Clean(a, b) == \A k \in a..b : frame[k].res = <<>>

\* The first error of a call under way beneath the outermost one, and there is
\* none in the calls between.
Carries(k, n) ==
  /\ k \in 2..depth
  /\ frame[k].res # <<>>
  /\ frame[k].res[1].id = n
  /\ Clean(2, k - 1)

\* The fields the outermost call has passed are accounted for in its errors,
\* nothing is known of those to come, and the first fault beneath its current
\* field is on its way up, ahead of any other.
Way(row) ==
  /\ \A r \in 1..Len(first) :
       r < row /\ first[r] # 0 =>
         \E j \in 1..Len(frame[1].res) : frame[1].res[j].id = first[r]
  /\ \A r \in 1..Len(first) : r > row => first[r] = 0
  /\ row <= Len(first) =>
       \/ first[row] = 0 /\ Clean(2, depth)
       \/ first[row] # 0 /\ \E k \in 2..depth : Carries(k, first[row])

OnItsWay ==
  /\ status = "running" => Way(frame[1].row)
  /\ FirstReported

\* A call that leaves frames and first as they are, as far as OnItsWay tells.
LEMMA OnItsWaySame ==
  ASSUME TypeOK, OnItsWay, status = "running", status' = "running",
         first' = first, depth' = depth, depth > 1,
         frame'[1] = frame[1],
         \A k \in 2..depth : frame'[k].res = frame[k].res
  PROVE  OnItsWay'
<1>1. depth \in Nat
  BY DEF TypeOK
<1>2. Clean(2, depth)' <=> Clean(2, depth)
  BY DEF Clean
<1>3. ASSUME NEW k \in 2..depth, NEW n PROVE Carries(k, n)' <=> Carries(k, n)
  <2>1. \A j \in 2..(k - 1) : j \in 2..depth
    BY <1>1
  <2>2. Clean(2, k - 1)' <=> Clean(2, k - 1)
    BY <2>1 DEF Clean
  <2>3. QED BY <2>2 DEF Carries
<1>4. QED BY <1>2, <1>3 DEF OnItsWay, Way, FirstReported

LEMMA OnItsWayField ==
  ASSUME TablesAgree, TypeOK, OnItsWay, FieldStep
  PROVE  OnItsWay'
<1> DEFINE row == frame[1].row
<1>1. InField /\ status = "running"
  BY DEF FieldStep, InField
<1>2. /\ depth \in 1..depth /\ depth \in 1..MaxDepth /\ depth \in Nat \ {0}
      /\ MaxDepth \in Nat /\ Top = frame[depth] /\ Top \in CallSet /\ Top.res \in Errors
  BY <1>1, TopFacts
<1>3. row \in 1..Len(first) /\ Len(first) \in Nat /\ row \in Nat \ {0}
  <2>1. row \in 1..Len(first) /\ Len(first) \in Nat
    BY <1>1, OutermostRow DEF TypeOK
  <2>2. QED BY <2>1
<1>4. /\ \A r \in 1..Len(first) :
           r < row /\ first[r] # 0 =>
             \E j \in 1..Len(frame[1].res) : frame[1].res[j].id = first[r]
      /\ \A r \in 1..Len(first) : r > row => first[r] = 0
      /\ \/ first[row] = 0 /\ Clean(2, depth)
         \/ first[row] # 0 /\ \E k \in 2..depth : Carries(k, first[row])
  BY <1>1, <1>3 DEF OnItsWay, Way
<1>5. depth = 1 => first[row] = 0
  BY <1>4
<1>6. CASE (PassField \/ PassNil) /\ depth > 1
  <2>1. UNCHANGED <<status, depth, first>>
    BY <1>6 DEF PassField, PassNil
  <2>2. \A k \in 1..depth : frame'[k].res = frame[k].res
    BY <1>1, <1>6, TopFacts, QuietStep DEF PassField, PassNil
  <2>3. frame'[1] = frame[1]
    BY <1>2, <1>6 DEF PassField, PassNil, TypeOK
  <2>4. \A k \in 2..depth : k \in 1..depth
    BY <1>2
  <2>5. QED BY <1>1, <1>6, <2>1, <2>2, <2>3, <2>4, OnItsWaySame
<1>7. CASE (PassField \/ PassNil) /\ depth = 1
  <2>1. UNCHANGED <<status, depth, first>>
    BY <1>7 DEF PassField, PassNil
  <2>2. frame'[1].res = frame[1].res
    BY <1>1, <1>2, <1>7, TopFacts, QuietStep DEF PassField, PassNil
  <2>3. frame'[1].row \in {row, row + 1}
    <3>1. PassField => frame'[1] = Passes(Top, <<>>)
      BY <1>2, <1>7 DEF PassField, TypeOK
    <3>2. PassNil => frame'[1] = PassesElement(Top)
      BY <1>2, <1>7 DEF PassNil, TypeOK
    <3>3. QED BY <1>2, <1>7, <3>1, <3>2 DEF Passes, PassesElement
  <2>4. \A r \in 1..Len(first) : r < frame'[1].row => r < row \/ (r = row /\ first[r] = 0)
    BY <1>3, <1>5, <1>7, <2>3
  <2>5. \A r \in 1..Len(first) : r >= frame'[1].row => r > row \/ (r = row /\ first[r] = 0)
    BY <1>3, <1>5, <1>7, <2>3
  <2>6. \A r \in 1..Len(first) : r >= frame'[1].row => first[r] = 0
    BY <1>4, <2>5
  <2>7. \A r \in 1..Len(first) : r < frame'[1].row /\ first[r] # 0 =>
          \E j \in 1..Len(frame[1].res) : frame[1].res[j].id = first[r]
    BY <1>4, <2>4
  <2>8. frame'[1].row <= Len(first) => frame'[1].row \in 1..Len(first)
    BY <1>3, <2>3
  <2>9. Clean(2, depth)'
    BY <1>7, <2>1 DEF Clean
  <2> DEFINE new == frame'[1].row
  <2>10. new \in Nat
    BY <1>3, <2>3
  <2>11. /\ \A r \in 1..Len(first) : r > new => first[r] = 0
         /\ new <= Len(first) => first[new] = 0
    BY <1>3, <2>6, <2>8, <2>10
  <2>12. /\ \A r \in 1..Len(first') : r < new /\ first'[r] # 0 =>
               \E j \in 1..Len(frame'[1].res) : frame'[1].res[j].id = first'[r]
         /\ \A r \in 1..Len(first') : r > new => first'[r] = 0
         /\ new <= Len(first') => first'[new] = 0 /\ Clean(2, depth)'
    BY <2>1, <2>2, <2>7, <2>9, <2>11
  <2>13. status' = "running"
    BY <1>1, <2>1
  <2>14. QED BY <2>12, <2>13 DEF OnItsWay, Way, FirstReported
<1>8. ASSUME NEW rule \in Demands(Field), BreakRule(rule) PROVE OnItsWay'
  <2>1. PICK c \in CallSet, e \in Errors :
          /\ Len(e) = 1 /\ e[1].id = Len(defects) + 1
          /\ c.res = Top.res \o e /\ c.row = Top.row + 1
          /\ frame' = [frame EXCEPT ![depth] = c]
    BY <1>1, <1>8, BreakFacts, DemandedIsChecked
  <2> DEFINE id == Len(defects) + 1
  <2>2. id \in Nat /\ id # 0
    BY DEF TypeOK
  <2>3. /\ status' = "running" /\ depth' = depth
        /\ first' = [first EXCEPT ![row] = IF first[row] = 0 THEN id ELSE first[row]]
    BY <1>1, <1>8 DEF BreakRule
  <2> HIDE DEF id
  <2>4. /\ Len(first') = Len(first)
        /\ \A r \in 1..Len(first) : r # row => first'[r] = first[r]
        /\ first'[row] = IF first[row] = 0 THEN id ELSE first[row]
    <3>1. first \in Seq(0..MaxDefects) /\ DOMAIN first = 1..Len(first)
      BY DEF TypeOK
    <3>2. DOMAIN first' = DOMAIN first /\ Len(first') = Len(first)
      BY <2>3, <3>1
    <3>3. QED BY <1>3, <2>3, <3>1, <3>2
  <2>5. /\ frame'[depth] = c
        /\ \A k \in 1..MaxDepth : k # depth => frame'[k] = frame[k]
    BY <1>2, <2>1 DEF TypeOK
  <2>6. /\ c.res \in Errors /\ c.res # <<>>
        /\ Len(c.res) = Len(Top.res) + 1
        /\ c.res[Len(Top.res) + 1] = e[1]
        /\ \A j \in 1..Len(Top.res) : c.res[j] = Top.res[j]
    <3>1. Top.res \in Seq(ErrorSet) /\ e \in Seq(ErrorSet)
          /\ Len(e) = 1 /\ c.res = Top.res \o e /\ Len(Top.res) \in Nat
      BY <1>2, <2>1 DEF Errors
    <3>2. /\ c.res \in Errors /\ Len(c.res) = Len(Top.res) + 1
          /\ \A i \in 1..(Len(Top.res) + 1) :
               c.res[i] = IF i <= Len(Top.res) THEN Top.res[i] ELSE e[i - Len(Top.res)]
      BY <3>1, ConcatProperties DEF Errors
    <3>3. Len(c.res) # 0 /\ Len(<<>>) = 0
      BY <3>1, <3>2
    <3>4. (Len(Top.res) + 1) - Len(Top.res) = 1 /\ Len(Top.res) + 1 \in 1..(Len(Top.res) + 1)
          /\ ~(Len(Top.res) + 1 <= Len(Top.res))
      BY <3>1
    <3>5. \A j \in 1..Len(Top.res) : j \in 1..(Len(Top.res) + 1) /\ j <= Len(Top.res)
      BY <3>1
    <3>6. QED BY <3>2, <3>3, <3>4, <3>5
  <2>7. CASE depth = 1
    <3>1. frame'[1] = c /\ Top = frame[1] /\ c.row = row + 1 /\ first[row] = 0
      BY <1>2, <1>5, <2>1, <2>5, <2>7
    <3>2. \A r \in 1..Len(first') : r < row + 1 /\ first'[r] # 0 =>
            \E j \in 1..Len(frame'[1].res) : frame'[1].res[j].id = first'[r]
      <4> TAKE r \in 1..Len(first')
      <4> HAVE r < row + 1 /\ first'[r] # 0
      <4>1. CASE r = row
        <5>1. Len(Top.res) + 1 \in 1..Len(c.res)
          <6>1. Len(Top.res) \in Nat
            BY <1>2 DEF Errors
          <6>2. QED BY <2>6, <6>1
        <5>2. c.res[Len(Top.res) + 1].id = first'[r]
          BY <2>1, <2>4, <2>6, <3>1, <4>1 DEF id
        <5>3. QED BY <3>1, <5>1, <5>2
      <4>2. CASE r # row
        <5>1. r \in 1..Len(first) /\ r < row /\ first[r] = first'[r]
          BY <1>3, <2>4, <4>2
        <5>2. PICK j \in 1..Len(Top.res) : Top.res[j].id = first[r]
          BY <1>4, <3>1, <5>1
        <5>3. j \in 1..Len(c.res) /\ c.res[j] = Top.res[j]
          <6>1. Len(Top.res) \in Nat
            BY <1>2 DEF Errors
          <6>2. QED BY <2>6, <6>1
        <5>4. QED BY <3>1, <5>1, <5>2, <5>3
      <4>3. QED BY <4>1, <4>2
    <3>3. \A r \in 1..Len(first') : r >= row + 1 => first'[r] = 0
      <4>1. \A r \in 1..Len(first') : r >= row + 1 => r > row /\ r # row
        BY <1>3, <2>4
      <4>2. QED BY <1>4, <2>4, <4>1
    <3>4. Clean(2, depth)'
      BY <2>3, <2>7 DEF Clean
    <3> DEFINE new == row + 1
    <3>5. new \in Nat /\ frame'[1].row = new
      BY <1>3, <3>1
    <3>6. new <= Len(first') => new \in 1..Len(first') /\ new >= row + 1
      BY <1>3, <2>4
    <3>7. \A r \in 1..Len(first') : r > new => r >= row + 1
      BY <1>3, <2>4
    <3>8. /\ \A r \in 1..Len(first') : r > new => first'[r] = 0
          /\ new <= Len(first') => first'[new] = 0
      BY <3>3, <3>6, <3>7
    <3> HIDE DEF new
    <3>9. QED BY <2>3, <3>2, <3>4, <3>5, <3>8 DEF OnItsWay, Way, FirstReported, new
  <2>8. CASE depth # 1
    <3>1. frame'[1] = frame[1] /\ depth \in 2..depth /\ 1 # depth /\ 1 \in 1..MaxDepth
      BY <1>2, <2>5, <2>8
    <3>2. \A k \in 2..depth : k \in 1..MaxDepth /\ (k # depth => frame'[k] = frame[k])
      BY <1>2, <2>5
    <3>3. \A k \in 2..depth : \A j \in 2..(k - 1) : j \in 2..depth /\ j # depth
      BY <1>2
    <3>4. \A k \in 2..depth : Clean(2, k - 1) => Clean(2, k - 1)'
      BY <3>2, <3>3 DEF Clean
    <3>5. first'[row] # 0 /\ row \in Nat
      BY <1>3, <2>2, <2>4
    <3>6. CASE first[row] = 0
      <4>1. Clean(2, depth) /\ first'[row] = id
        BY <1>4, <2>4, <3>6
      <4>2. Top.res = <<>> /\ Clean(2, depth - 1)
        <5>1. \A j \in 2..(depth - 1) : j \in 2..depth
          BY <1>2
        <5>2. QED BY <1>2, <3>1, <4>1, <5>1 DEF Clean
      <4>3. Len(Top.res) = 0
        BY <4>2
      <4>4. frame'[depth].res # <<>> /\ frame'[depth].res[1].id = first'[row]
        BY <2>1, <2>5, <2>6, <4>1, <4>3 DEF id
      <4>5. Clean(2, depth - 1)'
        BY <2>3, <3>1, <3>4, <4>2
      <4>6. Carries(depth, first[row])'
        BY <2>3, <3>1, <4>4, <4>5 DEF Carries
      <4>7. QED BY <1>3, <1>4, <2>3, <2>4, <3>1, <3>5, <4>6 DEF OnItsWay, Way, FirstReported
    <3>7. CASE first[row] # 0
      <4>1. PICK k \in 2..depth : Carries(k, first[row])
        BY <1>4, <3>7
      <4>2. frame'[k].res # <<>> /\ frame'[k].res[1].id = first[row]
        <5>1. CASE k = depth
          <6>1. Top.res # <<>> /\ Top.res[1].id = first[row]
            BY <1>2, <4>1, <5>1 DEF Carries
          <6>2. 1 \in 1..Len(Top.res)
            BY <1>2, <6>1 DEF Errors
          <6>3. QED BY <2>5, <2>6, <5>1, <6>1, <6>2
        <5>2. CASE k # depth
          BY <3>2, <4>1, <5>2 DEF Carries
        <5>3. QED BY <5>1, <5>2
      <4>3. Clean(2, k - 1)'
        BY <3>4, <4>1 DEF Carries
      <4>4. first'[row] = first[row]
        BY <2>4, <3>7
      <4>5. Carries(k, first[row])'
        BY <2>3, <3>1, <4>2, <4>3, <4>4 DEF Carries
      <4>6. k \in 2..depth'
        BY <2>3, <4>1
      <4>7. \A r \in 1..Len(first) : r # row => first'[r] = first[r]
        BY <2>4
      <4>8. Way(frame[1].row)'
        BY <1>3, <1>4, <2>4, <3>1, <3>5, <4>4, <4>5, <4>6, <4>7 DEF Way
      <4>9. QED BY <2>3, <4>8 DEF OnItsWay, FirstReported
    <3>8. QED BY <3>6, <3>7
  <2>9. QED BY <2>7, <2>8
<1>9. CASE Descend
  <2>1. PICK new : /\ new.res = <<>>
                   /\ frame' = [frame EXCEPT ![depth + 1] = new]
    <3> DEFINE step == <<Field.name, IF Field.kind = "list" THEN Top.elem + 1 ELSE 0>>
               call == Call(Field.of, Append(Top.at, step))
    <3>1. call.res = <<>>
      BY DEF Call
    <3>2. frame' = [frame EXCEPT ![depth + 1] = call]
      BY <1>9 DEF Descend
    <3> HIDE DEF call
    <3>3. QED BY <3>1, <3>2
  <2>2. /\ depth' = depth + 1 /\ depth < MaxDepth /\ status' = "running" /\ first' = first
    BY <1>1, <1>9 DEF Descend
  <2>3. /\ \A k \in 1..depth : frame'[k] = frame[k]
        /\ frame'[depth + 1].res = <<>>
    BY <1>2, <2>1, <2>2 DEF TypeOK
  <2>4. frame'[1] = frame[1]
    BY <1>2, <2>3
  <2>5. Clean(2, depth) => Clean(2, depth)'
    <3>1. \A k \in 2..depth' : k = depth + 1 \/ (k \in 2..depth /\ k \in 1..depth)
      BY <1>2, <2>2
    <3>2. QED BY <2>3, <3>1 DEF Clean
  <2>6. ASSUME NEW k \in 2..depth, Carries(k, first[row])
        PROVE  k \in 2..depth' /\ Carries(k, first[row])'
    <3>1. k \in 2..depth' /\ k \in 1..depth
      BY <1>2, <2>2
    <3>2. \A j \in 2..(k - 1) : j \in 1..depth
      BY <1>2
    <3>3. first'[frame'[1].row] = first[row] /\ frame'[k] = frame[k]
      BY <2>2, <2>3, <2>4, <3>1
    <3>4. Clean(2, k - 1)'
      BY <2>3, <2>6, <3>2 DEF Carries, Clean
    <3>5. QED BY <2>6, <3>1, <3>3, <3>4 DEF Carries
  <2>7. QED BY <1>3, <1>4, <2>2, <2>4, <2>5, <2>6 DEF OnItsWay, Way, FirstReported
<1>10. QED BY <1>1, <1>2, <1>6, <1>7, <1>8, <1>9 DEF FieldStep

LEMMA OnItsWayReturn ==
  ASSUME TypeOK, OnItsWay, Return
  PROVE  OnItsWay'
<1> DEFINE row == frame[1].row
           p == depth - 1
<1>1. /\ status = "running" /\ status' = "running" /\ first' = first /\ Top = frame[depth]
  BY DEF Return, Finished, Top
<1>2. /\ depth \in Nat /\ depth > 1 /\ depth' = p /\ p \in Nat /\ p \in 1..(depth - 1)
      /\ 1 \in 1..(depth - 1)
  BY ReturnFacts
<1>3. /\ \A k \in 1..(depth - 2) : frame'[k] = frame[k]
      /\ frame[p].res \in Errors /\ Top.res \in Errors
      /\ Top.res = <<>> =>
           /\ frame'[p].row \in {frame[p].row, frame[p].row + 1}
           /\ frame'[p].res = frame[p].res
      /\ Top.res # <<>> =>
           /\ frame'[p].row = frame[p].row + 1
           /\ \E e \in Errors : /\ e # <<>> /\ e[1].id = Top.res[1].id
                                /\ frame'[p].res = frame[p].res \o e
  BY ReturnFacts
<1>4. row \in 1..Len(first) /\ Len(first) \in Nat /\ row \in Nat \ {0}
  <2>1. row <= Len(first) /\ Len(first) \in Nat
    BY <1>1, <1>2 DEF TypeOK
  <2>2. row \in Nat \ {0}
    <3>1. 1 \in 1..depth
      BY <1>2
    <3>2. QED BY <3>1, FrameFacts
  <2>3. QED BY <2>1, <2>2
<1>5. /\ \A r \in 1..Len(first) :
           r < row /\ first[r] # 0 =>
             \E j \in 1..Len(frame[1].res) : frame[1].res[j].id = first[r]
      /\ \A r \in 1..Len(first) : r > row => first[r] = 0
      /\ \/ first[row] = 0 /\ Clean(2, depth)
         \/ first[row] # 0 /\ \E k \in 2..depth : Carries(k, first[row])
  BY <1>1, <1>4 DEF OnItsWay, Way
<1>6. CASE depth > 2
  <2>1. /\ 1 \in 1..(depth - 2) /\ p \in 2..depth /\ depth \in 2..depth /\ p \in 2..p
        /\ \A k \in 2..p : k = p \/ k \in 1..(depth - 2)
        /\ \A k \in 2..p : k \in 2..depth
        /\ \A k \in 2..depth : k \in 2..p \/ k = depth
    BY <1>2, <1>6
  <2>2. frame'[1] = frame[1]
    BY <1>3, <2>1
  <2>3. CASE first[row] = 0
    <3>1. Top.res = <<>> /\ \A k \in 2..p : frame[k].res = <<>>
      BY <1>1, <1>5, <2>1, <2>3 DEF Clean
    <3>2. \A k \in 2..p : frame'[k].res = <<>>
      BY <1>3, <2>1, <3>1
    <3>3. Clean(2, depth)'
      BY <1>2, <3>2 DEF Clean
    <3>4. Way(frame[1].row)'
      BY <1>1, <1>5, <2>2, <2>3, <3>3 DEF Way
    <3>5. QED BY <1>1, <3>4 DEF OnItsWay, FirstReported
  <2>4. CASE first[row] # 0
    <3>1. PICK k \in 2..depth : Carries(k, first[row])
      BY <1>5, <2>4
    <3>2. \E n \in 2..p : Carries(n, first[row])'
      <4>1. CASE k \in 2..(depth - 2)
        <5>1. /\ k \in 1..(depth - 2) /\ k \in 2..p
              /\ \A j \in 2..(k - 1) : j \in 1..(depth - 2)
          BY <1>2, <4>1
        <5>2. frame'[k] = frame[k] /\ \A j \in 2..(k - 1) : frame'[j] = frame[j]
          BY <1>3, <5>1
        <5>3. Clean(2, k - 1)'
          BY <3>1, <5>2 DEF Carries, Clean
        <5>4. QED BY <1>1, <1>2, <2>2, <3>1, <5>1, <5>2, <5>3 DEF Carries
      <4>2. CASE k = p
        <5>1. \A j \in 2..(depth' - 1) : j \in 1..(depth - 2) /\ j \in 2..(p - 1)
          BY <1>2
        <5>2. Clean(2, depth - 1)'
          BY <1>3, <3>1, <4>2, <5>1 DEF Carries, Clean
        <5>3. frame'[p].res # <<>> /\ frame'[p].res[1].id = first[row]
          <6>1. frame[p].res # <<>> /\ frame[p].res[1].id = first[row]
            BY <3>1, <4>2 DEF Carries
          <6>2. CASE Top.res = <<>>
            BY <1>3, <6>1, <6>2
          <6>3. CASE Top.res # <<>>
            <7>1. PICK e \in Errors : frame'[p].res = frame[p].res \o e
              BY <1>3, <6>3
            <7>2. Len(frame[p].res) \in Nat \ {0} /\ Len(e) \in Nat
              BY <1>3, <6>1 DEF Errors
            <7>3. 1 \in 1..(Len(frame[p].res) + Len(e)) /\ 1 <= Len(frame[p].res)
              BY <7>2
            <7>4. frame'[p].res[1] = frame[p].res[1]
              BY <1>3, <7>1, <7>3, ConcatProperties DEF Errors
            <7>5. frame'[p].res # <<>>
              BY <1>3, <6>1, <7>1, ConcatEqualIffEmpty DEF Errors
            <7>6. QED BY <6>1, <7>4, <7>5
          <6>4. QED BY <6>2, <6>3
        <5>4. Carries(depth, first[row])'
          BY <1>1, <1>2, <2>1, <2>2, <5>2, <5>3 DEF Carries
        <5>5. QED BY <1>2, <2>1, <5>4
      <4>3. CASE k = depth
        <5>1. /\ Top.res # <<>> /\ Top.res[1].id = first[row]
              /\ \A j \in 2..(depth - 1) : frame[j].res = <<>>
          BY <1>1, <3>1, <4>3 DEF Carries, Clean
        <5>2. frame[p].res = <<>>
          BY <2>1, <5>1
        <5>3. PICK e \in Errors : /\ e # <<>> /\ e[1].id = Top.res[1].id
                                  /\ frame'[p].res = frame[p].res \o e
          BY <1>3, <5>1
        <5>4. frame'[p].res = e
          BY <5>2, <5>3, ConcatEmptySeq DEF Errors
        <5>5. \A j \in 2..(depth' - 1) : j \in 1..(depth - 2) /\ j \in 2..(depth - 1)
          BY <1>2
        <5>6. Clean(2, depth - 1)'
          BY <1>3, <5>1, <5>5 DEF Clean
        <5>7. Carries(depth, first[row])'
          BY <1>1, <1>2, <2>1, <2>2, <5>1, <5>3, <5>4, <5>6 DEF Carries
        <5>8. QED BY <1>2, <2>1, <5>7
      <4>4. k \in 2..(depth - 2) \/ k = p \/ k = depth
        BY <1>2
      <4>5. QED BY <4>1, <4>2, <4>3, <4>4
    <3>3. Way(frame[1].row)'
      BY <1>1, <1>2, <1>5, <2>2, <2>4, <3>2 DEF Way
    <3>4. QED BY <1>1, <3>3 DEF OnItsWay, FirstReported
  <2>5. QED BY <2>3, <2>4
<1>7. CASE depth = 2
  <2>1. p = 1 /\ depth \in 2..2
    BY <1>7
  <2>2. Clean(2, depth)'
    BY <1>2, <2>1 DEF Clean
  <2>3. CASE first[row] = 0
    <3>1. Top.res = <<>>
      BY <1>1, <1>5, <1>7, <2>1, <2>3 DEF Clean
    <3>2. frame'[1].res = frame[1].res /\ frame'[1].row \in {row, row + 1}
      BY <1>3, <2>1, <3>1
    <3> DEFINE new == frame'[1].row
    <3>3. /\ \A r \in 1..Len(first) : r < new => r < row \/ r = row
          /\ \A r \in 1..Len(first) : r > new => r > row
          /\ new <= Len(first) => new = row \/ (new \in 1..Len(first) /\ new > row)
      BY <1>4, <3>2
    <3>4. /\ \A r \in 1..Len(first) : r < new /\ first[r] # 0 =>
               \E j \in 1..Len(frame[1].res) : frame[1].res[j].id = first[r]
          /\ \A r \in 1..Len(first) : r > new => first[r] = 0
          /\ new <= Len(first) => first[new] = 0
      BY <1>5, <2>3, <3>3
    <3> HIDE DEF new
    <3>5. Way(frame[1].row)'
      BY <1>1, <2>2, <3>2, <3>4 DEF Way, new
    <3>6. QED BY <1>1, <3>5 DEF OnItsWay, FirstReported
  <2>4. CASE first[row] # 0
    <3>1. PICK k \in 2..depth : Carries(k, first[row])
      BY <1>5, <2>4
    <3>2. k = 2
      BY <1>7
    <3>3. Top.res # <<>> /\ Top.res[1].id = first[row]
      BY <1>1, <1>7, <3>1, <3>2 DEF Carries
    <3>4. /\ frame'[1].row = row + 1
          /\ \E e \in Errors : /\ e # <<>> /\ e[1].id = Top.res[1].id
                               /\ frame'[1].res = frame[1].res \o e
      BY <1>3, <2>1, <3>3
    <3>5. PICK e \in Errors : /\ e # <<>> /\ e[1].id = first[row]
                              /\ frame'[1].res = frame[1].res \o e
      BY <3>3, <3>4
    <3> DEFINE old == frame[1].res
               res == frame'[1].res
    <3>6. Len(old) \in Nat /\ Len(e) \in Nat \ {0} /\ old \in Errors
      BY <1>3, <2>1, <3>5 DEF Errors
    <3>7. /\ Len(res) = Len(old) + Len(e)
          /\ \A i \in 1..(Len(old) + Len(e)) :
               res[i] = IF i <= Len(old) THEN old[i] ELSE e[i - Len(old)]
      BY <3>5, <3>6, ConcatProperties DEF Errors
    <3> HIDE DEF old, res
    <3>8. /\ \A j \in 1..Len(old) : j \in 1..Len(res) /\ res[j] = old[j]
          /\ Len(old) + 1 \in 1..Len(res) /\ res[Len(old) + 1] = e[1]
      <4>1. /\ \A j \in 1..Len(old) : j \in 1..(Len(old) + Len(e)) /\ j <= Len(old)
            /\ Len(old) + 1 \in 1..(Len(old) + Len(e)) /\ ~(Len(old) + 1 <= Len(old))
            /\ (Len(old) + 1) - Len(old) = 1
        BY <3>6
      <4>2. QED BY <3>7, <4>1
    <3>9. \A r \in 1..Len(first) : r < row + 1 /\ first[r] # 0 =>
            \E j \in 1..Len(res) : res[j].id = first[r]
      <4> TAKE r \in 1..Len(first)
      <4> HAVE r < row + 1 /\ first[r] # 0
      <4>1. CASE r = row
        BY <3>5, <3>8, <4>1
      <4>2. CASE r # row
        <5>1. r < row
          BY <1>4, <4>2
        <5>2. PICK j \in 1..Len(old) : old[j].id = first[r]
          BY <1>5, <5>1 DEF old
        <5>3. QED BY <3>8, <5>2
      <4>3. QED BY <4>1, <4>2
    <3> DEFINE new == row + 1
    <3>10. /\ \A r \in 1..Len(first) : r > new => r > row
           /\ new <= Len(first) => new \in 1..Len(first) /\ new > row
      BY <1>4
    <3>11. /\ \A r \in 1..Len(first) : r > new => first[r] = 0
           /\ new <= Len(first) => first[new] = 0
      BY <1>5, <3>10
    <3>12. /\ \A r \in 1..Len(first) : r < new /\ first[r] # 0 =>
                \E j \in 1..Len(res) : res[j].id = first[r]
           /\ frame'[1].row = new
      BY <3>4, <3>9
    <3> HIDE DEF new
    <3>13. Way(frame[1].row)'
      BY <1>1, <2>2, <3>11, <3>12 DEF Way, res
    <3>14. QED BY <1>1, <3>13 DEF OnItsWay, FirstReported
  <2>5. QED BY <2>3, <2>4
<1>8. QED BY <1>2, <1>6, <1>7

\* In every behaviour the first fault at or beneath each field of the validated
\* model is among the errors returned, if the tables agree with the declarations.
THEOREM FirstFaultReported == ASSUME TablesAgree PROVE Spec => []FirstReported
<1>1. Init => OnItsWay
  BY DEF Init, OnItsWay, FirstReported
<1>2. TypeOK /\ OnItsWay /\ [Next]_Everything => OnItsWay'
  <2> SUFFICES ASSUME TypeOK, OnItsWay, [Next]_Everything PROVE OnItsWay'
    OBVIOUS
  <2>1. CASE UNCHANGED vars
    BY <2>1 DEF vars, OnItsWay, Way, Clean, Carries, FirstReported
  <2>2. ASSUME NEW type \in Types, NEW m, Begin(type, m) PROVE OnItsWay'
    <3>1. /\ status' = "running" /\ depth' = 1 /\ frame'[1].row = 1
      <4>1. 1 \in 1..MaxDepth /\ frame' = [frame EXCEPT ![1] = Call(type, <<>>)]
        BY <2>2, ApiValidateAssumption DEF Begin
      <4>2. QED BY <2>2, <4>1 DEF Begin, Call, TypeOK
    <3>2. /\ first' = [r \in 1..Len(Models[type]) |-> 0] /\ Len(Models[type]) \in Nat
          /\ Len(first') = Len(Models[type])
      BY <2>2, ApiValidateAssumption DEF Begin
    <3>3. Clean(2, depth)'
      BY <3>1 DEF Clean
    <3>4. /\ \A r \in 1..Len(first') : ~(r < 1) /\ first'[r] = 0
          /\ 1 <= Len(first') => first'[1] = 0
      BY <3>2
    <3>5. Way(frame[1].row)'
      BY <3>1, <3>3, <3>4 DEF Way
    <3>6. QED BY <3>1, <3>5 DEF OnItsWay, FirstReported
  <2>3. CASE FieldStep
    BY <2>3, OnItsWayField
  <2>4. CASE Return
    BY <2>4, OnItsWayReturn
  <2>5. CASE ReturnOutermost
    <3>1. /\ status = "running" /\ depth = 1 /\ Top = frame[1] /\ status' = "returned"
          /\ report' = frame[1].res /\ first' = first
          /\ frame[1].row > Len(Fields(frame[1]))
      BY <2>5 DEF ReturnOutermost, Finished, Top
    <3>2. Len(first) = Len(Fields(frame[1])) /\ Len(first) \in Nat /\ frame[1].row \in Nat
      <4>1. 1 \in 1..depth
        BY <3>1
      <4>2. QED BY <3>1, <4>1, FrameFacts DEF TypeOK
    <3>3. \A r \in 1..Len(first) : r < frame[1].row
      BY <3>1, <3>2
    <3>4. QED BY <3>1, <3>3 DEF OnItsWay, Way, FirstReported
  <2>6. CASE Forget
    BY <2>6 DEF Forget, OnItsWay, FirstReported
  <2>7. ASSUME ValidatePayload PROVE OnItsWay'
    <3>1. Payload \in Types /\ Begin(Payload, "validate")
      BY <2>7 DEF ValidatePayload
    <3>2. QED BY <2>2, <3>1
  <2>8. QED BY <2>1, <2>2, <2>3, <2>4, <2>5, <2>6, <2>7
            DEF Next, Step, CallStep, ValidateModel, Everything
<1>3. OnItsWay => FirstReported
  BY DEF OnItsWay
<1>4. QED BY <1>1, <1>2, <1>3, TypeCorrect, PTL DEF Spec, Everything, ClientInit

-----------------------------------------------------------------------------
(* An error names the place of its fault. *)

\* The place D[e.id] of every error is reached from the value at `at` by the
\* error's path, or the code leaves a name on the way out.
Placed(errs, at, D, m) ==
  \A j \in 1..Len(errs) :
    /\ errs[j].id <= Len(D)
    /\ D[errs[j].id] = at \o errs[j].path \/ (m = "request" /\ Unnamed(D[errs[j].id]))

\* The step from a call's value to the one its current field's call is for.
StepOf(c) ==
  <<FieldOf(c).name, IF FieldOf(c).kind = "list" THEN c.elem + 1 ELSE 0>>

\* The calls under way are at places that lead to each other, and the errors of
\* each name places beneath its own.
Traced ==
  /\ status = "idle" \/ mode = "response" => defects = <<>>
  /\ status = "running" =>
       /\ frame[1].at = <<>>
       /\ \A k \in 1..depth : Placed(frame[k].res, frame[k].at, defects, mode)
       /\ \A k \in 1..(depth - 1) : frame[k + 1].at = Append(frame[k].at, StepOf(frame[k]))
  /\ status = "returned" => Placed(report, <<>>, defects, mode)

\* A path that goes on after a step.
LEMMA AppendConcat ==
  ASSUME NEW S, NEW s \in Seq(S), NEW x \in S, NEW t \in Seq(S)
  PROVE  /\ Append(s, x) \o t = s \o (<<x>> \o t)
         /\ Len(s) + 1 \in 1..Len(Append(s, x) \o t)
         /\ (Append(s, x) \o t)[Len(s) + 1] = x
<1> DEFINE a == Append(s, x)
           one == <<x>>
<1>1. one \in Seq(S) /\ a = s \o one
  BY AppendIsConcat
<1>2. a \in Seq(S) /\ Len(a) = Len(s) + 1 /\ a[Len(s) + 1] = x
  BY AppendProperties
<1> HIDE DEF a, one
<1>3. (s \o one) \o t = s \o (one \o t)
  BY <1>1, ConcatAssociative
<1>4. /\ Len(a \o t) = Len(a) + Len(t)
      /\ \A i \in 1..(Len(a) + Len(t)) :
           (a \o t)[i] = IF i <= Len(a) THEN a[i] ELSE t[i - Len(a)]
  BY <1>2, ConcatProperties
<1>5. Len(s) \in Nat /\ Len(t) \in Nat
  OBVIOUS
<1>6. Len(s) + 1 \in 1..(Len(a) + Len(t))
  BY <1>2, <1>5
<1>7. QED BY <1>1, <1>2, <1>3, <1>4, <1>5, <1>6 DEF a, one

\* The parts of an error.
LEMMA ErrorFacts ==
  ASSUME NEW errs \in Errors, NEW j \in 1..Len(errs)
  PROVE  errs[j].id \in Nat \ {0} /\ errs[j].path \in Seq(StepSet)
<1>1. errs[j] \in ErrorSet
  BY DEF Errors
<1>2. QED BY <1>1 DEF ErrorSet

LEMMA PlacedConcat ==
  ASSUME NEW e \in Errors, NEW f \in Errors, NEW at, NEW D, NEW m,
         Placed(e, at, D, m), Placed(f, at, D, m)
  PROVE  Placed(e \o f, at, D, m)
<1> SUFFICES ASSUME NEW j \in 1..Len(e \o f)
             PROVE  /\ (e \o f)[j].id <= Len(D)
                    /\ \/ D[(e \o f)[j].id] = at \o (e \o f)[j].path
                       \/ m = "request" /\ Unnamed(D[(e \o f)[j].id])
  BY DEF Placed
<1>1. Len(e) \in Nat /\ Len(f) \in Nat /\ Len(e \o f) = Len(e) + Len(f)
  BY DEF Errors
<1>2. CASE j <= Len(e)
  <2>1. j \in 1..Len(e) /\ (e \o f)[j] = e[j]
    BY <1>1, <1>2 DEF Errors
  <2>2. QED BY <2>1 DEF Placed
<1>3. CASE ~(j <= Len(e))
  <2>1. j - Len(e) \in 1..Len(f) /\ (e \o f)[j] = f[j - Len(e)]
    BY <1>1, <1>3 DEF Errors
  <2>2. QED BY <2>1 DEF Placed
<1>4. QED BY <1>2, <1>3

\* No error.
LEMMA PlacedNone == ASSUME NEW at, NEW D, NEW m PROVE Placed(<<>>, at, D, m)
BY DEF Placed

\* A single error.
LEMMA PlacedOne ==
  ASSUME NEW e, NEW at, NEW D, NEW m, e.id <= Len(D),
         D[e.id] = at \o e.path \/ (m = "request" /\ Unnamed(D[e.id]))
  PROVE  Placed(<<e>>, at, D, m)
<1> DEFINE one == <<e>>
<1>1. \A j \in 1..Len(one) : one[j] = e
  OBVIOUS
<1> HIDE DEF one
<1>2. Placed(one, at, D, m)
  BY <1>1 DEF Placed
<1>3. QED BY <1>2 DEF one

\* The fault just met.
LEMMA PlacedNew ==
  ASSUME NEW D \in Seq(Seq(StepSet)), NEW at \in Seq(StepSet), NEW step \in StepSet,
         NEW m, NEW err, err.id = Len(D) + 1, err.path = <<step>>
  PROVE  Placed(<<err>>, at, Append(D, Append(at, step)), m)
<1> DEFINE place == Append(at, step)
           E == Append(D, place)
<1>1. place \in Seq(StepSet) /\ place = at \o <<step>>
  BY AppendProperties, AppendIsConcat
<1> HIDE DEF place
<1>2. Len(E) = Len(D) + 1 /\ E[Len(D) + 1] = place /\ Len(D) \in Nat
  BY <1>1, AppendProperties
<1> HIDE DEF E
<1>3. err.id <= Len(E) /\ E[err.id] = at \o err.path
  BY <1>1, <1>2
<1>4. Placed(<<err>>, at, E, m)
  BY <1>3, PlacedOne
<1>5. QED BY <1>4 DEF E, place

\* Further faults change nothing of what earlier errors say.
LEMMA PlacedGrows ==
  ASSUME NEW D \in Seq(Seq(StepSet)), NEW x \in Seq(StepSet), NEW e \in Errors,
         NEW at, NEW m, Placed(e, at, D, m)
  PROVE  Placed(e, at, Append(D, x), m)
<1> DEFINE E == Append(D, x)
<1>1. Len(E) = Len(D) + 1 /\ (\A i \in 1..Len(D) : E[i] = D[i]) /\ Len(D) \in Nat
  BY AppendProperties
<1> HIDE DEF E
<1>2. ASSUME NEW j \in 1..Len(e)
      PROVE  /\ e[j].id <= Len(E)
             /\ E[e[j].id] = at \o e[j].path \/ (m = "request" /\ Unnamed(E[e[j].id]))
  <2>1. e[j].id \in Nat \ {0} /\ e[j].id <= Len(D)
    BY ErrorFacts DEF Placed
  <2>2. E[e[j].id] = D[e[j].id] /\ e[j].id <= Len(E)
    BY <1>1, <2>1
  <2>3. QED BY <2>2 DEF Placed
<1>3. Placed(e, at, E, m)
  BY <1>2 DEF Placed
<1>4. QED BY <1>3 DEF E

\* ValidateName leads an error one step up.
LEMMA PlacedRenamed ==
  ASSUME NEW errs \in Errors, errs # <<>>, NEW at \in Seq(StepSet), NEW step \in StepSet,
         NEW D, NEW m, Placed(errs, Append(at, step), D, m)
  PROVE  Placed(Rename(step, errs), at, D, m)
<1> DEFINE named == [j \in 1..Len(errs) |->
                      [id |-> errs[j].id, path |-> <<step>> \o errs[j].path]]
<1>1. Len(errs) \in Nat \ {0}
  BY DEF Errors
<1>2. Len(named) = Len(errs)
  BY <1>1
<1>3. ASSUME NEW j \in 1..Len(errs)
      PROVE  /\ named[j].id <= Len(D)
             /\ \/ D[named[j].id] = at \o named[j].path
                \/ m = "request" /\ Unnamed(D[named[j].id])
  <2>1. named[j].id = errs[j].id /\ named[j].path = <<step>> \o errs[j].path
    OBVIOUS
  <2>2. errs[j].path \in Seq(StepSet)
    BY ErrorFacts
  <2>3. Append(at, step) \o errs[j].path = at \o (<<step>> \o errs[j].path)
    <3> DEFINE t == errs[j].path
    <3>1. t \in Seq(StepSet)
      BY <2>2
    <3> HIDE DEF t
    <3>2. Append(at, step) \o t = at \o (<<step>> \o t)
      BY <3>1, AppendConcat
    <3>3. QED BY <3>2 DEF t
  <2> HIDE DEF named
  <2>4. QED BY <2>1, <2>3 DEF Placed
<1> HIDE DEF named
<1>4. CASE Unwraps
  <2>1. Rename(step, errs) = <<named[1]>>
    BY <1>4 DEF Rename, named
  <2>2. 1 \in 1..Len(errs)
    BY <1>1
  <2>3. Placed(<<named[1]>>, at, D, m)
    BY <1>3, <2>2, PlacedOne
  <2>4. QED BY <2>1, <2>3
<1>5. CASE ~Unwraps
  <2>1. Rename(step, errs) = named
    BY <1>5 DEF Rename, named
  <2>2. QED BY <1>2, <1>3, <2>1 DEF Placed
<1>6. QED BY <1>4, <1>5

\* Where ContextValidate leaves the step out, the place has an unnamed step.
LEMMA PlacedUnnamed ==
  ASSUME NEW p \in CallSet, p.type \in Types, FieldOf(p) \in FieldSet,
         "unnamed" \in Entry(ContextValidators[p.type], FieldOf(p).name),
         NEW errs \in Errors, NEW D, Placed(errs, Append(p.at, StepOf(p)), D, "request")
  PROVE  Placed(errs, p.at, D, "request")
<1> SUFFICES ASSUME NEW j \in 1..Len(errs)
             PROVE  errs[j].id <= Len(D) /\ Unnamed(D[errs[j].id])
  BY DEF Placed
<1> DEFINE step == StepOf(p)
           here == Append(p.at, step)
           place == here \o errs[j].path
<1>1. step \in StepSet /\ step[1] = FieldOf(p).name
  <2>1. FieldOf(p).name \in STRING /\ p.elem \in Nat
    BY DEF FieldSet, CallSet
  <2>2. (IF FieldOf(p).kind = "list" THEN p.elem + 1 ELSE 0) \in Nat
    BY <2>1
  <2>3. QED BY <2>1, <2>2 DEF StepOf, StepSet
<1> HIDE DEF step
<1>2. p.at \in Seq(StepSet) /\ errs[j].path \in Seq(StepSet)
  BY ErrorFacts DEF CallSet
<1>3. Len(p.at) + 1 \in 1..Len(place) /\ place[Len(p.at) + 1] = step
  <2> DEFINE s == p.at
             t == errs[j].path
  <2>1. s \in Seq(StepSet) /\ t \in Seq(StepSet)
    BY <1>2
  <2> HIDE DEF s, t
  <2>2. Len(s) + 1 \in 1..Len(Append(s, step) \o t) /\ (Append(s, step) \o t)[Len(s) + 1] = step
    BY <1>1, <2>1, AppendConcat
  <2>3. QED BY <2>2 DEF s, t
<1>4. Unnamed(place)
  <2> HIDE DEF place
  <2>1. QED BY <1>1, <1>3 DEF Unnamed
<1>5. QED BY <1>4 DEF Placed, step, here, place

\* What a caller makes of the errors of a nested call names its own fields.
LEMMA PlacedResume ==
  ASSUME TablesAgree, mode \in Modes, mode = "response" => defects = <<>>,
         NEW p \in CallSet, p.type \in Types, p.row <= Len(Fields(p)),
         NEW errs \in Errors, Placed(errs, Append(p.at, StepOf(p)), defects, mode),
         Placed(p.res, p.at, defects, mode)
  PROVE  Placed(Resume(p, errs).res, p.at, defects, mode)
<1> DEFINE f == FieldOf(p)
<1>1. /\ f \in FieldSet /\ p.res \in Errors /\ p.at \in Seq(StepSet)
  BY FieldFacts DEF CallSet, Errors
<1>2. StepOf(p) \in StepSet
  <2>1. f.name \in STRING /\ p.elem \in Nat
    BY <1>1 DEF FieldSet, CallSet
  <2>2. (IF f.kind = "list" THEN p.elem + 1 ELSE 0) \in Nat
    BY <2>1
  <2>3. QED BY <2>1, <2>2 DEF StepOf, StepSet
<1>3. CASE errs = <<>>
  BY <1>1, <1>3, ResumeFacts
<1>4. CASE errs # <<>>
  <2> DEFINE e == IF "unnamed" \in Checks(p) THEN errs ELSE Rename(StepOf(p), errs)
  <2>1. Resume(p, errs) = Passes(p, e)
    BY <1>4 DEF Resume, StepOf
  <2>2. e \in Errors
    BY <1>2, <1>4, RenameFacts
  <2>3. Placed(e, p.at, defects, mode)
    <3>1. CASE "unnamed" \notin Checks(p)
      BY <1>1, <1>2, <1>4, <3>1, PlacedRenamed
    <3>2. CASE "unnamed" \in Checks(p) /\ mode = "validate"
      <4>1. p.row \in 1..Len(Models[p.type])
        BY ApiValidateAssumption DEF CallSet, Fields
      <4>2. "unnamed" \notin Entry(Validators[p.type], Models[p.type][p.row].name)
        BY <4>1 DEF TablesAgree
      <4>3. QED BY <3>2, <4>2 DEF Checks, FieldOf, Fields
    <3>3. CASE "unnamed" \in Checks(p) /\ mode = "request"
      BY <1>1, <3>3, PlacedUnnamed DEF Checks
    <3>4. CASE mode = "response"
      <4>1. Len(defects) = 0 /\ Len(errs) \in Nat
        BY <3>4 DEF Errors
      <4>2. 1 \in 1..Len(errs) => errs[1].id \in Nat \ {0} /\ errs[1].id <= Len(defects)
        BY ErrorFacts DEF Placed
      <4>3. Len(errs) = 0
        BY <4>1, <4>2
      <4>4. QED BY <1>4, <4>3, EmptySeq DEF Errors
    <3>5. QED BY <3>1, <3>2, <3>3, <3>4 DEF Modes
  <2> HIDE DEF e
  <2>4. Resume(p, errs).res = p.res \o e
    BY <2>1, <2>2, PassesFacts
  <2>5. QED BY <1>1, <2>2, <2>3, <2>4, PlacedConcat
<1>5. QED BY <1>3, <1>4

\* A step within a field leaves the calls under way traced.
LEMMA TracedField ==
  ASSUME TablesAgree, TypeOK, Traced, FieldStep
  PROVE  Traced'
<1>1. InField /\ status = "running" /\ status' = "running" /\ mode' = mode
  BY DEF FieldStep, InField, PassField, PassNil, BreakRule, Descend
<1>2. /\ frame[1].at = <<>>
      /\ \A k \in 1..depth : Placed(frame[k].res, frame[k].at, defects, mode)
      /\ \A k \in 1..(depth - 1) : frame[k + 1].at = Append(frame[k].at, StepOf(frame[k]))
      /\ mode = "response" => defects = <<>>
  BY <1>1 DEF Traced
<1>3. /\ depth \in 1..depth /\ depth \in 1..MaxDepth /\ depth \in Nat \ {0}
      /\ MaxDepth \in Nat /\ Top = frame[depth] /\ Top \in CallSet /\ Top.res \in Errors
      /\ Top.at \in Seq(StepSet)
  BY <1>1, TopFacts
<1>4. ASSUME NEW c \in CallSet, c.at = Top.at,
             frame' = [frame EXCEPT ![depth] = c], depth' = depth,
             mode = "response" => defects' = <<>>,
             Placed(c.res, c.at, defects', mode),
             \A k \in 1..(depth - 1) : Placed(frame[k].res, frame[k].at, defects', mode)
      PROVE  Traced'
  <2>1. frame'[depth] = c /\ \A k \in 1..(depth - 1) : frame'[k] = frame[k]
    BY <1>3, <1>4 DEF TypeOK
  <2>2. /\ \A k \in 1..depth : k \in 1..(depth - 1) \/ k = depth
        /\ \A k \in 1..(depth - 1) : k + 1 \in 1..depth
        /\ 1 \in 1..depth
    BY <1>3
  <2>3. \A k \in 1..depth : frame'[k].at = frame[k].at
    BY <1>3, <1>4, <2>1, <2>2
  <2>4. \A k \in 1..depth : Placed(frame'[k].res, frame'[k].at, defects', mode)
    BY <1>4, <2>1, <2>2
  <2>5. \A k \in 1..(depth - 1) :
          frame'[k + 1].at = Append(frame'[k].at, StepOf(frame'[k]))
    BY <1>2, <2>1, <2>2, <2>3
  <2>6. frame'[1].at = <<>>
    BY <1>2, <2>2, <2>3
  <2>7. QED BY <1>1, <1>4, <2>4, <2>5, <2>6 DEF Traced, StepOf, FieldOf, Fields
<1>5. CASE PassField \/ PassNil
  <2>1. PICK c \in CallSet : /\ c.at = Top.at /\ c.res = Top.res
                             /\ frame' = [frame EXCEPT ![depth] = c]
    <3>1. Passes(Top, <<>>).at = Top.at /\ PassesElement(Top).at = Top.at
      BY DEF Passes, PassesElement
    <3>2. QED BY <1>1, <1>5, <3>1, TopFacts DEF PassField, PassNil
  <2>2. UNCHANGED <<depth, defects>>
    BY <1>5 DEF PassField, PassNil
  <2>3. \A k \in 1..(depth - 1) : k \in 1..depth
    BY <1>3
  <2>4. QED BY <1>2, <1>3, <1>4, <2>1, <2>2, <2>3
<1>6. ASSUME NEW rule \in Demands(Field), BreakRule(rule) PROVE Traced'
  <2> DEFINE step == <<Field.name, IF rule = "required" THEN Top.elem + 1 ELSE 0>>
             place == Append(Top.at, step)
             err == [id |-> Len(defects) + 1, path |-> <<step>>]
             c == Passes(Top, <<err>>)
  <2>1. Checked(rule)
    BY <1>1, DemandedIsChecked
  <2>2. defects' = Append(defects, place) /\ depth' = depth
        /\ frame' = [frame EXCEPT ![depth] = c]
    BY <1>6, <2>1 DEF BreakRule
  <2>3. mode # "response"
    BY DEF Demands
  <2>4. step \in StepSet
    <3>1. Field.name \in STRING /\ Top.elem \in Nat
      BY <1>1, <1>3, FrameFacts, FieldFacts DEF InField, Field, FieldSet
    <3>2. (IF rule = "required" THEN Top.elem + 1 ELSE 0) \in Nat
      BY <3>1
    <3>3. QED BY <3>1, <3>2 DEF StepSet
  <2> HIDE DEF step
  <2>5. place \in Seq(StepSet) /\ defects \in Seq(Seq(StepSet))
    BY <1>3, <2>4, AppendProperties DEF TypeOK
  <2>6. err \in ErrorSet /\ err.id = Len(defects) + 1 /\ err.path = <<step>>
    <3>1. Len(defects) + 1 \in Nat \ {0} /\ <<step>> \in Seq(StepSet)
      BY <2>4, <2>5
    <3>2. QED BY <3>1 DEF ErrorSet
  <2> HIDE DEF err
  <2>7. Placed(<<err>>, Top.at, Append(defects, place), mode)
    BY <1>3, <2>4, <2>5, <2>6, PlacedNew
  <2> HIDE DEF place
  <2>8. <<err>> \in Errors
    BY <2>6 DEF Errors
  <2>9. c \in CallSet /\ c.at = Top.at /\ c.res = Top.res \o <<err>>
    BY <1>3, <2>8, PassesFacts
  <2> HIDE DEF c
  <2>10. \A k \in 1..depth : Placed(frame[k].res, frame[k].at, Append(defects, place), mode)
    BY <1>2, <2>5, FrameFacts, PlacedGrows
  <2>11. Placed(c.res, c.at, Append(defects, place), mode)
    BY <1>3, <2>7, <2>8, <2>9, <2>10, PlacedConcat
  <2>12. \A k \in 1..(depth - 1) : k \in 1..depth
    BY <1>3
  <2>13. QED BY <1>4, <2>2, <2>3, <2>9, <2>10, <2>11, <2>12
<1>7. CASE Descend
  <2> DEFINE here == Append(Top.at, StepOf(Top))
             call == Call(Field.of, here)
  <2>1. /\ depth' = depth + 1 /\ depth < MaxDepth /\ defects' = defects
        /\ frame' = [frame EXCEPT ![depth + 1] = call]
    BY <1>7 DEF Descend, StepOf, Field
  <2>2. call.at = here /\ call.res = <<>>
    BY DEF Call
  <2> HIDE DEF call, here
  <2>3. frame'[depth + 1] = call /\ \A k \in 1..depth : frame'[k] = frame[k]
    BY <1>3, <2>1 DEF TypeOK
  <2>4. /\ \A k \in 1..depth' : k \in 1..depth \/ k = depth + 1
        /\ \A k \in 1..(depth' - 1) : /\ k \in 1..depth
                                      /\ k \in 1..(depth - 1) \/ k = depth
        /\ \A k \in 1..(depth - 1) : k + 1 \in 1..depth
        /\ 1 \in 1..depth
    BY <1>3, <2>1
  <2>5. \A k \in 1..depth' : Placed(frame'[k].res, frame'[k].at, defects, mode)
    BY <1>2, <2>2, <2>3, <2>4, PlacedNone
  <2>6. \A k \in 1..(depth' - 1) :
          frame'[k + 1].at = Append(frame'[k].at, StepOf(frame'[k]))
    <3> TAKE k \in 1..(depth' - 1)
    <3>1. CASE k \in 1..(depth - 1)
      BY <1>2, <2>3, <2>4, <3>1
    <3>2. CASE k = depth
      BY <1>3, <2>2, <2>3, <2>4, <3>2 DEF here
    <3>3. QED BY <2>4, <3>1, <3>2
  <2>7. frame'[1].at = <<>>
    BY <1>2, <2>3, <2>4
  <2>8. QED BY <1>1, <1>2, <2>1, <2>5, <2>6, <2>7 DEF Traced, StepOf, FieldOf, Fields
<1>8. QED BY <1>5, <1>6, <1>7 DEF FieldStep

\* So does the return of a nested call.
LEMMA TracedReturn ==
  ASSUME TablesAgree, TypeOK, Traced, Return
  PROVE  Traced'
<1> DEFINE p == frame[depth - 1]
           q == Resume(p, Top.res)
<1>1. /\ status = "running" /\ depth > 1 /\ depth' = depth - 1
      /\ frame' = [frame EXCEPT ![depth] = NoCall, ![depth - 1] = q]
      /\ UNCHANGED <<mode, status, report, defects>>
  BY DEF Return, Finished
<1>2. /\ MaxDepth \in Nat /\ depth \in 1..MaxDepth /\ depth - 1 \in 1..MaxDepth
      /\ depth \in 1..depth /\ depth - 1 \in 1..depth /\ depth - 1 < depth
      /\ depth - 1 # depth /\ depth - 1 \in 1..(depth - 1) /\ (depth - 1) + 1 = depth
  BY <1>1, ApiValidateAssumption DEF TypeOK
<1>3. /\ frame[1].at = <<>>
      /\ \A k \in 1..depth : Placed(frame[k].res, frame[k].at, defects, mode)
      /\ \A k \in 1..(depth - 1) : frame[k + 1].at = Append(frame[k].at, StepOf(frame[k]))
      /\ mode = "response" => defects = <<>>
  BY <1>1 DEF Traced
<1>4. /\ Top.res \in Errors /\ p \in CallSet /\ p.type \in Types
      /\ p.row <= Len(Fields(p)) /\ mode \in Modes
  <2>1. p.row <= Len(Fields(p)) /\ mode \in Modes
    BY <1>2 DEF TypeOK
  <2>2. QED BY <1>2, <2>1, FrameFacts DEF Top
<1>5. Placed(Top.res, Append(p.at, StepOf(p)), defects, mode)
  BY <1>2, <1>3 DEF Top
<1>6. Placed(p.res, p.at, defects, mode)
  BY <1>2, <1>3
<1>7. frame'[depth - 1] = q
  BY <1>1, <1>2 DEF TypeOK
<1>8. \A k \in 1..(depth - 2) : frame'[k] = frame[k]
  BY ReturnFacts
<1>9. frame'[depth - 1].at = p.at
  BY ReturnFacts
<1>10. Placed(q.res, p.at, defects, mode)
  <2> HIDE DEF p
  <2>1. QED BY <1>3, <1>4, <1>5, <1>6, PlacedResume
<1> HIDE DEF q
<1>11. /\ \A k \in 1..depth' : k \in 1..(depth - 2) \/ k = depth - 1
       /\ \A k \in 1..(depth' - 1) :
            k \in 1..(depth - 2) /\ k \in 1..(depth - 1) /\ k + 1 \in 1..depth'
       /\ \A k \in 1..(depth - 2) : k \in 1..depth
       /\ 1 \in 1..depth'
  BY <1>1, <1>2
<1>12. \A k \in 1..depth' : frame'[k].at = frame[k].at
  BY <1>8, <1>9, <1>11
<1>13. \A k \in 1..depth' : Placed(frame'[k].res, frame'[k].at, defects, mode)
  BY <1>3, <1>7, <1>8, <1>9, <1>10, <1>11
<1>14. \A k \in 1..(depth' - 1) :
         frame'[k + 1].at = Append(frame'[k].at, StepOf(frame'[k]))
  BY <1>3, <1>8, <1>11, <1>12
<1>15. frame'[1].at = <<>>
  BY <1>3, <1>11, <1>12
<1>16. QED BY <1>1, <1>3, <1>13, <1>14, <1>15 DEF Traced, StepOf, FieldOf, Fields

\* Every error a caller gets leads to a value at fault, from the model it
\* validated down, for any models, depth and lists, if the tables agree with
\* the declarations; but beneath a field whose name the code leaves out.
THEOREM ErrorsAreLocated == ASSUME TablesAgree PROVE Spec => []Located
<1>1. Init => Traced
  BY DEF Init, Traced
<1>2. TypeOK /\ Traced /\ [Next]_Everything => Traced'
  <2> SUFFICES ASSUME TypeOK, Traced, [Next]_Everything PROVE Traced'
    OBVIOUS
  <2>1. CASE UNCHANGED vars
    BY <2>1 DEF vars, Traced, StepOf, FieldOf, Fields
  <2>2. ASSUME NEW type, NEW m, Begin(type, m) PROVE Traced'
    <3>1. /\ status' = "running" /\ depth' = 1 /\ frame'[1].res = <<>>
          /\ frame'[1].at = <<>> /\ 1..depth' = {1} /\ 1..(depth' - 1) = {}
      <4>1. 1 \in 1..MaxDepth /\ frame' = [frame EXCEPT ![1] = Call(type, <<>>)]
        BY <2>2, ApiValidateAssumption DEF Begin
      <4>2. QED BY <2>2, <4>1 DEF Begin, Call, TypeOK
    <3>2. defects' = <<>>
      BY <2>2 DEF Begin, Traced
    <3>3. QED BY <3>1, <3>2, PlacedNone DEF Traced
  <2>3. CASE FieldStep
    BY <2>3, TracedField
  <2>4. CASE Return
    BY <2>4, TracedReturn
  <2>5. CASE ReturnOutermost
    <3>1. /\ status = "running" /\ depth = 1 /\ status' = "returned" /\ 1 \in 1..depth
          /\ report' = frame[1].res /\ UNCHANGED <<mode, defects>>
      BY <2>5 DEF ReturnOutermost, Finished, Top
    <3>2. Placed(frame[1].res, <<>>, defects, mode)
      BY <3>1 DEF Traced
    <3>3. QED BY <3>1, <3>2 DEF Traced
  <2>6. CASE Forget
    BY <2>6 DEF Forget, Traced
  <2>7. QED BY <2>1, <2>2, <2>3, <2>4, <2>5, <2>6
            DEF Next, Step, CallStep, ValidatePayload, ValidateModel, Everything
<1>3. TypeOK /\ Traced => Located
  <2> SUFFICES ASSUME TypeOK, Traced, status = "returned", NEW j \in 1..Len(report)
               PROVE  \/ report[j].path = defects[report[j].id]
                      \/ mode = "request" /\ Unnamed(defects[report[j].id])
    BY DEF Located
  <2>1. report[j].path \in Seq(StepSet)
    BY ErrorFacts DEF TypeOK, Errors
  <2>2. <<>> \o report[j].path = report[j].path
    BY <2>1, ConcatEmptySeq
  <2>3. QED BY <2>2 DEF Traced, Placed
<1>4. QED BY <1>1, <1>2, <1>3, TypeCorrect, PTL DEF Spec, Everything, ClientInit

-----------------------------------------------------------------------------
(* The client. *)

\* Only an answer 200 comes back from a reader without an error.
OnlyOK ==
  /\ read.error # "panic"
  /\ phase = "read" => read.error # "none" \/ read.value = 200
  /\ NoPanic

\* No call of an operation ends in its panic, whatever the answers.
THEOREM NeverPanics == Spec => []NoPanic
<1>1. ClientInit => OnlyOK
  BY DEF ClientInit, OnlyOK, NoPanic, Nothing, Returned
<1>2. OnlyOK /\ [Next]_Everything => OnlyOK'
  <2> SUFFICES ASSUME OnlyOK, [Next]_Everything PROVE OnlyOK'
    OBVIOUS
  <2>1. CASE UNCHANGED callVars
    BY <2>1 DEF callVars, OnlyOK, NoPanic
  <2>2. ASSUME NEW o, Submit(o) PROVE OnlyOK'
    BY <2>2 DEF Submit, OnlyOK, NoPanic
  <2>3. CASE TransportFails
    BY <2>3 DEF TransportFails, OnlyOK, NoPanic, Returned
  <2>4. ASSUME NEW c, ReadUnlisted(c) \/ ReadGarbled(c) \/ ReadListed(c) PROVE OnlyOK'
    BY <2>4 DEF ReadUnlisted, ReadGarbled, ReadListed, OnlyOK, NoPanic, Returned
  <2>5. CASE Deliver
    <3>1. phase' = "done" /\ (read.error # "none" \/ read.value = 200)
          /\ read.error # "panic"
      BY <2>5 DEF Deliver, OnlyOK
    <3>2. QED BY <2>5, <3>1 DEF Deliver, OnlyOK, NoPanic, Returned, Nothing
  <2>6. CASE Drop
    BY <2>6 DEF Drop, OnlyOK, NoPanic, Nothing, Returned
  <2>7. QED BY <2>1, <2>2, <2>3, <2>4, <2>5, <2>6
            DEF Next, CallStep, ValidatePayload, ValidateModel, Everything
<1>3. OnlyOK => NoPanic
  BY DEF OnlyOK
<1>4. QED BY <1>1, <1>2, <1>3, PTL DEF Spec, Everything, ClientInit
=============================================================================
