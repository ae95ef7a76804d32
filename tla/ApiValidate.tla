----------------------------- MODULE ApiValidate -----------------------------
(***************************************************************************)
(* Validate and ContextValidate of the generated comdirect models, which   *)
(* call each other down the fields of a model: one call for each pointer,  *)
(* list element and map entry.                                             *)
(*                                                                         *)
(* The value is not fixed in advance: what a field holds is chosen when a  *)
(* call comes to it.  Only this of it matters: is it set, is it a model to *)
(* descend into, and which constraint does it break.  A value that breaks  *)
(* several counts for the first a check of the field would meet.           *)
(***************************************************************************)
EXTENDS Naturals, Sequences

CONSTANTS
  Models,             \* name of a model -> its fields, in the order of the struct
  Validators,         \* name of a model -> field -> what Validate checks of it
  ContextValidators,  \* ... and ContextValidate
  Unwraps,            \* does errors.As look into the parts of a CompositeError?
  MaxDepth,           \* bound: how deep models are nested
  MaxList,            \* bound: how long a list is
  MaxDefects          \* bound: how many constraints one value breaks

Types == DOMAIN Models

FieldSet ==
  [name : STRING, kind : {"value", "object", "list"}, of : STRING,
   rules : SUBSET STRING]

ASSUME ApiValidateAssumption ==
  /\ Models \in [Types -> Seq(FieldSet)]
  /\ \A type \in Types : \A i \in 1..Len(Models[type]) :
       Models[type][i].kind # "value" => Models[type][i].of \in Types
  /\ Types = DOMAIN Validators /\ Types = DOMAIN ContextValidators
  /\ "none" \notin Types
  /\ Unwraps \in BOOLEAN
  /\ MaxDepth \in Nat \ {0}
  /\ MaxList \in Nat
  /\ MaxDefects \in Nat

\* What the code checks of field f of a model.
Entry(table, f) == IF f \in DOMAIN table THEN table[f] ELSE {}

\* What a request must not set.  "Read Only: true" at a field that refers to a
\* model (document.go:40-41) is in the tables but not in here: ContextValidate
\* never asks whether such a field is set, it only descends into it.
ReadOnly(f) == IF f.kind = "object" THEN {} ELSE f.rules \cap {"readOnly"}

\* Every constraint the models' declarations state of a field is checked, but for
\* the "Read Only" of a model, and every model a field refers to is descended
\* into; none of the Validate methods leaves a field's name out.  TLC evaluates it
\* on the tables of ApiModels.
TablesAgree ==
  \A type \in Types : \A i \in 1..Len(Models[type]) :
    LET f == Models[type][i]
        v == Entry(Validators[type], f.name)
        c == Entry(ContextValidators[type], f.name)
    IN /\ f.rules \ {"readOnly"} \subseteq v
       /\ ReadOnly(f) \subseteq c
       /\ f.kind = "object" => "nested" \in v \cap c
       /\ f.kind = "list" => "each" \in v \cap c
       /\ "unnamed" \notin v

VARIABLES
  mode,     \* Validate, or ContextValidate for a request or for a response
  status,   \* of the outermost call
  depth,    \* how many calls are under way ...
  frame,    \* ... and their local variables, the outermost first
  report,   \* the errors the outermost call returned, none for nil
  defects,  \* history: where the value breaks a constraint, as met
  first     \* history: per field of the outermost model, the first defect
            \* at or below it, by its number, 0 for none

vars == <<mode, status, depth, frame, report, defects, first>>

\* validate.ReadOnly does nothing unless the context is that of a request.
Modes == {"validate", "request", "response"}

-----------------------------------------------------------------------------
(* A call is at the field row of its model and has passed elem elements of *)
(* it; res are its errors so far.  A path leads from a model to a value by *)
(* steps: a field, and which element of it, or 0.  at is history.          *)

Call(type, at) == [type |-> type, at |-> at, row |-> 1, elem |-> 0, res |-> <<>>]

NoCall == Call("none", <<>>)

StepSet == STRING \X Nat
ErrorSet == [id : Nat \ {0}, path : Seq(StepSet)]
CallSet ==
  [type : Types \cup {"none"}, at : Seq(StepSet), row : Nat \ {0}, elem : Nat,
   res : Seq(ErrorSet)]

Top == frame[depth]
Fields(c) == Models[c.type]
FieldOf(c) == Fields(c)[c.row]
Field == FieldOf(Top)

InField == status = "running" /\ Top.row <= Len(Fields(Top))
Finished == status = "running" /\ Top.row > Len(Fields(Top))

\* What the call checks of its field, and what the field's declaration asks.
Checks(c) ==
  Entry(IF mode = "validate" THEN Validators[c.type] ELSE ContextValidators[c.type],
        FieldOf(c).name)

Checked(check) == check \in Checks(Top)

Demands(f) ==
  CASE mode = "validate" -> f.rules \ {"readOnly"}
    [] mode = "request" -> ReadOnly(f)
    [] mode = "response" -> {}

\* The call goes on: with its next field and more errors, or with the next
\* element of a list.
MutantPasses(c, errs) ==
  [type |-> c.type, at |-> c.at, row |-> c.row + 1, elem |-> 0, res |-> errs]
Passes(c, errs) ==
  [type |-> c.type, at |-> c.at, row |-> c.row + 1, elem |-> 0, res |-> c.res \o errs]
PassesElement(c) ==
  [type |-> c.type, at |-> c.at, row |-> c.row, elem |-> c.elem + 1, res |-> c.res]

-----------------------------------------------------------------------------
Init ==
  /\ mode = "validate"
  /\ status = "idle"
  /\ depth = 0
  /\ frame = [k \in 1..MaxDepth |-> NoCall]
  /\ report = <<>>
  /\ defects = <<>>
  /\ first = <<>>

\* A caller validates a model.
Begin(type, m) ==
  /\ status = "idle"
  /\ status' = "running"
  /\ mode' = m
  /\ depth' = 1
  /\ frame' = [frame EXCEPT ![1] = Call(type, <<>>)]
  /\ first' = [r \in 1..Len(Models[type]) |-> 0]
  /\ UNCHANGED <<report, defects>>

\* The field is not set or its value is as it should be, or it is a list and
\* has no more elements.
PassField ==
  /\ frame' = [frame EXCEPT ![depth] = Passes(Top, <<>>)]
  /\ UNCHANGED <<mode, status, depth, report, defects, first>>

\* The next element of a list: a map holds no nil.
InList ==
  /\ Field.kind = "list" /\ Checked("each") /\ Top.elem < MaxList
  /\ "readOnly" \notin Demands(Field)

\* A nil element is passed over.
PassNil ==
  /\ InList
  /\ "required" \notin Field.rules
  /\ frame' = [frame EXCEPT ![depth] = PassesElement(Top)]
  /\ UNCHANGED <<mode, status, depth, report, defects, first>>

\* The value breaks a constraint: a check meets it, or it goes unnoticed.  Only
\* the one on a map's entries, not to be zero, is a matter of a single element.
BreakRule(rule) ==
  LET step == <<Field.name, IF rule = "required" THEN Top.elem + 1 ELSE 0>>
      id == Len(defects) + 1
  IN /\ rule \in Demands(Field)
     /\ IF rule = "required" THEN Top.elem < MaxList ELSE Top.elem = 0
     /\ id <= MaxDefects
     /\ defects' = Append(defects, Append(Top.at, step))
     /\ first' = [first EXCEPT ![frame[1].row] = IF @ = 0 THEN id ELSE @]
     /\ frame' = [frame EXCEPT ![depth] =
          Passes(Top, IF Checked(rule) THEN <<[id |-> id, path |-> <<step>>]>> ELSE <<>>)]
     /\ UNCHANGED <<mode, status, depth, report>>

\* The field holds a model, or its next element is one.
Descend ==
  LET step == <<Field.name, IF Field.kind = "list" THEN Top.elem + 1 ELSE 0>>
  IN /\ InList \/ (Field.kind = "object" /\ Checked("nested"))
     /\ depth < MaxDepth
     /\ depth' = depth + 1
     /\ frame' = [frame EXCEPT ![depth + 1] = Call(Field.of, Append(Top.at, step))]
     /\ UNCHANGED <<mode, status, report, defects, first>>

\* errors.As finds the first of the nested call's errors and ValidateName
\* puts the field before its name; the rest are dropped.  Were a
\* CompositeError opaque to errors.As, all of them would be renamed.
MutantRename(step, errs) ==
  LET named == [j \in 1..Len(errs) |->
                  [id |-> errs[j].id, path |-> <<step>> \o errs[j].path]]
  IN IF Unwraps THEN <<named[Len(errs)]>> ELSE named
Rename(step, errs) ==
  LET named == [j \in 1..Len(errs) |->
                  [id |-> errs[j].id, path |-> <<step>> \o errs[j].path]]
  IN IF Unwraps THEN <<named[1]>> ELSE named

\* The caller p, when the call for its current field returns the errors errs:
\* an error ends the field; with nil, a list goes on with its next element.
MutantResume(p, errs) ==
  LET f == FieldOf(p)
      step == <<f.name, IF f.kind = "list" THEN p.elem ELSE 0>>
  IN CASE errs # <<>> -> Passes(p, IF "unnamed" \in Checks(p) THEN errs
                                                             ELSE Rename(step, errs))
       [] errs = <<>> /\ f.kind = "list" -> PassesElement(p)
       [] errs = <<>> /\ f.kind # "list" -> Passes(p, <<>>)
Resume(p, errs) ==
  LET f == FieldOf(p)
      step == <<f.name, IF f.kind = "list" THEN p.elem + 1 ELSE 0>>
  IN CASE errs # <<>> -> Passes(p, IF "unnamed" \in Checks(p) THEN errs
                                                             ELSE Rename(step, errs))
       [] errs = <<>> /\ f.kind = "list" -> PassesElement(p)
       [] errs = <<>> /\ f.kind # "list" -> Passes(p, <<>>)

MutantReturn ==
  /\ Finished
  /\ depth > 1
  /\ depth' = depth - 1
  /\ frame' = [frame EXCEPT ![depth - 1] = Resume(@, Top.res)]
  /\ UNCHANGED <<mode, status, report, defects, first>>
Return ==
  /\ Finished
  /\ depth > 1
  /\ depth' = depth - 1
  /\ frame' = [frame EXCEPT ![depth] = NoCall, ![depth - 1] = Resume(@, Top.res)]
  /\ UNCHANGED <<mode, status, report, defects, first>>

ReturnOutermost ==
  /\ Finished
  /\ depth = 1
  /\ status' = "returned"
  /\ report' = Top.res
  /\ depth' = 0
  /\ frame' = [frame EXCEPT ![1] = NoCall]
  /\ UNCHANGED <<mode, defects, first>>

\* The caller is done with the value.
Forget ==
  /\ status = "returned"
  /\ status' = "idle"
  /\ mode' = "validate"
  /\ report' = <<>>
  /\ defects' = <<>>
  /\ first' = <<>>
  /\ UNCHANGED <<depth, frame>>

FieldStep ==
  /\ InField
  /\ \/ PassField
     \/ PassNil
     \/ \E rule \in Demands(Field) : BreakRule(rule)
     \/ Descend

Step == FieldStep \/ Return \/ ReturnOutermost \/ Forget

-----------------------------------------------------------------------------
(* Properties. *)

\* The state is well-formed: the calls under way are nested in each other, and
\* each is within its model.
TypeOK ==
  /\ mode \in Modes
  /\ status \in {"idle", "running", "returned"}
  /\ depth \in 0..MaxDepth
  /\ frame \in [1..MaxDepth -> CallSet]
  /\ report \in Seq(ErrorSet)
  /\ defects \in Seq(Seq(StepSet))
  /\ first \in Seq(0..MaxDefects)
  /\ status = "running" <=> depth > 0
  /\ \A k \in 1..MaxDepth : frame[k].type \in Types <=> k <= depth
  /\ \A k \in 1..(depth - 1) : frame[k].row <= Len(Fields(frame[k]))
  /\ status = "running" => Len(first) = Len(Fields(frame[1]))

\* nil is returned exactly for a value that breaks no constraint of those in
\* Demands, however deep it is nested (the models' Validate and ContextValidate).
NilIffValid == status = "returned" => (report = <<>> <=> defects = <<>>)

\* Of every field of the validated model that is at fault or has a fault
\* beneath it, the first fault is reported (ve.ValidateName in every
\* validate and contextValidate method), though further ones may be dropped.
FirstReported ==
  status = "returned" =>
    \A r \in 1..Len(first) : first[r] # 0 => \E j \in 1..Len(report) : report[j].id = first[r]

\* Is a value on this path beneath an entry of a map?  The name of the field is
\* then left out of the errors of ContextValidate.
Unnamed(path) == \E i \in 1..Len(path), type \in Types :
  "unnamed" \in Entry(ContextValidators[type], path[i][1])

\* An error names the place of the fault, from the validated model down
\* (ve.ValidateName), but where the code leaves a field out
\* (contextValidateOrderTypes, venue.go:178).
Located ==
  status = "returned" =>
    \A j \in 1..Len(report) :
      LET place == defects[report[j].id]
      IN report[j].path = place \/ (mode = "request" /\ Unnamed(place))
=============================================================================
