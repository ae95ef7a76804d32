------------------------------ MODULE ApiClient ------------------------------
(***************************************************************************)
(* The generated comdirect API client (internal/bank/comdirect/client):    *)
(* calls of its operations, one at a time, from the request to what the    *)
(* caller gets, and the validation of that.  The client itself validates   *)
(* neither what it sends nor what it receives: a caller may, of a payload  *)
(* or of any other model it has.                                           *)
(*                                                                         *)
(* The runtime that carries a request is a library's, as is the decoding   *)
(* of a body: a reader only learns whether it can be decoded.              *)
(***************************************************************************)
EXTENDS ApiValidate

VARIABLES
  phase,  \* of the call: "none", "sent", "read", "done"
  op,     \* the operation called
  code,   \* the status code of the answer, 0 if there is none
  read,   \* what SubmitContext returned
  result  \* what the operation returned to its caller

callVars == <<phase, op, code, read, result>>

Operations ==
  {"GetDocument", "GetDocuments", "GetPredocument",
   "GetSession", "PatchSession", "PostSessionValidation"}

\* The status codes the reader of an operation has a result type for, and the
\* model the body of such an answer is decoded into: "none" if it is left alone.
Results(o) ==
  CASE o \in {"GetDocument", "GetPredocument"} ->
         [c \in {404, 422, 500, 503} |-> IF c = 422 THEN "StandardErrorResponse" ELSE "none"]
    [] o = "GetDocuments" ->
         [c \in {200, 404, 422, 500} |->
            CASE c = 200 -> "ListResourceDocument"
              [] c = 422 -> "StandardErrorResponse"
              [] c \in {404, 500} -> "none"]
    [] o = "GetSession" ->
         [c \in {200, 500} |-> IF c = 200 THEN "Session" ELSE "none"]
    [] o \in {"PatchSession", "PostSessionValidation"} ->
         [c \in {200, 422, 500} |-> IF c = 200 THEN "Session" ELSE "none"]

Codes == {200, 201, 404, 422, 500, 503}

\* A value and an error, as Go returns them: the value is the result type, by
\* its status code, or 0 for nil; and so is an error that is such a type.
Returned(value, error) == [value |-> value, error |-> error]
Nothing == Returned(0, "none")

\* The operations whose method has a value to return.
HasValue(o) == 200 \in DOMAIN Results(o)

-----------------------------------------------------------------------------
ClientInit ==
  /\ Init
  /\ phase = "none"
  /\ op = "GetDocuments"
  /\ code = 0
  /\ read = Nothing
  /\ result = Nothing

Submit(o) ==
  /\ phase = "none"
  /\ phase' = "sent"
  /\ op' = o
  /\ UNCHANGED <<code, read, result>>

\* No answer: a timeout, a connection that breaks, an unknown media type.
TransportFails ==
  /\ phase = "sent"
  /\ phase' = "read"
  /\ read' = Returned(0, "transport")
  /\ UNCHANGED <<op, code, result>>

\* The reader has no case for the status.
ReadUnlisted(c) ==
  /\ phase = "sent"
  /\ c \notin DOMAIN Results(op)
  /\ phase' = "read"
  /\ code' = c
  /\ read' = Returned(0, "APIError")
  /\ UNCHANGED <<op, result>>

\* It has, but the body cannot be decoded.
ReadGarbled(c) ==
  /\ phase = "sent"
  /\ c \in DOMAIN Results(op)
  /\ Results(op)[c] # "none"
  /\ phase' = "read"
  /\ code' = c
  /\ read' = Returned(0, "decoding")
  /\ UNCHANGED <<op, result>>

\* It has, and the body is decoded, where it is looked at.  An empty body
\* counts as decoded: its payload is the zero value of the model.  All but the
\* result of a 200 are errors.
MutantReadListed(c) ==
  /\ phase = "sent"
  /\ c \in DOMAIN Results(op)
  /\ phase' = "read"
  /\ code' = c
  /\ read' = IF c # 500 THEN Returned(c, "none") ELSE Returned(0, "result")
  /\ UNCHANGED <<op, result>>
ReadListed(c) ==
  /\ phase = "sent"
  /\ c \in DOMAIN Results(op)
  /\ phase' = "read"
  /\ code' = c
  /\ read' = IF c = 200 THEN Returned(c, "none") ELSE Returned(0, "result")
  /\ UNCHANGED <<op, result>>

\* The operation returns; it panics on a value of another type than its own,
\* unless it has none to return.
Deliver ==
  /\ phase = "read"
  /\ phase' = "done"
  /\ result' =
       CASE read.error # "none" -> Returned(0, read.error)
         [] read.error = "none" /\ ~HasValue(op) -> Nothing
         [] read.error = "none" /\ HasValue(op) ->
              IF read.value = 200 THEN read ELSE Returned(0, "panic")
  /\ UNCHANGED <<op, code, read>>

\* The caller is done with the call.
Drop ==
  /\ phase = "done"
  /\ phase' = "none"
  /\ op' = "GetDocuments"
  /\ code' = 0
  /\ read' = Nothing
  /\ result' = Nothing

\* The payload the caller got, with the value or with the error.
Payload ==
  IF phase = "done" /\ (result.error = "result" \/ result.value = 200)
  THEN Results(op)[code] ELSE "none"

-----------------------------------------------------------------------------
CallStep ==
  /\ status = "idle"
  /\ \/ \E o \in Operations : Submit(o)
     \/ TransportFails
     \/ \E c \in Codes : ReadUnlisted(c) \/ ReadGarbled(c) \/ ReadListed(c)
     \/ Deliver
     \/ Drop
  /\ UNCHANGED vars

\* What is validated: a payload, or a model the caller made or has otherwise.
ValidatePayload == Payload \in Types /\ Begin(Payload, "validate") /\ Drop

ValidateModel ==
  /\ phase = "none"
  /\ \E type \in Types, m \in Modes : Begin(type, m)
  /\ UNCHANGED callVars

Next ==
  \/ CallStep
  \/ ValidatePayload
  \/ ValidateModel
  \/ Step /\ UNCHANGED callVars

Spec == ClientInit /\ [][Next]_<<vars, callVars>>

-----------------------------------------------------------------------------
(* Properties. *)

\* An operation does not reach its panic: the reader returns as a value only
\* what the method takes for one ("this is a codegen issue",
\* messages_client.go and session_client.go).
NoPanic == result.error # "panic"
=============================================================================
