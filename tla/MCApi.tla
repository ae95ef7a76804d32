-------------------------------- MODULE MCApi --------------------------------
(***************************************************************************)
(* The API client with its models, for TLC.                                *)
(***************************************************************************)
EXTENDS ApiClient, ApiModels, FiniteSets

ASSUME ApiTablesAgree == TablesAgree

\* ContextValidate checks no "Read Only" of a field that refers to a model, though
\* declarations state it (document.go:40-41): the disagreement ReadOnly leaves out.
ReadOnlyModels ==
  {<<type, i>> \in Types \X (1..40) : i <= Len(Models[type]) /\
    LET f == Models[type][i] IN f.kind = "object" /\ "readOnly" \in f.rules}

ASSUME ReadOnlyModelsUnchecked ==
  /\ Cardinality(ReadOnlyModels) = 111
  /\ \A r \in ReadOnlyModels :
       "readOnly" \notin Entry(ContextValidators[r[1]], Models[r[1]][r[2]].name)
=============================================================================
