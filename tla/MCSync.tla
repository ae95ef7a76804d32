------------------------------- MODULE MCSync -------------------------------
(* Instances of Sync for TLC. *)
EXTENDS SyncInvariant, TLC

CONSTANTS d1, d2, d3, base2, serve, cli

PDF == "application/pdf"
Html == "text/html"
MCMimeTypes == {PDF, Html}

\* A document and two of a later day.
SameDay == d1 :> 1 @@ d2 :> 2 @@ d3 :> 2
TwoDays == d1 :> 1 @@ d2 :> 2
\* d1 has no date, or one time.Parse does not read.
OneUndated == d1 :> 0 @@ d2 :> 1

OwnNames == [d \in Docs |-> d]
OwnBase == [n \in FileNames |-> n]
\* The bank's name for d2 has a slash in it.
OneSlash == [n \in FileNames |-> IF n = d2 THEN base2 ELSE n]

AllPDF == [d \in Docs |-> PDF]
LastIsHtml == [d \in Docs |-> IF d = d3 THEN Html ELSE PDF]
SecondIsHtml == [d \in Docs |-> IF d = d2 THEN Html ELSE PDF]
FirstIsHtml == [d \in Docs |-> IF d = d1 THEN Html ELSE PDF]
DefaultTypes == [r \in Runners |-> {}]
BothTypes == [r \in Runners |-> {PDF, Html}]
SetByFlag == serve :> {} @@ cli :> {PDF, Html}
=============================================================================
