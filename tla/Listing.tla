------------------------------ MODULE Listing ------------------------------
(***************************************************************************)
(* ListDocuments of the Comdirect client (documents.go): the inbox is read *)
(* page by page, by offset, while it may change between two requests.      *)
(***************************************************************************)
EXTENDS Naturals, Sequences, FiniteSets

CONSTANTS
  Docs,      \* the documents there can be
  PageSize,  \* documentsPageSize
  MaxShifts  \* bound: how often documents are deleted, or put, before the offset

ASSUME ListingAssumption ==
  /\ PageSize \in Nat \ {0}
  /\ MaxShifts \in Nat

VARIABLES
  inbox,    \* the documents at the bank, in the order it lists them
  stayed,   \* history: the documents that were there all the time
  pulled,   \* history: deletions before the offset of a running listing
  pushed,   \* history: documents put before the offset of a running listing
  pc,       \* listing, done or failed
  first,    \* the offset of the next page
  docs,     \* what has been collected
  withheld  \* history: the documents there were after the last one returned when
            \* the bank's answer said that it was the last

bank == <<inbox, stayed, pulled, pushed>>
vars == <<bank, pc, first, docs, withheld>>

Members(s) == {s[i] : i \in DOMAIN s}

Injective(s) == \A i, j \in DOMAIN s : s[i] = s[j] => i = j

\* s with d after its first p elements; s without its p-th.
With(s, d, p) ==
  [i \in 1..Len(s) + 1 |-> IF i <= p THEN s[i] ELSE IF i = p + 1 THEN d ELSE s[i - 1]]
Without(s, p) == [i \in 1..Len(s) - 1 |-> IF i < p THEN s[i] ELSE s[i + 1]]

-----------------------------------------------------------------------------
\* EnsureAuthenticated has returned; the inbox is any.
Init ==
  /\ inbox \in {s \in UNION {[1..n -> Docs] : n \in 0..Cardinality(Docs)} : Injective(s)}
  /\ stayed = Members(inbox)
  /\ pulled = 0
  /\ pushed = 0
  /\ pc = "listing"
  /\ first = 0
  /\ docs = << >>
  /\ withheld = {}

\* The bank: a new document after the p-th, the p-th deleted.  Those before the
\* offset of a running listing are counted.
Counted(shifts, before) ==
  IF pc = "listing" /\ before THEN shifts < MaxShifts /\ shifts' = shifts + 1
                              ELSE shifts' = shifts

Insert(d, p) ==
  /\ d \in Docs \ (Members(inbox) \cup Members(docs))
  /\ inbox' = With(inbox, d, p)
  /\ Counted(pushed, p < first)
  /\ UNCHANGED <<stayed, pulled, pc, first, docs, withheld>>

Delete(p) ==
  /\ inbox' = Without(inbox, p)
  /\ stayed' = stayed \ {inbox[p]}
  /\ Counted(pulled, p <= first)
  /\ UNCHANGED <<pushed, pc, first, docs, withheld>>

\* What lies after the first k documents of the inbox.
Rest(k) == {inbox[i] : i \in {j \in DOMAIN inbox : j > k}}

\* The documents an answer keeps back by which the inbox ends after the first k,
\* as Matches or an empty page may say although there are more.
KeptBack(k, matches) == IF k >= matches THEN Rest(k) ELSE {}

\* A page of n documents with the bank's total; it may have fewer than were
\* asked for.
MutantFetchPage(n, matches) ==
  /\ pc = "listing"
  /\ n \in 1..PageSize /\ first + n <= Len(inbox)
  /\ docs' = docs \o [i \in 1..n |-> inbox[first + i]]
  /\ first' = first + PageSize
  /\ pc' = IF first' >= matches THEN "done" ELSE pc
  /\ withheld' = KeptBack(first + n, matches)
  /\ UNCHANGED bank
MutantOffset(n, matches) ==
  /\ pc = "listing"
  /\ n \in 1..PageSize /\ first + n <= Len(inbox)
  /\ docs' = docs \o [i \in 1..n |-> inbox[first + i]]
  /\ first' = IF first = 0 THEN n - 1 ELSE first + n
  /\ pc' = IF first' >= matches THEN "done" ELSE pc
  /\ withheld' = KeptBack(first + n, matches)
  /\ UNCHANGED bank
MutantLastPage(n, matches) ==
  /\ pc = "listing"
  /\ n \in 1..PageSize /\ first + n <= Len(inbox)
  /\ docs' = docs \o [i \in 1..n |-> inbox[first + i]]
  /\ first' = first + n
  /\ pc' = IF n < PageSize \/ first' >= matches THEN "done" ELSE pc
  /\ withheld' = KeptBack(first + n, matches)
  /\ UNCHANGED bank
FetchPage(n, matches) ==
  /\ pc = "listing"
  /\ n \in 1..PageSize /\ first + n <= Len(inbox)
  /\ docs' = docs \o [i \in 1..n |-> inbox[first + i]]
  /\ first' = first + n
  /\ pc' = IF first' >= matches THEN "done" ELSE pc
  /\ withheld' = KeptBack(first + n, matches)
  /\ UNCHANGED bank

\* An empty page ends the listing whatever total it names: there are no more
\* documents, or the bank returns none this time.
FetchEmptyPage ==
  /\ pc = "listing"
  /\ pc' = "done"
  /\ withheld' = Rest(first)
  /\ UNCHANGED <<bank, first, docs>>

\* No response, one that is not a 200, or one that cannot be decoded.
Fail ==
  /\ pc = "listing"
  /\ pc' = "failed"
  /\ docs' = << >>
  /\ UNCHANGED <<bank, withheld, first>>

\* Totals the bank may name, right or wrong.
Totals == 0..Cardinality(Docs)

Next ==
  \/ \E d \in Docs, p \in 0..Len(inbox) : Insert(d, p)
  \/ \E p \in DOMAIN inbox : Delete(p)
  \/ \E n \in 1..PageSize, matches \in Totals : FetchPage(n, matches)
  \/ FetchEmptyPage
  \/ Fail

Spec == Init /\ [][Next]_vars

-----------------------------------------------------------------------------
(* Properties. *)

\* The state is well-formed, no document is in the inbox twice, the offset is
\* the number of documents collected, and a failed listing returns none.
TypeOK ==
  /\ inbox \in Seq(Docs) /\ Injective(inbox)
  /\ stayed \in SUBSET Members(inbox)
  /\ pulled \in 0..MaxShifts /\ pushed \in 0..MaxShifts
  /\ pc \in {"listing", "done", "failed"}
  /\ first \in Nat
  /\ docs \in Seq(Docs)
  /\ withheld \in SUBSET Docs /\ (pc = "listing" => withheld = {})
  /\ IF pc = "failed" THEN docs = << >> ELSE first = Len(docs)

\* A listing that succeeds returns every document that was in the inbox all the
\* time, "until every matched document has been fetched" (documents.go:35-37),
\* but for those the bank ended its list before, and for one for each time that a
\* document before the offset was deleted.
NothingMissed ==
  pc = "done" => Cardinality(stayed \ (Members(docs) \cup withheld)) <= pulled

\* No document is returned again, but for one for each time that one was put
\* before the offset: it would be looked up, and may be uploaded, again by the
\* same run (sync.go:62-75).
NothingTwice == Len(docs) <= Cardinality(Members(docs)) + pushed

-----------------------------------------------------------------------------
(* What makes them inductive. *)

\* What the listing has gone past: the documents up to the offset, and at the
\* end all of them; and what is still ahead of it.
Gone == {inbox[i] : i \in {j \in DOMAIN inbox : j <= first \/ pc = "done"}}
Ahead == Rest(first)

\* Each deletion before the offset has let at most one document slip past.
PassedInv ==
  pc # "failed" =>
    Cardinality((Gone \cap stayed) \ (Members(docs) \cup withheld)) <= pulled

\* Each document put before the offset has moved at most one that is collected
\* already to where it will be, or has been, collected again.
AheadInv ==
  pc = "listing" =>
    Len(docs) + Cardinality(Ahead \cap Members(docs))
      <= Cardinality(Members(docs)) + pushed
=============================================================================
