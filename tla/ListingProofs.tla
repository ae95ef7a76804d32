--------------------------- MODULE ListingProofs ---------------------------
(***************************************************************************)
(* Proofs about module Listing, for any documents and any page size.       *)
(***************************************************************************)
EXTENDS Listing, FiniteSetTheorems, TLAPS

\* Putting a new document into an injective sequence keeps it injective and
\* moves every other document by one place at most, and never to the front.
LEMMA WithOne ==
  ASSUME NEW S, NEW s \in Seq(S), NEW d \in S, NEW p \in 0..Len(s),
         Injective(s), d \notin Members(s)
  PROVE  /\ With(s, d, p) \in Seq(S) /\ Len(With(s, d, p)) = Len(s) + 1
         /\ Injective(With(s, d, p))
         /\ Members(With(s, d, p)) = Members(s) \cup {d}
         /\ \A i \in 1..Len(s) + 1 : With(s, d, p)[i] # d =>
              \E j \in DOMAIN s : i <= j + 1 /\ j <= i /\ s[j] = With(s, d, p)[i]
         /\ \A q \in Nat : q <= p => \A i \in 1..Len(s) + 1 :
              i > q /\ With(s, d, p)[i] # d =>
                \E j \in DOMAIN s : j > q /\ s[j] = With(s, d, p)[i]
<1> DEFINE w == With(s, d, p)
<1>1. /\ w \in Seq(S) /\ Len(w) = Len(s) + 1 /\ DOMAIN w = 1..Len(s) + 1
      /\ DOMAIN s = 1..Len(s) /\ Len(s) \in Nat
  BY DEF With
<1>2. \A i \in 1..Len(s) + 1 :
        w[i] = IF i <= p THEN s[i] ELSE IF i = p + 1 THEN d ELSE s[i - 1]
  BY DEF With
<1>3. \A i \in 1..Len(s) + 1 :
        \/ i <= p /\ i \in 1..Len(s) /\ w[i] = s[i]
        \/ i = p + 1 /\ w[i] = d
        \/ i > p + 1 /\ i - 1 \in 1..Len(s) /\ w[i] = s[i - 1]
  BY <1>1, <1>2
<1> HIDE DEF w
<1>4. \A i \in 1..Len(s) : s[i] # d
  BY <1>1 DEF Members
<1>5. Injective(w)
  BY <1>1, <1>3, <1>4 DEF Injective
<1>6. Members(w) = Members(s) \cup {d}
  <2>1. \A i \in 1..Len(s) : \E j \in 1..Len(s) + 1 : w[j] = s[i]
    <3> SUFFICES ASSUME NEW i \in 1..Len(s) PROVE \E j \in 1..Len(s) + 1 : w[j] = s[i]
      OBVIOUS
    <3>1. CASE i <= p
      <4>1. i \in 1..Len(s) + 1 /\ w[i] = s[i]
        BY <1>1, <1>2, <3>1 DEF w
      <4>2. QED BY <4>1
    <3>2. CASE i > p
      <4>1. i + 1 \in 1..Len(s) + 1 /\ w[i + 1] = s[i]
        BY <1>1, <1>2, <3>2 DEF w
      <4>2. QED BY <4>1
    <3>3. QED BY <1>1, <3>1, <3>2
  <2>2. \E j \in 1..Len(s) + 1 : w[j] = d
    <3>1. p + 1 \in 1..Len(s) + 1 /\ w[p + 1] = d
      BY <1>1, <1>2 DEF w
    <3>2. QED BY <3>1
  <2>3. Members(s) \cup {d} \subseteq Members(w)
    BY <1>1, <2>1, <2>2 DEF Members
  <2>4. Members(w) \subseteq Members(s) \cup {d}
    <3> SUFFICES ASSUME NEW i \in 1..Len(s) + 1 PROVE w[i] \in Members(s) \cup {d}
      BY <1>1 DEF Members
    <3>1. w[i] = d \/ \E j \in 1..Len(s) : w[i] = s[j]
      BY <1>1, <1>3
    <3>2. QED BY <1>1, <3>1 DEF Members
  <2>5. QED BY <2>3, <2>4
<1>7. \A i \in 1..Len(s) + 1 : w[i] # d =>
        \E j \in DOMAIN s : i <= j + 1 /\ j <= i /\ s[j] = w[i]
  BY <1>1, <1>3
<1>8. \A q \in Nat : q <= p => \A i \in 1..Len(s) + 1 :
        i > q /\ w[i] # d => \E j \in DOMAIN s : j > q /\ s[j] = w[i]
  <2> SUFFICES ASSUME NEW q \in Nat, q <= p, NEW i \in 1..Len(s) + 1, i > q, w[i] # d
               PROVE  \E j \in DOMAIN s : j > q /\ s[j] = w[i]
    OBVIOUS
  <2>1. CASE i <= p
    BY <1>1, <1>3, <2>1
  <2>2. CASE i > p + 1
    <3>1. i - 1 \in DOMAIN s /\ i - 1 > q /\ s[i - 1] = w[i]
      BY <1>1, <1>3, <2>2
    <3>2. QED BY <3>1
  <2>3. QED BY <1>1, <1>3, <2>1, <2>2
<1>9. QED BY <1>1, <1>5, <1>6, <1>7, <1>8 DEF w

\* Taking a document out of an injective sequence keeps the others, once.
LEMMA WithoutOne ==
  ASSUME NEW S, NEW s \in Seq(S), NEW p \in DOMAIN s, Injective(s),
         NEW w, w = Without(s, p)
  PROVE  /\ w \in Seq(S)
         /\ Injective(w)
         /\ Members(s) \ {s[p]} \subseteq Members(w)
         /\ \A i \in DOMAIN w : /\ i \in DOMAIN s
                                /\ i < p => w[i] = s[i]
                                /\ \E j \in DOMAIN s : i <= j /\ j <= i + 1 /\ s[j] = w[i]
<1>1. /\ w \in Seq(S) /\ Len(w) = Len(s) - 1 /\ DOMAIN w = 1..Len(s) - 1
      /\ DOMAIN s = 1..Len(s) /\ Len(s) \in Nat
  BY DEF Without
<1>2. \A i \in 1..Len(s) - 1 : w[i] = IF i < p THEN s[i] ELSE s[i + 1]
  BY DEF Without
<1>3. \A i \in 1..Len(s) - 1 :
        \/ i < p /\ i \in 1..Len(s) /\ w[i] = s[i]
        \/ i >= p /\ i + 1 \in 1..Len(s) /\ w[i] = s[i + 1]
  BY <1>1, <1>2
<1>4. \A i \in 1..Len(s) : i # p => \E j \in 1..Len(s) - 1 : w[j] = s[i]
  <2> SUFFICES ASSUME NEW i \in 1..Len(s), i # p
               PROVE  \E j \in 1..Len(s) - 1 : w[j] = s[i]
    OBVIOUS
  <2>1. CASE i < p
    <3>1. i \in 1..Len(s) - 1 /\ w[i] = s[i]
      BY <1>1, <1>2, <2>1
    <3>2. QED BY <3>1
  <2>2. CASE i > p
    <3>1. i - 1 \in 1..Len(s) - 1 /\ w[i - 1] = s[i]
      BY <1>1, <1>2, <2>2
    <3>2. QED BY <3>1
  <2>3. QED BY <1>1, <2>1, <2>2
<1>5. Injective(w)
  <2> SUFFICES ASSUME NEW i \in 1..Len(s) - 1, NEW j \in 1..Len(s) - 1, w[i] = w[j], i < j
               PROVE  FALSE
    BY <1>1 DEF Injective
  <2>1. \A a, b \in 1..Len(s) : s[a] = s[b] => a = b
    BY <1>1 DEF Injective
  <2> DEFINE Old(k) == IF k < p THEN k ELSE k + 1
  <2>2. /\ Old(i) \in 1..Len(s) /\ w[i] = s[Old(i)]
        /\ Old(j) \in 1..Len(s) /\ w[j] = s[Old(j)]
    BY <1>1, <1>3
  <2>3. Old(i) # Old(j)
    BY <1>1
  <2>4. QED BY <2>1, <2>2, <2>3
<1>6. Members(s) \ {s[p]} \subseteq Members(w)
  BY <1>1, <1>4 DEF Members
<1>7. \A i \in DOMAIN w : /\ i \in DOMAIN s
                          /\ i < p => w[i] = s[i]
                          /\ \E j \in DOMAIN s : i <= j /\ j <= i + 1 /\ s[j] = w[i]
  <2> SUFFICES ASSUME NEW i \in 1..Len(s) - 1
               PROVE  /\ i \in DOMAIN s
                      /\ i < p => w[i] = s[i]
                      /\ \E j \in DOMAIN s : i <= j /\ j <= i + 1 /\ s[j] = w[i]
    BY <1>1
  <2>1. CASE i < p
    BY <1>1, <1>3, <2>1
  <2>2. CASE i >= p
    <3>1. i + 1 \in DOMAIN s /\ i <= i + 1 /\ s[i + 1] = w[i]
      BY <1>1, <1>3, <2>2
    <3>2. QED BY <1>1, <2>2, <3>1
  <2>3. QED BY <1>1, <2>1, <2>2
<1>8. QED BY <1>1, <1>5, <1>6, <1>7

\* What is left in the inbox when a document is deleted, and where.
LEMMA Deleted ==
  ASSUME TypeOK, NEW p \in DOMAIN inbox, Delete(p)
  PROVE  /\ inbox' \in Seq(Docs) /\ Injective(inbox')
         /\ Members(inbox) \ {inbox[p]} \subseteq Members(inbox')
         /\ \A i \in DOMAIN inbox' : /\ i \in DOMAIN inbox
                                     /\ i < p => inbox'[i] = inbox[i]
                                     /\ \E j \in DOMAIN inbox : i <= j /\ j <= i + 1 /\ inbox[j] = inbox'[i]
<1>1. inbox \in Seq(Docs) /\ Injective(inbox) /\ inbox' = Without(inbox, p)
  BY DEF TypeOK, Delete
<1>2. QED BY <1>1, WithoutOne

\* A page of documents, appended to what has been collected.
LEMMA PageAppended ==
  ASSUME TypeOK, NEW n \in 1..PageSize, NEW m \in Totals, FetchPage(n, m), ListingAssumption
  PROVE  /\ docs' \in Seq(Docs) /\ Len(docs') = Len(docs) + n
         /\ \A i \in 1..Len(docs) : docs'[i] = docs[i]
         /\ \A i \in 1..n : docs'[Len(docs) + i] = inbox[first + i]
         /\ n \in Nat /\ n > 0 /\ first' = first + n /\ first' <= Len(inbox)
         /\ Members(docs) \subseteq Members(docs')
<1>1. /\ n \in Nat /\ n > 0 /\ first \in Nat /\ first + n <= Len(inbox)
      /\ inbox \in Seq(Docs) /\ docs \in Seq(Docs) /\ first' = first + n
  BY DEF TypeOK, FetchPage, ListingAssumption
<1> DEFINE page == [i \in 1..n |-> inbox[first + i]]
<1>2. page \in Seq(Docs) /\ Len(page) = n /\ \A i \in 1..n : page[i] = inbox[first + i]
  BY <1>1
<1>3. docs' = docs \o page
  BY DEF FetchPage
<1> HIDE DEF page
<1>4. /\ docs' \in Seq(Docs) /\ Len(docs') = Len(docs) + n
      /\ \A i \in 1..Len(docs) : docs'[i] = docs[i]
      /\ \A i \in 1..n : docs'[Len(docs) + i] = page[i]
  <2>1. docs \o page \in Seq(Docs) /\ Len(docs \o page) = Len(docs) + n
    <3>1. docs \in Seq(Docs) /\ page \in Seq(Docs) /\ Len(page) = n
      BY <1>1, <1>2
    <3>2. docs \o page \in Seq(Docs)
      BY <3>1
    <3>3. Len(docs \o page) = Len(docs) + Len(page)
      BY <3>1
    <3>4. QED BY <3>1, <3>2, <3>3
  <2>2. \A i \in 1..Len(docs) : (docs \o page)[i] = docs[i]
    BY <1>1, <1>2
  <2>3. \A i \in 1..n : (docs \o page)[Len(docs) + i] = page[i]
    BY <1>1, <1>2
  <2>4. QED BY <1>3, <2>1, <2>2, <2>3
<1>5. Members(docs) \subseteq Members(docs')
  BY <1>1, <1>4 DEF Members
<1>6. QED BY <1>1, <1>2, <1>4, <1>5

\* What is left of the inbox consists of documents.
LEMMA RestType == ASSUME inbox \in Seq(Docs), NEW k PROVE Rest(k) \subseteq Docs
BY DEF Rest

LEMMA TypeStep == TypeOK /\ [Next]_vars => TypeOK'
<1> SUFFICES ASSUME TypeOK, [Next]_vars PROVE TypeOK'
  OBVIOUS
<1> USE ListingAssumption
<1>1. CASE UNCHANGED vars
  BY <1>1 DEF vars, bank, TypeOK
<1>2. ASSUME NEW d \in Docs, NEW p \in 0..Len(inbox), Insert(d, p)
      PROVE  TypeOK'
  <2>1. /\ inbox' \in Seq(Docs) /\ Injective(inbox')
        /\ Members(inbox') = Members(inbox) \cup {d}
    BY <1>2, WithOne DEF TypeOK, Insert
  <2>2. UNCHANGED <<stayed, pulled, pc, first, docs, withheld>> /\ pushed' \in 0..MaxShifts
    BY <1>2 DEF TypeOK, Insert, Counted
  <2>3. QED BY <2>1, <2>2 DEF TypeOK
<1>3. ASSUME NEW p \in DOMAIN inbox, Delete(p)
      PROVE  TypeOK'
  <2>1. /\ inbox' \in Seq(Docs) /\ Injective(inbox')
        /\ Members(inbox) \ {inbox[p]} \subseteq Members(inbox')
    BY <1>3, Deleted
  <2>2. UNCHANGED <<pushed, pc, first, docs, withheld>> /\ pulled' \in 0..MaxShifts
    BY <1>3 DEF TypeOK, Delete, Counted
  <2>3. stayed' \subseteq Members(inbox')
    BY <1>3, <2>1 DEF TypeOK, Delete
  <2>4. QED BY <2>1, <2>2, <2>3 DEF TypeOK
<1>4. ASSUME NEW n \in 1..PageSize, NEW m \in Totals, FetchPage(n, m)
      PROVE  TypeOK'
  <2>1. pc' \in {"listing", "done"} /\ pc = "listing" /\ UNCHANGED <<inbox, stayed, pulled, pushed>>
    BY <1>4 DEF FetchPage, bank
  <2>2. docs' \in Seq(Docs) /\ Len(docs') = Len(docs) + n /\ first' = first + n /\ n \in Nat
    BY <1>4, PageAppended
  <2>3. /\ inbox' \in Seq(Docs) /\ Injective(inbox') /\ stayed' \in SUBSET Members(inbox')
        /\ first \in Nat /\ first = Len(docs)
    BY <1>4, <2>1 DEF FetchPage, TypeOK
  <2>4. withheld' \in SUBSET Docs /\ (pc' = "listing" => withheld' = {})
    <3>1. Rest(first + n) \subseteq Docs
      BY RestType DEF TypeOK
    <3>2. pc' = "listing" => ~(first + n >= m)
      BY <1>4, <2>2 DEF FetchPage
    <3>3. QED BY <1>4, <3>1, <3>2 DEF FetchPage, KeptBack
  <2>5. QED BY <2>1, <2>2, <2>3, <2>4 DEF TypeOK
<1>5. CASE FetchEmptyPage
  <2>1. Rest(first) \subseteq Docs
    BY RestType DEF TypeOK
  <2>2. QED BY <1>5, <2>1 DEF FetchEmptyPage, bank, TypeOK
<1>6. CASE Fail
  <2>1. docs' \in Seq(Docs)
    BY <1>6 DEF Fail
  <2>2. QED BY <1>6, <2>1 DEF Fail, bank, TypeOK
<1>7. QED BY <1>1, <1>2, <1>3, <1>4, <1>5, <1>6 DEF Next

LEMMA TypeInit == Init => TypeOK
<1> SUFFICES ASSUME Init PROVE TypeOK
  OBVIOUS
<1>1. inbox \in Seq(Docs) /\ Injective(inbox) /\ docs \in Seq(Docs) /\ Len(docs) = 0
  BY DEF Init
<1>2. QED BY <1>1, ListingAssumption DEF Init, TypeOK

\* The offset is always the number of documents collected.
THEOREM TypeCorrect == Spec => []TypeOK
BY TypeInit, TypeStep, PTL DEF Spec

-----------------------------------------------------------------------------
\* The documents of a sequence are finitely many.
LEMMA MembersFinite ==
  ASSUME NEW S, NEW s \in Seq(S)
  PROVE  IsFiniteSet(Members(s)) /\ Cardinality(Members(s)) \in Nat
<1>1. s \in Surjection(DOMAIN s, Members(s))
  BY DEF Surjection, Members
<1>2. IsFiniteSet(DOMAIN s)
  BY FS_Interval
<1>3. QED BY <1>1, <1>2, FS_Surjection, FS_CardinalityType

\* A set that has at most one element more than a finite one, and one with none.
LEMMA AtMostOneMore ==
  ASSUME NEW S, IsFiniteSet(S), NEW T, NEW x, T \subseteq S \cup {x}, NEW k \in Nat,
         Cardinality(S) <= k
  PROVE  Cardinality(T) <= k + 1
<1>1. IsFiniteSet(S \cup {x}) /\ Cardinality(S) \in Nat
      /\ Cardinality(S \cup {x}) <= Cardinality(S) + 1
  BY FS_AddElement, FS_CardinalityType
<1>2. IsFiniteSet(T) /\ Cardinality(T) <= Cardinality(S \cup {x})
  BY <1>1, FS_Subset
<1>3. Cardinality(T) \in Nat /\ Cardinality(S \cup {x}) \in Nat
  BY <1>1, <1>2, FS_CardinalityType
<1>4. QED BY <1>1, <1>2, <1>3

LEMMA NoMore ==
  ASSUME NEW S, IsFiniteSet(S), NEW T, T \subseteq S, NEW k \in Nat, Cardinality(S) <= k
  PROVE  Cardinality(T) <= k
<1>1. IsFiniteSet(T) /\ Cardinality(T) <= Cardinality(S)
  BY FS_Subset
<1>2. Cardinality(T) \in Nat /\ Cardinality(S) \in Nat
  BY <1>1, FS_CardinalityType
<1>3. QED BY <1>1, <1>2

-----------------------------------------------------------------------------
\* What the listing has gone past without collecting it, and what it has
\* collected already and has still ahead of it.
Missed == (Gone \cap stayed) \ (Members(docs) \cup withheld)
Again == Ahead \cap Members(docs)

LEMMA Finite ==
  TypeOK => /\ IsFiniteSet(Missed) /\ Cardinality(Missed) \in Nat
            /\ IsFiniteSet(Again) /\ Cardinality(Again) \in Nat
<1> SUFFICES ASSUME TypeOK
             PROVE  /\ IsFiniteSet(Missed) /\ Cardinality(Missed) \in Nat
                    /\ IsFiniteSet(Again) /\ Cardinality(Again) \in Nat
  OBVIOUS
<1>1. IsFiniteSet(Members(inbox))
  BY MembersFinite DEF TypeOK
<1>2. Missed \subseteq Members(inbox) /\ Again \subseteq Members(inbox)
  BY DEF Missed, Again, Gone, Ahead, Rest, Members
<1>3. QED BY <1>1, <1>2, FS_Subset, FS_CardinalityType

LEMMA PassedStep == TypeOK /\ TypeOK' /\ PassedInv /\ [Next]_vars => PassedInv'
<1> SUFFICES ASSUME TypeOK, TypeOK', PassedInv, [Next]_vars, pc' # "failed"
             PROVE  Cardinality(Missed') <= pulled'
  BY DEF PassedInv, Missed
<1>1. /\ pulled \in Nat /\ inbox \in Seq(Docs) /\ first \in Nat
      /\ stayed \subseteq Members(inbox) /\ pc \in {"listing", "done", "failed"}
      /\ DOMAIN inbox = 1..Len(inbox) /\ Len(inbox) \in Nat
  BY ListingAssumption DEF TypeOK
<1>2. pc # "failed" => Cardinality(Missed) <= pulled
  BY DEF PassedInv, Missed
<1>3. ASSUME pc # "failed", Missed' \subseteq Missed, pulled' = pulled
      PROVE  Cardinality(Missed') <= pulled'
  BY <1>1, <1>2, <1>3, Finite, NoMore
<1>4. CASE UNCHANGED vars
  BY <1>3, <1>4 DEF vars, bank, Missed, Gone, Members
<1>5. ASSUME NEW d \in Docs, NEW p \in 0..Len(inbox), Insert(d, p)
      PROVE  Cardinality(Missed') <= pulled'
  <2>1. /\ Len(inbox') = Len(inbox) + 1 /\ inbox' \in Seq(Docs)
        /\ \A k \in 1..Len(inbox) + 1 : inbox'[k] # d =>
             \E j \in DOMAIN inbox : k <= j + 1 /\ j <= k /\ inbox[j] = inbox'[k]
    BY <1>5, WithOne DEF TypeOK, Insert
  <2>2. UNCHANGED <<stayed, pulled, pc, first, docs, withheld>> /\ d \notin stayed
    BY <1>1, <1>5 DEF Insert
  <2>3. ASSUME NEW k \in DOMAIN inbox', k <= first \/ pc = "done", inbox'[k] \in stayed
        PROVE  inbox'[k] \in Gone
    <3>1. k \in 1..Len(inbox) + 1 /\ inbox'[k] # d
      BY <2>1, <2>2, <2>3
    <3>2. PICK j \in DOMAIN inbox : j <= k /\ inbox[j] = inbox'[k]
      BY <2>1, <3>1
    <3>3. j <= first \/ pc = "done"
      BY <1>1, <2>3, <3>1, <3>2
    <3>4. QED BY <3>2, <3>3 DEF Gone
  <2>4. Missed' \subseteq Missed
    BY <2>2, <2>3 DEF Missed, Gone, Members
  <2>5. QED BY <1>3, <2>2, <2>4
<1>6. ASSUME NEW p \in DOMAIN inbox, Delete(p)
      PROVE  Cardinality(Missed') <= pulled'
  <2>1. \A k \in DOMAIN inbox' :
          /\ k \in DOMAIN inbox
          /\ k < p => inbox'[k] = inbox[k]
          /\ \E j \in DOMAIN inbox : k <= j /\ j <= k + 1 /\ inbox[j] = inbox'[k]
    BY <1>6, Deleted
  <2>2. UNCHANGED <<pc, first, docs, withheld>> /\ stayed' \subseteq stayed /\ pc # "failed"
    BY <1>6 DEF Delete
  <2>3. CASE pc = "listing" /\ p <= first
    <3>1. pulled' = pulled + 1
      BY <1>6, <2>3 DEF Delete, Counted
    <3>2. ASSUME NEW k \in DOMAIN inbox', k <= first
          PROVE  inbox'[k] \in Gone \cup {inbox[first + 1]}
      <4>1. PICK j \in DOMAIN inbox : j <= k + 1 /\ inbox[j] = inbox'[k]
        BY <2>1, <3>2
      <4>2. j <= first \/ j = first + 1
        BY <1>1, <2>1, <3>2, <4>1
      <4>3. QED BY <4>1, <4>2 DEF Gone
    <3>3. Missed' \subseteq Missed \cup {inbox[first + 1]}
      BY <2>2, <2>3, <3>2 DEF Missed, Gone, Members
    <3>4. QED BY <1>1, <1>2, <2>2, <3>1, <3>3, Finite, AtMostOneMore
  <2>4. CASE ~(pc = "listing" /\ p <= first)
    <3>1. pulled' = pulled
      BY <1>6, <2>4 DEF Delete, Counted
    <3>2. ASSUME NEW k \in DOMAIN inbox', k <= first \/ pc = "done"
          PROVE  inbox'[k] \in Gone
      <4>1. CASE pc = "done"
        BY <2>1, <4>1 DEF Gone
      <4>2. CASE pc # "done"
        <5>1. k \in DOMAIN inbox /\ inbox'[k] = inbox[k] /\ k <= first
          BY <1>1, <2>1, <2>2, <2>4, <3>2, <4>2
        <5>2. QED BY <5>1 DEF Gone
      <4>3. QED BY <4>1, <4>2
    <3>3. Missed' \subseteq Missed
      BY <2>2, <3>2 DEF Missed, Gone, Members
    <3>4. QED BY <1>3, <2>2, <3>1, <3>3
  <2>5. QED BY <2>3, <2>4
<1>7. ASSUME NEW n \in 1..PageSize, NEW m \in Totals, FetchPage(n, m)
      PROVE  Cardinality(Missed') <= pulled'
  <2>1. UNCHANGED <<inbox, stayed, pulled, pushed>> /\ pc = "listing" /\ withheld = {}
        /\ (pc' = "done" => withheld' = Rest(first'))
    BY <1>7 DEF FetchPage, bank, KeptBack, TypeOK
  <2>2. docs \in Seq(Docs) /\ docs' \in Seq(Docs) /\ n \in Nat
    BY <1>7, ListingAssumption, PageAppended DEF TypeOK
  <2>3. ASSUME NEW k \in DOMAIN inbox, k <= first', k > first
        PROVE  inbox[k] \in Members(docs')
    <3>1. k - first \in 1..n /\ first + (k - first) = k
      BY <1>1, <1>7, <2>1, <2>3, ListingAssumption, PageAppended
    <3>2. inbox[k] = docs'[Len(docs) + (k - first)]
      BY <1>7, <3>1, ListingAssumption, PageAppended
    <3>3. Len(docs) + (k - first) \in 1..Len(docs')
      BY <1>7, <2>2, <3>1, ListingAssumption, PageAppended
    <3>4. QED BY <2>2, <3>2, <3>3 DEF Members
  <2>4. Members(docs) \subseteq Members(docs')
    BY <1>7, ListingAssumption, PageAppended
  <2>5. ASSUME NEW k \in DOMAIN inbox, k <= first' \/ pc' = "done"
        PROVE  inbox[k] \in Gone \/ inbox[k] \in Members(docs') \cup withheld'
    <3>1. CASE k > first'
      BY <1>1, <1>7, <2>1, <2>5, <3>1, ListingAssumption, PageAppended DEF Rest
    <3>2. CASE k > first /\ k <= first'
      BY <2>3, <2>5, <3>2
    <3>3. CASE k <= first
      BY <3>3 DEF Gone
    <3>4. first' \in Nat
      BY <1>1, <1>7, ListingAssumption, PageAppended
    <3>5. QED BY <1>1, <3>1, <3>2, <3>3, <3>4
  <2>6. Missed' \subseteq Missed
    BY <2>1, <2>4, <2>5 DEF Missed, Gone
  <2>7. QED BY <1>3, <2>1, <2>6
<1>8. CASE FetchEmptyPage
  <2>1. /\ UNCHANGED <<inbox, stayed, pulled, first, docs>>
        /\ pc = "listing" /\ withheld = {} /\ withheld' = Rest(first)
    BY <1>8 DEF FetchEmptyPage, bank, TypeOK
  <2>2. Missed' \subseteq Missed
    BY <1>1, <2>1 DEF Missed, Gone, Rest, Members
  <2>3. QED BY <1>3, <2>1, <2>2
<1>9. CASE Fail
  BY <1>9 DEF Fail
<1>10. QED BY <1>4, <1>5, <1>6, <1>7, <1>8, <1>9 DEF Next

\* Wherever documents turn up or vanish, a listing that succeeds has every one
\* that was there all the time, but for those before which the bank ended its
\* list, and for one for each deletion before the offset.
THEOREM NoneMissed == Spec => []NothingMissed
<1>1. Init => PassedInv
  <2> SUFFICES ASSUME Init PROVE PassedInv
    OBVIOUS
  <2>1. inbox \in Seq(Docs) /\ first = 0 /\ pc = "listing" /\ pulled = 0
    BY TypeInit DEF TypeOK, Init
  <2>2. (Gone \cap stayed) \ (Members(docs) \cup withheld) = {}
    <3>1. \A j \in DOMAIN inbox : ~(j <= first)
      BY <2>1
    <3>2. Gone = {}
      BY <2>1, <3>1 DEF Gone
    <3>3. QED BY <3>2
  <2>3. Cardinality((Gone \cap stayed) \ (Members(docs) \cup withheld)) = 0
    BY <2>2, FS_EmptySet
  <2>4. QED BY <2>1, <2>3 DEF PassedInv
<1>2. TypeOK /\ PassedInv => NothingMissed
  <2> SUFFICES ASSUME TypeOK, PassedInv, pc = "done"
               PROVE  Cardinality(stayed \ (Members(docs) \cup withheld)) <= pulled
    BY DEF NothingMissed
  <2>1. Gone = Members(inbox) /\ stayed \subseteq Members(inbox)
    BY DEF Gone, Members, TypeOK
  <2>2. (Gone \cap stayed) \ (Members(docs) \cup withheld)
          = stayed \ (Members(docs) \cup withheld)
    BY <2>1
  <2>3. QED BY <2>2 DEF PassedInv
<1>3. QED BY <1>1, <1>2, PassedStep, TypeCorrect, PTL DEF Spec

-----------------------------------------------------------------------------
\* A page adds to what is collected all it has that was not; what it has that
\* was, is no longer ahead.
LEMMA PageCounted ==
  ASSUME TypeOK, NEW n \in 1..PageSize, NEW m \in Totals, FetchPage(n, m)
  PROVE  n + Cardinality(Again') + Cardinality(Members(docs))
           <= Cardinality(Members(docs')) + Cardinality(Again)
<1> DEFINE M == Members(docs)
           P == {inbox[first + i] : i \in 1..n}
           A == Ahead' \cap M
<1>1. UNCHANGED inbox
  BY DEF FetchPage, bank
<1>2. /\ docs \in Seq(Docs) /\ docs' \in Seq(Docs) /\ inbox \in Seq(Docs)
      /\ Len(docs') = Len(docs) + n /\ first \in Nat /\ n \in Nat
      /\ first + n <= Len(inbox) /\ first' = first + n /\ Injective(inbox)
      /\ \A i \in 1..Len(docs) : docs'[i] = docs[i]
      /\ \A i \in 1..n : docs'[Len(docs) + i] = inbox[first + i]
  BY ListingAssumption, PageAppended DEF TypeOK
<1>3. Members(docs') = M \cup P
  <2>1. \A i \in 1..Len(docs) + n :
          i \in 1..Len(docs) \/ (i - Len(docs) \in 1..n /\ Len(docs) + (i - Len(docs)) = i)
    BY <1>2
  <2>2. \A i \in 1..Len(docs) + n : docs'[i] \in M \cup P
    <3> SUFFICES ASSUME NEW i \in 1..Len(docs) + n PROVE docs'[i] \in M \cup P
      OBVIOUS
    <3>1. CASE i \in 1..Len(docs)
      BY <1>2, <3>1 DEF Members
    <3>2. CASE i - Len(docs) \in 1..n /\ Len(docs) + (i - Len(docs)) = i
      <4>1. docs'[i] = inbox[first + (i - Len(docs))]
        BY <1>2, <3>2
      <4>2. QED BY <3>2, <4>1
    <3>3. QED BY <2>1, <3>1, <3>2
  <2>3. M \subseteq Members(docs')
    BY ListingAssumption, PageAppended
  <2>4. P \subseteq Members(docs')
    <3> SUFFICES ASSUME NEW i \in 1..n PROVE inbox[first + i] \in Members(docs')
      OBVIOUS
    <3>1. Len(docs) + i \in DOMAIN docs' /\ docs'[Len(docs) + i] = inbox[first + i]
      BY <1>2
    <3>2. QED BY <3>1 DEF Members
  <2>5. Members(docs') \subseteq M \cup P
    <3>1. DOMAIN docs' = 1..Len(docs) + n
      BY <1>2
    <3>2. QED BY <2>2, <3>1 DEF Members
  <2>6. QED BY <2>3, <2>4, <2>5
<1>4. Ahead = P \cup Ahead' /\ P \cap Ahead' = {}
  <2>1. P \subseteq Ahead
    <3> SUFFICES ASSUME NEW i \in 1..n PROVE inbox[first + i] \in Ahead
      OBVIOUS
    <3>1. first + i \in DOMAIN inbox /\ first + i > first
      BY <1>2
    <3>2. QED BY <3>1 DEF Ahead, Rest
  <2>2. Ahead' \subseteq Ahead
    BY <1>1, <1>2 DEF Ahead, Rest
  <2>3. ASSUME NEW k \in DOMAIN inbox, k > first
        PROVE  inbox[k] \in P \cup Ahead'
    <3>1. CASE k > first + n
      BY <1>1, <1>2, <3>1 DEF Ahead, Rest
    <3>2. CASE k <= first + n
      <4>1. k - first \in 1..n /\ first + (k - first) = k
        BY <1>2, <2>3, <3>2
      <4>2. QED BY <4>1
    <3>3. QED BY <1>2, <3>1, <3>2
  <2>4. ASSUME NEW i \in 1..n, NEW k \in DOMAIN inbox, k > first + n
        PROVE  inbox[first + i] # inbox[k]
    <3>1. first + i \in DOMAIN inbox /\ first + i # k
      BY <1>2, <2>4
    <3>2. QED BY <1>2, <2>4, <3>1 DEF Injective
  <2>5. P \cap Ahead' = {}
    <3>1. Ahead' = {inbox[k] : k \in {j \in DOMAIN inbox : j > first + n}}
      BY <1>1, <1>2 DEF Ahead, Rest
    <3>2. QED BY <2>4, <3>1
  <2>6. Ahead \subseteq P \cup Ahead'
    BY <2>3 DEF Ahead, Rest
  <2>7. QED BY <2>1, <2>2, <2>5, <2>6
<1>5. IsFiniteSet(P) /\ Cardinality(P) = n
  <2> DEFINE f == [i \in 1..n |-> inbox[first + i]]
  <2>1. f \in Surjection(1..n, P)
    BY DEF Surjection
  <2>2. ASSUME NEW i \in 1..n, NEW j \in 1..n, f[i] = f[j] PROVE i = j
    <3>1. first + i \in DOMAIN inbox /\ first + j \in DOMAIN inbox
      BY <1>2
    <3>2. first + i = first + j
      BY <1>2, <2>2, <3>1 DEF Injective
    <3>3. QED BY <1>2, <3>2
  <2>3. f \in Injection(1..n, P)
    BY <2>1, <2>2 DEF Injection, Surjection, IsInjective
  <2>4. IsFiniteSet(1..n) /\ Cardinality(1..n) = n
    BY <1>2, FS_Interval
  <2> HIDE DEF f, P
  <2>5. IsFiniteSet(P) /\ Cardinality(P) = Cardinality(1..n)
    BY <2>1, <2>3, <2>4, FS_Surjection
  <2>6. QED BY <2>4, <2>5
<1>6. IsFiniteSet(M) /\ IsFiniteSet(A) /\ IsFiniteSet(M \cap P)
      /\ IsFiniteSet(Members(docs'))
  BY <1>2, <1>5, MembersFinite, FS_Intersection
<1> HIDE DEF P
<1>7. Again' = A
  BY <1>3, <1>4 DEF Again
<1>8. Again = (M \cap P) \cup A /\ (M \cap P) \cap A = {}
  BY <1>4 DEF Again
<1> HIDE DEF M, A
<1>9. Cardinality(M \cup P) = Cardinality(M) + Cardinality(P) - Cardinality(M \cap P)
  BY <1>5, <1>6, FS_Union
<1>10. Cardinality(Again) = Cardinality(M \cap P) + Cardinality(A)
  <2>1. Cardinality((M \cap P) \cup A)
          = Cardinality(M \cap P) + Cardinality(A) - Cardinality((M \cap P) \cap A)
    BY <1>6, FS_Union
  <2>2. Cardinality((M \cap P) \cap A) = 0
    BY <1>8, FS_EmptySet
  <2>3. Cardinality(M \cap P) \in Nat /\ Cardinality(A) \in Nat
    BY <1>6, FS_CardinalityType
  <2>4. QED BY <1>8, <2>1, <2>2, <2>3
<1>11. /\ Cardinality(M) \in Nat /\ Cardinality(A) \in Nat
       /\ Cardinality(M \cap P) \in Nat
  BY <1>6, FS_CardinalityType
<1>12. n + Cardinality(A) + Cardinality(M) <= Cardinality(M \cup P) + Cardinality(Again)
  BY <1>2, <1>5, <1>9, <1>10, <1>11
<1>13. QED BY <1>3, <1>7, <1>12 DEF M

LEMMA AheadStep ==
  TypeOK /\ TypeOK' /\ AheadInv /\ NothingTwice /\ [Next]_vars => AheadInv' /\ NothingTwice'
<1> SUFFICES ASSUME TypeOK, TypeOK', AheadInv, NothingTwice, [Next]_vars
             PROVE  AheadInv' /\ NothingTwice'
  OBVIOUS
<1>1. /\ pushed \in Nat /\ inbox \in Seq(Docs) /\ docs \in Seq(Docs) /\ first \in Nat
      /\ Len(docs) \in Nat /\ Cardinality(Members(docs)) \in Nat
      /\ DOMAIN inbox = 1..Len(inbox) /\ Len(inbox) \in Nat
  BY ListingAssumption, MembersFinite DEF TypeOK
<1>2. pc = "listing" =>
        Len(docs) + Cardinality(Again) <= Cardinality(Members(docs)) + pushed
  BY DEF AheadInv, Again
<1>3. Cardinality(Again) \in Nat /\ Cardinality(Again') \in Nat
  <2>1. IsFiniteSet(Members(inbox'))
    BY MembersFinite DEF TypeOK
  <2>2. Again' \subseteq Members(inbox')
    BY DEF Again, Ahead, Rest, Members
  <2>3. QED BY <2>1, <2>2, Finite, FS_Subset, FS_CardinalityType
<1>4. ASSUME UNCHANGED <<docs, pushed>>, pc' = "listing" => pc = "listing",
             pc' = "listing" => Again' \subseteq Again
      PROVE  AheadInv' /\ NothingTwice'
  <2>1. NothingTwice'
    BY <1>4 DEF NothingTwice, Members
  <2>2. ASSUME pc' = "listing" PROVE Cardinality(Again') <= Cardinality(Again)
    BY <1>3, <1>4, <2>2, Finite, NoMore
  <2>3. AheadInv'
    BY <1>1, <1>2, <1>3, <1>4, <2>2 DEF AheadInv, Again, Members
  <2>4. QED BY <2>1, <2>3
<1>5. CASE UNCHANGED vars
  BY <1>4, <1>5 DEF vars, bank, Again, Ahead, Rest, Members
<1>6. ASSUME NEW d \in Docs, NEW p \in 0..Len(inbox), Insert(d, p)
      PROVE  AheadInv' /\ NothingTwice'
  <2>1. UNCHANGED <<pc, first, docs>> /\ d \notin Members(docs) /\ Members(docs') = Members(docs)
    BY <1>6 DEF Insert, Members
  <2>2. /\ Len(inbox') = Len(inbox) + 1 /\ inbox' \in Seq(Docs)
        /\ DOMAIN inbox' = 1..Len(inbox) + 1
        /\ \A k \in 1..Len(inbox) + 1 : inbox'[k] # d =>
             \E j \in DOMAIN inbox : k <= j + 1 /\ j <= k /\ inbox[j] = inbox'[k]
        /\ \A q \in Nat : q <= p => \A k \in 1..Len(inbox) + 1 :
              k > q /\ inbox'[k] # d => \E j \in DOMAIN inbox : j > q /\ inbox[j] = inbox'[k]
    BY <1>6, WithOne DEF TypeOK, Insert
  <2>3. CASE pc = "listing" /\ p < first
    <3>1. pushed' = pushed + 1
      BY <1>6, <2>3 DEF Insert, Counted
    <3>2. ASSUME NEW k \in DOMAIN inbox', k > first, inbox'[k] # d
          PROVE  inbox'[k] \in Ahead \cup {inbox[first]}
      <4>1. PICK j \in DOMAIN inbox : k <= j + 1 /\ inbox[j] = inbox'[k]
        BY <2>2, <3>2
      <4>2. j > first \/ j = first
        BY <1>1, <2>2, <3>2, <4>1
      <4>3. QED BY <4>1, <4>2 DEF Ahead, Rest
    <3>3. Again' \subseteq Again \cup {inbox[first]}
      BY <2>1, <3>2 DEF Again, Ahead, Rest
    <3>4. Cardinality(Again') <= Cardinality(Again) + 1
      <4>1. IsFiniteSet(Again) /\ Cardinality(Again) \in Nat
            /\ Cardinality(Again) <= Cardinality(Again)
        BY <1>3, Finite
      <4>2. QED BY <3>3, <4>1, AtMostOneMore
    <3>5. QED BY <1>1, <1>2, <1>3, <2>1, <2>3, <3>1, <3>4 DEF AheadInv, Again, NothingTwice
  <2>4. CASE ~(pc = "listing" /\ p < first)
    <3>1. pushed' = pushed
      BY <1>6, <2>4 DEF Insert, Counted
    <3>2. ASSUME pc = "listing", NEW k \in DOMAIN inbox', k > first, inbox'[k] # d
          PROVE  inbox'[k] \in Ahead
      <4>1. first <= p /\ k \in 1..Len(inbox) + 1
        BY <1>1, <2>2, <2>4, <3>2
      <4>2. PICK j \in DOMAIN inbox : j > first /\ inbox[j] = inbox'[k]
        BY <1>1, <2>2, <3>2, <4>1
      <4>3. QED BY <4>2 DEF Ahead, Rest
    <3>3. pc = "listing" => Again' \subseteq Again
      BY <2>1, <3>2 DEF Again, Ahead, Rest
    <3>4. QED BY <1>4, <2>1, <3>1, <3>3
  <2>5. QED BY <2>3, <2>4
<1>7. ASSUME NEW p \in DOMAIN inbox, Delete(p)
      PROVE  AheadInv' /\ NothingTwice'
  <2>1. UNCHANGED <<pushed, pc, first, docs>>
    BY <1>7 DEF Delete
  <2>2. ASSUME NEW k \in DOMAIN inbox', k > first PROVE inbox'[k] \in Ahead
    <3>1. PICK j \in DOMAIN inbox : k <= j /\ inbox[j] = inbox'[k]
      BY <1>7, Deleted
    <3>2. k \in DOMAIN inbox
      BY <1>7, Deleted
    <3>3. j > first
      BY <1>1, <2>2, <3>1, <3>2
    <3>4. QED BY <3>1, <3>3 DEF Ahead, Rest
  <2>3. Again' \subseteq Again
    BY <2>1, <2>2 DEF Again, Ahead, Rest, Members
  <2>4. QED BY <1>4, <2>1, <2>3
<1>8. ASSUME NEW n \in 1..PageSize, NEW m \in Totals, FetchPage(n, m)
      PROVE  AheadInv' /\ NothingTwice'
  <2>1. UNCHANGED <<inbox, stayed, pulled, pushed>> /\ pc = "listing"
    BY <1>8 DEF FetchPage, bank
  <2>2. docs' \in Seq(Docs) /\ Len(docs') = Len(docs) + n /\ n \in Nat
    BY <1>8, ListingAssumption, PageAppended
  <2>3. n + Cardinality(Again') + Cardinality(Members(docs))
          <= Cardinality(Members(docs')) + Cardinality(Again)
    BY <1>8, PageCounted
  <2>4. Cardinality(Members(docs')) \in Nat
    BY <2>2, MembersFinite
  <2>5. Len(docs') + Cardinality(Again') <= Cardinality(Members(docs')) + pushed'
    BY <1>1, <1>2, <1>3, <2>1, <2>2, <2>3, <2>4
  <2>6. QED BY <1>1, <1>3, <2>1, <2>2, <2>4, <2>5 DEF AheadInv, Again, NothingTwice
<1>9. CASE FetchEmptyPage
  BY <1>4, <1>9 DEF FetchEmptyPage, bank
<1>10. CASE Fail
  <2>1. docs' = << >> /\ pc' = "failed" /\ UNCHANGED pushed
    BY <1>10 DEF Fail, bank
  <2>2. Len(docs') = 0 /\ Cardinality(Members(docs')) = 0
    BY <2>1, FS_EmptySet DEF Members
  <2>3. QED BY <1>1, <2>1, <2>2 DEF AheadInv, NothingTwice
<1>11. QED BY <1>5, <1>6, <1>7, <1>8, <1>9, <1>10 DEF Next

\* No document is returned again, whatever is deleted and wherever new ones turn
\* up, but for one for each that was put before the offset.
THEOREM NoneTwice == Spec => []NothingTwice
<1>1. Init => AheadInv /\ NothingTwice
  <2> SUFFICES ASSUME Init PROVE AheadInv /\ NothingTwice
    OBVIOUS
  <2>1. docs = << >> /\ pushed = 0
    BY DEF Init
  <2>2. Members(docs) = {} /\ Ahead \cap Members(docs) = {}
    BY <2>1 DEF Members
  <2>3. Len(docs) = 0 /\ Cardinality(Members(docs)) = 0
        /\ Cardinality(Ahead \cap Members(docs)) = 0
    BY <2>1, <2>2, FS_EmptySet
  <2>4. QED BY <2>1, <2>3 DEF AheadInv, NothingTwice
<1>2. QED BY <1>1, AheadStep, TypeCorrect, PTL DEF Spec
=============================================================================
