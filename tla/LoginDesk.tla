----------------------------- MODULE LoginDesk -----------------------------
(***************************************************************************)
(* What the loops of `serve` get from ensureBankAuthenticated, with no     *)
(* word of locks, tokens, files or web pages: every bank has a desk with   *)
(* room for one.  There the bank's token is looked at first; only then,    *)
(* and only if it may, does a loop log in; it asks the account holder once *)
(* and has nothing to finish before there was an answer.  It leaves to     *)
(* work with the token, unless any of this has failed.                     *)
(***************************************************************************)
CONSTANTS Loops, Banks, AutoReauth

VARIABLES
  desk,    \* who is at each bank's desk, and how far
  working  \* the loops that have left with a token and work with it

vars == <<desk, working>>

Free == [at |-> "nobody", stage |-> "free"]

Init ==
  /\ desk = [b \in Banks |-> Free]
  /\ working = {}

Take(l, b) ==
  /\ l \notin working /\ \A c \in Banks : desk[c].at # l
  /\ desk[b] = Free
  /\ desk' = [desk EXCEPT ![b] = [at |-> l, stage |-> "checking"]]
  /\ UNCHANGED working

Turns(b, from, to) ==
  /\ desk[b].stage \in from
  /\ desk' = [desk EXCEPT ![b] = [at |-> desk[b].at, stage |-> to]]
  /\ UNCHANGED working

StartLogin(b) == AutoReauth /\ Turns(b, {"checking"}, "login")
Ask(b) == Turns(b, {"login"}, "asked")
Answer(b) == Turns(b, {"asked"}, "answered")
Pass(b) == Turns(b, {"checking", "answered"}, "passed")
Fail(b) == Turns(b, {"checking", "login", "asked", "answered"}, "failed")

Leave(b) ==
  /\ desk[b] # Free
  /\ desk' = [desk EXCEPT ![b] = Free]
  /\ UNCHANGED working

\* To pass and to leave may be one step.
Work(b) ==
  /\ desk[b].stage \in {"checking", "answered", "passed"}
  /\ desk' = [desk EXCEPT ![b] = Free]
  /\ working' = working \cup {desk[b].at}

Done(l) ==
  /\ l \in working
  /\ working' = working \ {l}
  /\ UNCHANGED desk

Restart ==
  /\ desk' = [b \in Banks |-> Free]
  /\ working' = {}

AtDesk(b) ==
  \/ StartLogin(b) \/ Ask(b) \/ Answer(b) \/ Pass(b) \/ Fail(b)
  \/ Leave(b) \/ Work(b)

\* Most steps are of other things; said first, that spares TLC the rest.
Next ==
  \/ UNCHANGED vars
  \/ \E b \in Banks : AtDesk(b) \/ \E l \in Loops : Take(l, b)
  \/ \E l \in Loops : Done(l)
  \/ Restart

Spec == Init /\ [][Next]_vars
=============================================================================
