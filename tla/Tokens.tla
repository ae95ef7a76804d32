------------------------------- MODULE Tokens -------------------------------
(***************************************************************************)
(* The OAuth tokens of one bank: comdirect.Client (auth.go, client.go) in  *)
(* the hands of the two loops of `serve`, which take a lock around         *)
(* ensureBankAuthenticated (server.go), and of the commands, which do not. *)
(* All clients share the token cache file; each holds its own copy of the  *)
(* token in memory.  The bank accepts a refresh token once: using it       *)
(* issues a new token.                                                     *)
(*                                                                         *)
(* A token (access token, refresh token and expiry together) is a number,  *)
(* in the order of issue; 0 is no token, which is also what an absent or   *)
(* unparsable cache file holds.                                            *)
(***************************************************************************)
EXTENDS Naturals

CONSTANTS
  Loops,       \* the loops of serve: they lock
  Commands,    \* the commands sync, list and auth: they do not
  Syncing,     \* the clients that go on to list and download documents
  LoggingIn,   \* the clients that run `auth`: they log in unconditionally
  AutoReauth,  \* Server.AutoReauth
  Faults,      \* what may go wrong
  MaxTokens    \* bound: how many tokens the bank issues

AllFaults == {"unanswered",  \* a token request fails and changes nothing
              "lost",        \* the bank rotates the token, its answer is lost
              "save",        \* the cache file cannot be written
              "kill",        \* a process dies
              "ageing"}      \* a token comes close to expiry during a run

ASSUME TokensAssumption ==
  /\ Loops \cap Commands = {}
  /\ "free" \notin Loops \cup Commands /\ "nobody" \notin Loops
  /\ Syncing \subseteq Loops \cup Commands
  /\ LoggingIn \subseteq Commands \ Syncing
  /\ AutoReauth \in BOOLEAN
  /\ Faults \subseteq AllFaults
  /\ MaxTokens \in Nat \ {0}

Clients == Loops \cup Commands

VARIABLES
  issued,   \* the bank has issued tokens 1..issued
  full,     \* ... those that follow from a completed TAN challenge
  usable,   \* ... those whose refresh token the bank still accepts
  rotated,  \* history: ... those it no longer accepts for they were used
  aged,     \* ... those with less than five minutes to live
  cache,    \* the token cache file
  authMu,   \* bankState.authMu: the loop that holds it, or "free"
  client,   \* each client: where it is, and Client.token
  trouble   \* history: the worst that has gone wrong so far

bank == <<issued, full, usable, rotated>>
vars == <<issued, full, usable, rotated, aged, cache, authMu, client, trouble>>

NoToken == 0
Tokens == 1..MaxTokens

-----------------------------------------------------------------------------
(* pc: idle; new (bank.New reads the cache); ensure (EnsureAuthenticated); *)
(* refresh (the request is under way); truncate, write (saveTokenCache);   *)
(* grant (Authenticate begins), session, validate, tan, activate,          *)
(* secondary (its steps 2 to 6, with the interim token in memory);         *)
(* api (between two calls that need the token).                            *)
(* call: what all this is done for, ensureBankAuthenticated ("check"),     *)
(* ListDocuments, DownloadDocument or Authenticate ("login").              *)

Interim == {"session", "validate", "tan", "activate", "secondary"}
PCs == Interim \cup
       {"idle", "new", "ensure", "refresh", "truncate", "write", "grant", "api"}
Calls == {"check", "list", "download", "login"}

Idle == [call |-> "check", pc |-> "idle", token |-> NoToken]

Moves(c, for, pc, t) ==
  client' = [client EXCEPT ![c] = [call |-> for, pc |-> pc, token |-> t]]

At(c, pc) == client[c].pc = pc
token(c) == client[c].token
call(c) == client[c].call

Goes(c, pc, t) == Moves(c, call(c), pc, t)

Unlock(c) == authMu' = IF authMu = c THEN "free" ELSE authMu

\* The client is done, and what it has in memory is gone.
GivesUp(c) ==
  /\ Moves(c, "check", "idle", NoToken)
  /\ Unlock(c)

\* EnsureAuthenticated or Authenticate returned nil: the source is used for
\* the next call of a sync or dropped, and a loop gives up the lock.
Authenticated(c, t) ==
  IF c \in Syncing
    THEN /\ Moves(c, IF call(c) \in {"list", "download"} THEN "download" ELSE "list",
                  "api", t)
         /\ Unlock(c)
    ELSE GivesUp(c)

\* EnsureAuthenticated returned an error: that is the end of the tick, or of
\* a run that is still listing, or of one document of a run; unless the
\* server may log in by itself.
Denied(c, t) ==
  \/ call(c) = "check" /\ AutoReauth /\ Moves(c, "login", "grant", t) /\ UNCHANGED authMu
  \/ call(c) = "check" /\ ~AutoReauth /\ GivesUp(c)
  \/ call(c) = "list" /\ GivesUp(c)
  \/ call(c) = "download" /\ Goes(c, "api", t) /\ UNCHANGED authMu

\* The bank issues a token.
MutantIssue(t) ==
  /\ t = issued + 1
  /\ t \in Tokens
  /\ UNCHANGED issued
Issue(t) ==
  /\ t = issued + 1
  /\ t \in Tokens
  /\ issued' = t

-----------------------------------------------------------------------------
\* `auth` has been run before, or not.
Init ==
  /\ issued \in {0, 1}
  /\ full = 1..issued
  /\ usable = full
  /\ rotated = {}
  /\ aged = {}
  /\ cache = issued
  /\ authMu = "free"
  /\ client = [c \in Clients |-> Idle]
  /\ trouble = "none"

\* What the properties of the lock suppose: none; "mild", which the lock copes
\* with; or "serious", against which it is of no use.
Troubles == {"none", "mild", "serious"}

(* Time. *)

InUse(t) == \E c \in Clients : ~At(c, "idle") /\ token(c) = t

\* Less than five minutes remain.  Unless "ageing", no token a client is
\* working with gets there.
Age(t) ==
  /\ t \in 1..issued \ aged
  /\ InUse(t) => "ageing" \in Faults
  /\ aged' = aged \cup {t}
  /\ UNCHANGED <<bank, cache, authMu, client, trouble>>

\* A refresh token nobody used in time expires.
Lapse(t) ==
  /\ t \in aged \cap usable
  /\ usable' = usable \ {t}
  /\ UNCHANGED <<issued, full, rotated, aged, cache, authMu, client, trouble>>

-----------------------------------------------------------------------------
(* Getting a client, and EnsureAuthenticated. *)

\* A tick of either loop.
MutantLock(c) ==
  /\ c \in Loops
  /\ At(c, "idle")
  /\ authMu' = c
  /\ Moves(c, "check", "new", NoToken)
  /\ UNCHANGED <<bank, aged, cache>>
Lock(c) ==
  /\ c \in Loops
  /\ At(c, "idle")
  /\ authMu = "free"
  /\ authMu' = c
  /\ Moves(c, "check", "new", NoToken)
  /\ UNCHANGED <<bank, aged, cache>>

StartCommand(c) ==
  /\ c \in Commands
  /\ At(c, "idle")
  /\ Moves(c, IF c \in LoggingIn THEN "login" ELSE "list", "new", NoToken)
  /\ UNCHANGED <<bank, aged, cache, authMu>>

\* bank.New loads the cache, whatever state the file is in.
New(c) ==
  /\ At(c, "new")
  /\ Goes(c, IF call(c) = "login" THEN "grant" ELSE "ensure", cache)
  /\ UNCHANGED <<bank, aged, cache, authMu>>

EnsureMissing(c) ==
  /\ At(c, "ensure")
  /\ token(c) = NoToken
  /\ Denied(c, NoToken)
  /\ UNCHANGED <<bank, aged, cache>>

EnsureFresh(c) ==
  /\ At(c, "ensure")
  /\ token(c) # NoToken
  /\ token(c) \notin aged
  /\ Authenticated(c, token(c))
  /\ UNCHANGED <<bank, aged, cache>>

EnsureAged(c) ==
  /\ At(c, "ensure")
  /\ token(c) \in aged
  /\ Goes(c, "refresh", token(c))
  /\ UNCHANGED <<bank, aged, cache, authMu>>

\* The bank takes the refresh token of old for the token t.
Rotate(old, t) ==
  /\ old \in usable
  /\ Issue(t)
  /\ usable' = (usable \ {old}) \cup {t}
  /\ rotated' = rotated \cup {old}
  /\ full' = IF old \in full THEN full \cup {t} ELSE full

MutantRefreshGranted(c, t) ==
  /\ At(c, "refresh")
  /\ Rotate(token(c), t)
  /\ Authenticated(c, t)
  /\ UNCHANGED <<aged, cache>>
RefreshGranted(c, t) ==
  /\ At(c, "refresh")
  /\ Rotate(token(c), t)
  /\ Goes(c, "truncate", t)
  /\ UNCHANGED <<aged, cache, authMu>>

RefreshLost(c, t) ==
  /\ "lost" \in Faults
  /\ At(c, "refresh")
  /\ Rotate(token(c), t)
  /\ Denied(c, token(c))
  /\ UNCHANGED <<aged, cache>>

RefreshRejected(c) ==
  /\ At(c, "refresh")
  /\ token(c) \notin usable
  /\ Denied(c, token(c))
  /\ UNCHANGED <<bank, aged, cache>>

RefreshUnanswered(c) ==
  /\ "unanswered" \in Faults
  /\ At(c, "refresh")
  /\ Denied(c, token(c))
  /\ UNCHANGED <<bank, aged, cache>>

-----------------------------------------------------------------------------
(* saveTokenCache: os.WriteFile truncates, then writes.                    *)

TruncateCache(c) ==
  /\ At(c, "truncate")
  /\ cache' = NoToken
  /\ Goes(c, "write", token(c))
  /\ UNCHANGED <<bank, aged, authMu>>

WriteCache(c) ==
  /\ At(c, "write")
  /\ cache' = token(c)
  /\ Authenticated(c, token(c))
  /\ UNCHANGED <<bank, aged>>

\* To the caller of EnsureAuthenticated this is a failed refresh, although
\* the refresh token has been used; a login ends with it.
SaveFails(c) ==
  /\ "save" \in Faults
  /\ At(c, "truncate") \/ At(c, "write")
  /\ IF call(c) = "login" THEN GivesUp(c) ELSE Denied(c, token(c))
  /\ UNCHANGED <<bank, aged, cache>>

-----------------------------------------------------------------------------
(* Authenticate.                                                           *)

\* Step 1: the interim token replaces the one in memory.
MutantPasswordGrant(c, t) ==
  /\ At(c, "grant")
  /\ Issue(t)
  /\ usable' = usable \cup {t}
  /\ Goes(c, "session", t)
  /\ cache' = t
  /\ UNCHANGED <<full, rotated, aged, authMu>>
PasswordGrant(c, t) ==
  /\ At(c, "grant")
  /\ Issue(t)
  /\ usable' = usable \cup {t}
  /\ Goes(c, "session", t)
  /\ UNCHANGED <<full, rotated, aged, cache, authMu>>

Advances(c, from, to) ==
  /\ At(c, from)
  /\ Goes(c, to, token(c))
  /\ UNCHANGED <<bank, aged, cache, authMu>>

FetchSession(c) == Advances(c, "session", "validate")

\* The bank sends the account holder a TAN, or asks for an approval.
ValidateSession(c) == Advances(c, "validate", "tan")

\* Something was typed, the right TAN or not, or the login was approved.
PromptTAN(c) == Advances(c, "tan", "activate")

ActivateSession(c) == Advances(c, "activate", "secondary")

\* Step 6: the interim token of an activated session is exchanged for one of
\* full authority.
SecondaryGrant(c, t) ==
  /\ At(c, "secondary")
  /\ Issue(t)
  /\ usable' = usable \cup {t}
  /\ full' = full \cup {t}
  /\ Goes(c, "truncate", t)
  /\ UNCHANGED <<rotated, aged, cache, authMu>>

\* Any step fails, or nobody answers in time, or not rightly.
MutantLoginFails(c) ==
  /\ At(c, "grant") \/ client[c].pc \in Interim
  /\ Authenticated(c, token(c))
  /\ UNCHANGED <<bank, aged, cache>>
LoginFails(c) ==
  /\ At(c, "grant") \/ client[c].pc \in Interim
  /\ GivesUp(c)
  /\ UNCHANGED <<bank, aged, cache>>

-----------------------------------------------------------------------------
(* A run: ListDocuments and every DownloadDocument ensure a token first.   *)

NextCall(c) ==
  /\ At(c, "api")
  /\ Goes(c, "ensure", token(c))
  /\ UNCHANGED <<bank, aged, cache, authMu>>

RunEnds(c) ==
  /\ At(c, "api")
  /\ GivesUp(c)
  /\ UNCHANGED <<bank, aged, cache>>

\* A process dies: serve with both its loops and the lock, or a command.
Kill(P) ==
  /\ "kill" \in Faults
  /\ \E c \in P : ~At(c, "idle")
  /\ client' = [c \in Clients |-> IF c \in P THEN Idle ELSE client[c]]
  /\ authMu' = IF authMu \in P THEN "free" ELSE authMu
  /\ UNCHANGED <<bank, aged, cache>>

Processes == {Loops} \cup {{c} : c \in Commands}

-----------------------------------------------------------------------------
\* What goes on under the lock, or does not touch what it guards.
QuietStep(c) ==
  \/ Lock(c) \/ StartCommand(c) \/ New(c)
  \/ EnsureMissing(c) \/ EnsureFresh(c) \/ RefreshRejected(c)
  \/ call(c) = "check" /\ EnsureAged(c)
  \/ c \in Loops /\ (TruncateCache(c) \/ WriteCache(c))
  \/ FetchSession(c) \/ ValidateSession(c) \/ PromptTAN(c) \/ ActivateSession(c)
  \/ LoginFails(c) \/ NextCall(c) \/ RunEnds(c)
  \/ \E t \in Tokens :
       RefreshGranted(c, t) \/ PasswordGrant(c, t) \/ SecondaryGrant(c, t)

\* A token request without an answer; a command that replaces the cache while
\* serve may be about to use what it has read.
MildStep(c) ==
  \/ RefreshUnanswered(c)
  \/ c \in Commands /\ (TruncateCache(c) \/ WriteCache(c))

\* A renewal outside the lock, by a command or in the middle of a run; a
\* renewal whose result is lost.
SeriousStep(c) ==
  \/ call(c) # "check" /\ EnsureAged(c)
  \/ SaveFails(c)
  \/ \E t \in Tokens : RefreshLost(c, t)

ClientStep(c) ==
  \/ QuietStep(c) /\ UNCHANGED trouble
  \/ MildStep(c) /\ trouble' = IF trouble = "none" THEN "mild" ELSE trouble
  \/ SeriousStep(c) /\ trouble' = "serious"

Next ==
  \/ \E t \in Tokens : Age(t) \/ Lapse(t)
  \/ \E c \in Clients : ClientStep(c)
  \/ \E P \in Processes : Kill(P) /\ trouble' = "serious"

Spec == Init /\ [][Next]_vars

-----------------------------------------------------------------------------
(* Properties. *)

\* The state is well-formed: tokens exist before they are used, and only a
\* loop holds the lock.
TypeOK ==
  /\ issued \in 0..MaxTokens
  /\ full \in SUBSET (1..issued)
  /\ usable \in SUBSET (1..issued)
  /\ rotated \in SUBSET (1..issued)
  /\ aged \in SUBSET (1..issued)
  /\ cache \in 0..issued
  /\ authMu \in Loops \cup {"free"}
  /\ client \in [Clients -> [call : Calls, pc : PCs, token : 0..issued]]
  /\ trouble \in Troubles

\* The interim token of a login that was never completed is neither kept nor
\* used for documents, whatever fails, dies or runs at the same time
\* (auth.go:92-134, server.go:189-204).
OnlyFullTokens ==
  /\ cache \in full \cup {NoToken}
  /\ \A c \in Clients : At(c, "api") => token(c) \in full

\* No client presents a refresh token that another has already used: "never
\* race to refresh the same token" (server.go:27-30).
RefreshedOnce ==
  \A c \in Clients : At(c, "refresh") => token(c) \notin rotated

\* ... which the lock of serve ensures, with logins, lists and syncs of other
\* processes next to it, as long as nobody renews a token outside the lock and
\* no renewed token is lost (server.go:175-182).
NoDoubleRefresh == trouble # "serious" => RefreshedOnce

Saving(x) == x.pc \in {"truncate", "write"}

\* Up to then, and while nobody is changing it, the cached token is one the
\* bank has not taken back for having been used: "re-running auth is only
\* needed once the refresh token itself expires" (README.md:79-80).
CacheIsCurrent ==
  trouble # "serious" /\ (\A c \in Clients : ~Saving(client[c])) =>
    cache \notin rotated /\ (cache = NoToken => full = {})

\* As long as nothing at all has gone wrong, serve has the bank send the
\* account holder a TAN only if the cached token could not have been refreshed
\* ("when the cached token is invalid or expired", cmd_serve.go:21).
LoginOnlyWhenNeeded ==
  [][\A c \in Loops : At(c, "validate") /\ At(c, "tan")' /\ trouble = "none" =>
       cache \notin usable]_vars

\* A loop that holds the lock, as LoginDesk sees it.
Stage(x) ==
  CASE x.call = "check" -> "checking"
    [] x.pc \in {"grant", "session", "validate"} -> "login"
    [] x.pc = "tan" -> "asked"
    [] OTHER -> "answered"

desk ==
  [b \in {"the bank"} |-> IF authMu = "free"
                            THEN [at |-> "nobody", stage |-> "free"]
                            ELSE [at |-> authMu, stage |-> Stage(client[authMu])]]

working == {l \in Loops : call(l) \in {"list", "download"}}

Desk == INSTANCE LoginDesk WITH Banks <- {"the bank"}

\* Whatever goes wrong and whatever commands do next to it, serve checks, renews
\* and logs in by one loop at a time, has one TAN sent per login, and lists or
\* downloads only with a token that was found fresh, renewed or obtained by a
\* login it has completed (server.go:166-205, auth.go:81-134).
KeepsDesk == Desk!Spec

-----------------------------------------------------------------------------
(* What makes them inductive. *)

\* A client x that is past asking for a token holds one of those in F; the
\* only others in memory are those of an open challenge.
FullClient(x, F) ==
  /\ x.pc \notin Interim => x.token \in F \cup {NoToken}
  /\ x.pc \in {"refresh", "truncate", "write", "api"} \/ x.call = "download" =>
       x.token \in F
  /\ x.pc \in {"grant"} \cup Interim => x.call = "login"
  /\ x.pc = "new" => x.call # "download"

FullInv ==
  /\ TypeOK
  /\ cache \in full \cup {NoToken}
  /\ \A c \in Clients : FullClient(client[c], full)

\* A loop holds the lock exactly while it is about a check or a login; one that
\* logs in is past the check.
DeskInv ==
  /\ FullInv
  /\ \A l \in Loops :
       /\ authMu = l <=> ~At(l, "idle") /\ call(l) \in {"check", "login"}
       /\ At(l, "idle") => call(l) = "check"
       /\ call(l) = "login" => client[l].pc \in {"grant", "truncate", "write"} \cup Interim

\* A run that uses tokens as long as they need no renewal, whatever it has
\* read from the cache.
Reading(x) == x.pc \in {"new", "ensure", "api"} /\ x.call \in {"list", "download"}

\* The command `auth`.
LoggingInOutside(x) ==
  x.pc \in {"new", "grant"} \cup Interim \cup {"truncate", "write"} /\ x.call = "login"

\* A client that checks, renews or logs in for a token of serve.
Authenticating(x) ==
  \/ x.pc = "new" /\ x.call = "check"
  \/ /\ x.pc \in {"ensure", "refresh"} /\ x.call = "check"
     /\ x.token \notin rotated
     /\ trouble = "none" => x.token = cache
  \/ /\ x.pc \in {"grant", "session", "validate"} /\ x.call = "login"
     /\ trouble = "none" => cache \notin usable
  \/ x.pc \in {"tan", "activate", "secondary"} /\ x.call = "login"
  \/ Saving(x) /\ x.call \in {"check", "login"}

LockClient(c, x) ==
  \/ x.pc = "idle"
  \/ Reading(x)
  \/ c \in Commands /\ LoggingInOutside(x)
  \/ authMu = c /\ Authenticating(x)

\* What c is about to save is new to everyone.
SavesNews(c) ==
  Saving(client[c]) =>
    /\ client[c].token \notin rotated \cup {cache, NoToken}
    /\ \A d \in Clients \ {c} : client[d].token # client[c].token

\* A used token is in the cache only while the holder of the lock replaces it,
\* and none at all only while someone is saving.
CacheKept ==
  /\ cache \in rotated => \E c \in Clients : authMu = c /\ Saving(client[c])
  /\ cache = NoToken => full = {} \/ \E c \in Clients : Saving(client[c])

\* Whoever renews a token holds the lock and has one that nobody has used; so
\* does whoever logs in for serve, and has, as long as nothing has gone wrong,
\* found the cached one beyond use.
LockInv ==
  /\ TypeOK
  /\ CacheKept
  /\ \A c \in Clients : LockClient(c, client[c]) /\ SavesNews(c)

\* ... until something serious happens.
LockKept == TypeOK /\ (trouble # "serious" => LockInv)
=============================================================================
