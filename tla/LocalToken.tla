----------------------------- MODULE LocalToken -----------------------------
(***************************************************************************)
(* The TikTok token of the local installation (publishing/tiktok/auth.py   *)
(* and cli/tiktok_auth.py): one file, read by every command that talks to  *)
(* TikTok, refreshed under a lock on a second file, and written by the     *)
(* authorization commands, which take no lock.  Writing the file is        *)
(* opening it, which empties it, and then filling it; a file that does not *)
(* parse is read as no token at all.                                       *)
(***************************************************************************)
EXTENDS Naturals

CONSTANTS
    Commands,   \* processes of the local installation
    MaxTokens,  \* bound: tokens TikTok issues
    Missing,    \* no file
    Torn        \* a file that does not parse

VARIABLES
    file,     \* TIKTOK_TOKEN_PATH
    pending,  \* TIKTOK_PENDING_AUTH_PATH: the print-auth-url it belongs to
    flock,    \* who holds the lock on TIKTOK_REFRESH_LOCK_PATH
    cmd,      \* where each process stands
    urls,     \* how many authorization URLs were printed by hand
    good,     \* TikTok's side: refresh tokens it accepts
    old,      \* tokens whose access part is about to expire
    ended,    \* tokens whose refresh part has expired
    made,     \* how many tokens TikTok has issued
    spent     \* history: rotated tokens whose successor never reached the file

vars == <<file, pending, flock, cmd, urls, good, old, ended, made, spent>>
tiktok == <<good, old, ended, made, spent>>

Tokens == 1 .. MaxTokens
MaxUrls == 2  \* bound: URLs printed by hand
Stages == {"idle", "lock", "read", "refresh", "authorize", "clear", "compare", "truncate", "fill"}
Asleep == [at |-> "idle", token |-> Missing, from |-> Missing, url |-> 0]

TypeOK ==
    /\ file \in Tokens \cup {Missing, Torn} /\ pending \in 0 .. MaxUrls
    /\ flock \in Commands \cup {Missing}
    /\ cmd \in [Commands -> [at : Stages, token : Tokens \cup {Missing},
                          from : Tokens \cup {Missing}, url : 0 .. MaxUrls]]
    /\ urls \in 0 .. MaxUrls /\ made \in 0 .. MaxTokens
    /\ good \subseteq 1 .. made /\ old \subseteq 1 .. made /\ ended \subseteq old
    /\ spent \subseteq 1 .. made

Init ==
    /\ file = Missing /\ pending = 0 /\ flock = Missing
    /\ cmd = [c \in Commands |-> Asleep]
    /\ urls = 0 /\ made = 0
    /\ good = {} /\ old = {} /\ ended = {} /\ spent = {}

Goto(c, stage) == cmd' = [cmd EXCEPT ![c].at = stage]
Exit(c) == cmd' = [cmd EXCEPT ![c] = Asleep]
Unlock(c) == flock' = IF flock = c THEN Missing ELSE flock

-----------------------------------------------------------------------------
(* get_access_token.                                                       *)

\* What load_token yields: the token, or nothing for no file and a torn one.
LoadToken == IF file \in Tokens THEN file ELSE Missing
TokenStillValid(t) == t \notin old

\* The fast path takes no lock.  A caller that finds no token is told to
\* authorize, one that finds a good token uses it: neither changes anything.
GetAccessToken(c) ==
    /\ cmd[c].at = "idle" /\ LoadToken # Missing /\ ~TokenStillValid(LoadToken)
    /\ Goto(c, "lock")
    /\ UNCHANGED <<file, pending, flock, urls, tiktok>>

\* A refresh that does not wait for the lock.
FaultNoLock == TRUE

LockFree == flock = Missing

RefreshLock(c) ==
    /\ cmd[c].at = "lock" /\ LockFree
    /\ flock' = c
    /\ Goto(c, "read")
    /\ UNCHANGED <<file, pending, urls, tiktok>>

\* The re-read under the lock: the token may be gone, renewed by now, or ended,
\* which asks for a new authorization.
RereadToken(c) ==
    /\ cmd[c].at = "read"
    /\ \/ LoadToken \notin old \ ended /\ Exit(c) /\ Unlock(c)
       \/ /\ LoadToken \in old \ ended
          /\ cmd' = [cmd EXCEPT ![c].at = "refresh", ![c].token = LoadToken]
          /\ UNCHANGED flock
    /\ UNCHANGED <<file, pending, urls, tiktok>>

\* TikTok answers with a new token and forgets the refresh token it was given.
RefreshAnswered(c) ==
    /\ cmd[c].at = "refresh" /\ cmd[c].token \in good /\ made < MaxTokens
    /\ made' = made + 1
    /\ good' = (good \ {cmd[c].token}) \cup {made + 1}
    /\ cmd' = [cmd EXCEPT ![c].at = "truncate", ![c].from = cmd[c].token, ![c].token = made + 1]
    /\ UNCHANGED <<file, pending, flock, urls, old, ended, spent>>

\* HTTP 4xx: TikTokReauthorizationRequiredError.
RefreshRejected(c) ==
    /\ cmd[c].at = "refresh" /\ cmd[c].token \notin good
    /\ Exit(c) /\ Unlock(c)
    /\ UNCHANGED <<file, pending, urls, tiktok>>

\* Unreachable, unreadable or 5xx: a transient failure; TikTok may have acted.
RefreshUnanswered(c) ==
    /\ cmd[c].at = "refresh"
    /\ \/ UNCHANGED tiktok
       \/ /\ cmd[c].token \in good /\ made < MaxTokens
          /\ made' = made + 1
          /\ good' = (good \ {cmd[c].token}) \cup {made + 1}
          /\ spent' = spent \cup {cmd[c].token}
          /\ UNCHANGED <<old, ended>>
    /\ Exit(c) /\ Unlock(c)
    /\ UNCHANGED <<file, pending, urls>>

-----------------------------------------------------------------------------
(* save_token: the file is emptied, then filled.                           *)

Truncate(c) ==
    /\ cmd[c].at = "truncate"
    /\ file' = Torn
    /\ Goto(c, "fill")
    /\ UNCHANGED <<pending, flock, urls, tiktok>>

\* Two writers at once leave either token or a mixture of both.
Fill(c) ==
    /\ cmd[c].at = "fill"
    /\ \/ file' = cmd[c].token
       \/ (\E d \in Commands \ {c} : cmd[d].at = "fill") /\ file' = Torn
    /\ Exit(c) /\ Unlock(c)
    /\ UNCHANGED <<pending, urls, tiktok>>

-----------------------------------------------------------------------------
(* Authorizing by hand.                                                    *)

\* authorize_interactive: one redirect, its state compared, the code exchanged.
AuthorizeInteractive(c) ==
    /\ cmd[c].at = "idle"
    /\ Goto(c, "authorize")
    /\ UNCHANGED <<file, pending, flock, urls, tiktok>>

\* Denied, timed out, another state, or a failed exchange.
AuthorizeFails(c) ==
    /\ cmd[c].at = "authorize"
    /\ Exit(c)
    /\ UNCHANGED <<file, pending, flock, urls, tiktok>>

ExchangeCode(c) ==
    /\ cmd[c].at = "authorize" /\ made < MaxTokens
    /\ made' = made + 1
    /\ good' = good \cup {made + 1}
    /\ cmd' = [cmd EXCEPT ![c].at = "truncate", ![c].token = made + 1]
    /\ UNCHANGED <<file, pending, flock, urls, old, ended, spent>>

\* --print-auth-url: a new state replaces the pending one.
StartManualAuthorization ==
    /\ urls < MaxUrls
    /\ urls' = urls + 1 /\ pending' = urls + 1
    /\ UNCHANGED <<file, flock, cmd, tiktok>>

\* --exchange-code with the state of some printed URL: the pending attempt is
\* read, and its file removed, before anything is compared.
CompleteManualAuthorization(c) ==
    /\ cmd[c].at = "idle" /\ pending # 0
    /\ \E url \in 1 .. urls :
           cmd' = [cmd EXCEPT ![c].at = "clear", ![c].url = IF url = pending THEN url ELSE 0]
    /\ UNCHANGED <<file, pending, flock, urls, tiktok>>

ClearPendingAuth(c) ==
    /\ cmd[c].at = "clear"
    /\ pending' = 0
    /\ Goto(c, "compare")
    /\ UNCHANGED <<file, flock, urls, tiktok>>

CompareState(c) ==
    /\ cmd[c].at = "compare"
    /\ IF cmd[c].url = 0 THEN Exit(c) ELSE Goto(c, "authorize")
    /\ UNCHANGED <<file, pending, flock, urls, tiktok>>

-----------------------------------------------------------------------------
\* A process dies; the system drops its lock.
Die(c) ==
    /\ cmd[c].at # "idle"
    /\ spent' = IF cmd[c].from = Missing THEN spent ELSE spent \cup {cmd[c].from}
    /\ Exit(c) /\ Unlock(c)
    /\ UNCHANGED <<file, pending, urls, good, old, ended, made>>

\* Time passes for the token in the file; nobody looks at the age of another.
AccessExpires ==
    /\ LoadToken # Missing /\ TokenStillValid(file)
    /\ old' = old \cup {file}
    /\ UNCHANGED <<file, pending, flock, cmd, urls, good, ended, made, spent>>

RefreshExpires ==
    /\ LoadToken \in old \ ended
    /\ ended' = ended \cup {file}
    /\ UNCHANGED <<file, pending, flock, cmd, urls, good, old, made, spent>>

Refreshing(c) == RefreshLock(c) \/ RereadToken(c) \/ RefreshAnswered(c) \/ RefreshRejected(c)
                     \/ RefreshUnanswered(c)
Saving(c) == Truncate(c) \/ Fill(c)
Authorizing(c) == AuthorizeInteractive(c) \/ AuthorizeFails(c) \/ ExchangeCode(c)
                      \/ CompleteManualAuthorization(c) \/ ClearPendingAuth(c) \/ CompareState(c)

Next ==
    \/ \E c \in Commands : GetAccessToken(c) \/ Refreshing(c) \/ Saving(c) \/ Authorizing(c) \/ Die(c)
    \/ StartManualAuthorization
    \/ AccessExpires \/ RefreshExpires

Spec == Init /\ [][Next]_vars

-----------------------------------------------------------------------------
\* The lock and the re-read under it: whoever is about to ask TikTok for a
\* refresh holds a token TikTok still accepts, unless a process that had
\* rotated it died, or lost the answer, before the successor was saved.
SpentTokenIsNotPresented ==
    \A c \in Commands : cmd[c].at = "refresh" => cmd[c].token \in good \cup spent
=============================================================================
