-------------------------- MODULE HostedConnection --------------------------
(***************************************************************************)
(* One user's connection to one platform as the hosted product keeps it:   *)
(* the oauth_states rows of the attempts to connect, the row of            *)
(* platform_connections, the encrypted token in platform_credentials, and  *)
(* the requests and workers that connect, disconnect, use and refresh it.  *)
(*                                                                         *)
(* Sources: api/routes/platforms_{tiktok,instagram}.py, publishing/tiktok/ *)
(* {hosted_publisher,credential_store}.py, publishing/instagram/           *)
(* {oauth,credential_store}.py and the credential methods of both stores.  *)
(*                                                                         *)
(* A token is a number; every write of the credential row stores a token   *)
(* written by nobody else, so the row's updated_at is identified with the  *)
(* token it holds.  Time is what the code reads off it: the stored token   *)
(* is fresh, then stale (TikTok: its access part is about to expire;       *)
(* Instagram: its refresh is due), then lapsed (no longer refreshable).    *)
(***************************************************************************)
EXTENDS Naturals, FiniteSets

CONSTANTS
    Procs,           \* requests and workers that may run at the same time
    Attempts,        \* oauth_states rows: attempts to connect
    MaxTokens,       \* bound: tokens the platform issues
    MaxCasAttempts,  \* _MAX_CAS_ATTEMPTS of both credential stores
    None

ASSUME HostedAssumption ==
    /\ MaxTokens \in Nat /\ MaxCasAttempts \in Nat \ {0}
    /\ None \notin Procs \cup Attempts \cup (1 .. MaxTokens)

VARIABLES
    platform,    \* which of the two platforms this connection is to
    backend,     \* "postgres" or "sqlite": only Postgres has the refresh lock
    attempt,     \* the oauth_states rows
    connection,  \* platform_connections.status, "none" before the row exists
    credential,  \* the token in platform_credentials, None without a row
    age,         \* of the stored token
    lock,        \* who holds credential_refresh_lock
    proc,        \* where each request stands, and what it has read
    live,        \* the platform's side: the tokens it would still refresh
    issued,      \* how many tokens the platform has issued
    origin,      \* the attempt each issued token goes back to
    redeemed,    \* history: the attempts whose code was exchanged
    forfeited    \* history: tokens dead because the person revoked them, or
                 \* because the answer that carried the successor was lost

dbVars == <<attempt, connection, credential, age>>
platformVars == <<live, issued, origin, redeemed, forfeited>>
vars == <<platform, backend, dbVars, lock, proc, platformVars>>

Tokens == 1 .. MaxTokens
CallbackStages == {"exchange", "connection", "create", "activate", "save",
                   "insert", "update", "finish"}
DisconnectStages == {"delete", "disconnect"}
RefreshStages == {"read", "refresh", "write"}
Stages == {"idle", "look", "wait"} \cup CallbackStages \cup DisconnectStages \cup RefreshStages

Idle == [at |-> "idle", attempt |-> None, token |-> None, new |-> None, tries |-> 0]

TypeOK ==
    /\ platform \in {"tiktok", "instagram"} /\ backend \in {"postgres", "sqlite"}
    /\ attempt \in [Attempts -> {"none", "open", "expired", "consumed"}]
    /\ connection \in {"none", "ACTIVE", "DISCONNECTED"}
    /\ credential \in Tokens \cup {None} /\ age \in {"fresh", "stale", "lapsed"}
    /\ lock \in Procs \cup {None}
    /\ proc \in [Procs -> [at : Stages, attempt : Attempts \cup {None},
                           token : Tokens \cup {None}, new : Tokens \cup {None},
                           tries : 0 .. MaxCasAttempts - 1]]
    /\ issued \in 0 .. MaxTokens
    /\ live \subseteq 1 .. issued
    /\ origin \in [Tokens -> Attempts \cup {None}]
    /\ redeemed \subseteq Attempts /\ forfeited \subseteq 1 .. issued

Init ==
    /\ platform \in {"tiktok", "instagram"} /\ backend \in {"postgres", "sqlite"}
    /\ attempt = [a \in Attempts |-> "none"]
    /\ connection = "none" /\ credential = None /\ age = "fresh"
    /\ lock = None /\ proc = [p \in Procs |-> Idle]
    /\ live = {} /\ issued = 0
    /\ origin = [t \in Tokens |-> None]
    /\ redeemed = {} /\ forfeited = {}

Goto(p, stage) == proc' = [proc EXCEPT ![p].at = stage]
Return(p) == proc' = [proc EXCEPT ![p] = Idle]

-----------------------------------------------------------------------------
(* The rows.                                                               *)

CreateOAuthState(a) ==
    /\ attempt[a] = "none"
    /\ attempt' = [attempt EXCEPT ![a] = "open"]

\* A consume that does not look at consumed_at: a replayed callback goes through.
FaultConsumeTwice(a) ==
    /\ attempt[a] \in {"open", "consumed"}
    /\ attempt' = [attempt EXCEPT ![a] = "consumed"]

\* consume_oauth_state: one UPDATE guarded by consumed_at and expires_at; the
\* caller that changes no row is told the state is unknown.
ConsumeOAuthState(a) ==
    /\ attempt[a] = "open"
    /\ attempt' = [attempt EXCEPT ![a] = "consumed"]

\* UNIQUE(user_id, platform): a second insert of the row is refused.  The
\* external account id kept with it is left out: nothing reads it.
CreatePlatformConnection(status) == connection = "none" /\ connection' = status
UpdateConnectionStatus(status) == connection' = status

\* Every write of the credential row stores a token the platform just issued.
Store(t) == credential' = t /\ age' = "fresh"
DeletePlatformCredential == credential' = None /\ age' = "fresh"

\* Postgres: INSERT ... ON CONFLICT DO UPDATE, one statement.
UpsertOnConflict(t) == Store(t)

\* An UPDATE of a row that is gone changes nothing.
UpdateCredentialRow(t) == IF credential = None THEN UNCHANGED <<credential, age>> ELSE Store(t)

\* A write that does not look at what was read.
FaultNoCas(p) == TRUE

\* update_platform_credential_if_unchanged: the row as it was read, or nothing.
WonCas(p) == credential = proc[p].token

-----------------------------------------------------------------------------
(* Connecting.                                                             *)

StartTikTokConnect(a) == platform = "tiktok" /\ CreateOAuthState(a)
StartInstagramConnect(a) == platform = "instagram" /\ CreateOAuthState(a)

Connect(a) ==
    /\ StartTikTokConnect(a) \/ StartInstagramConnect(a)
    /\ UNCHANGED <<platform, backend, connection, credential, age, lock, proc, platformVars>>

\* OAUTH_STATE_TTL_SECONDS pass.
AttemptExpires(a) ==
    /\ attempt[a] = "open"
    /\ attempt' = [attempt EXCEPT ![a] = "expired"]
    /\ UNCHANGED <<platform, backend, connection, credential, age, lock, proc, platformVars>>

\* The browser returns with a state; a state that cannot be consumed changes
\* nothing.  The consuming statement comes before the code is even looked at.
Callback(p, a) ==
    /\ proc[p].at = "idle"
    /\ ConsumeOAuthState(a)
    /\ proc' = [proc EXCEPT ![p] = [Idle EXCEPT !.at = "exchange", !.attempt = a]]
    /\ UNCHANGED <<platform, backend, connection, credential, age, lock, platformVars>>

\* A refusal on the platform's page, a missing code, or a failed exchange:
\* the attempt is spent, nothing else changes.
ExchangeFails(p) ==
    /\ proc[p].at = "exchange"
    /\ Return(p)
    /\ UNCHANGED <<platform, backend, dbVars, lock, platformVars>>

\* The platform answers with a new token; issued is bounded by MaxTokens.
Issue(a) ==
    /\ issued < MaxTokens
    /\ issued' = issued + 1
    /\ origin' = [origin EXCEPT ![issued + 1] = a]

ExchangeCode(p) ==
    /\ proc[p].at = "exchange"
    /\ Issue(proc[p].attempt)
    /\ live' = live \cup {issued + 1}
    /\ redeemed' = redeemed \cup {proc[p].attempt}
    /\ proc' = [proc EXCEPT ![p].at = "connection", ![p].token = issued + 1]
    /\ UNCHANGED <<platform, backend, dbVars, lock, forfeited>>

\* get_platform_connection; the TikTok callback then activates a row it found
\* inactive, the Instagram callback stores the credential first.
FindConnection(p) ==
    /\ proc[p].at = "connection"
    /\ Goto(p, CASE connection = "none" -> "create"
                 [] connection = "DISCONNECTED" /\ platform = "tiktok" -> "activate"
                 [] OTHER -> "save")
    /\ UNCHANGED <<platform, backend, dbVars, lock, platformVars>>

\* get_or_create_platform_connection creates the TikTok row ACTIVE; the
\* Instagram row is created inactive.
CreateConnection(p) ==
    /\ proc[p].at = "create"
    /\ CreatePlatformConnection(IF platform = "tiktok" THEN "ACTIVE" ELSE "DISCONNECTED")
    /\ Goto(p, "save")
    /\ UNCHANGED <<platform, backend, attempt, credential, age, lock, platformVars>>

\* Another callback inserted the row first: the request fails.
CreateRefused(p) ==
    /\ proc[p].at = "create" /\ connection # "none"
    /\ Return(p)
    /\ UNCHANGED <<platform, backend, dbVars, lock, platformVars>>

ActivateTikTok(p) ==
    /\ proc[p].at = "activate"
    /\ UpdateConnectionStatus("ACTIVE")
    /\ Goto(p, "save")
    /\ UNCHANGED <<platform, backend, attempt, credential, age, lock, platformVars>>

\* Where a callback goes once the credential is written.
Saved(p) == IF platform = "tiktok" THEN Return(p) ELSE Goto(p, "finish")

SaveOnPostgres(p) ==
    /\ proc[p].at = "save" /\ backend = "postgres"
    /\ UpsertOnConflict(proc[p].token)
    /\ Saved(p)
    /\ UNCHANGED <<platform, backend, attempt, connection, lock, platformVars>>

\* SQLite: a SELECT decides between INSERT and UPDATE.
SaveOnSqlite(p) ==
    /\ proc[p].at = "save" /\ backend = "sqlite"
    /\ Goto(p, IF credential = None THEN "insert" ELSE "update")
    /\ UNCHANGED <<platform, backend, dbVars, lock, platformVars>>

InsertCredential(p) ==
    /\ proc[p].at = "insert"
    /\ \/ credential = None /\ Store(proc[p].token) /\ Saved(p)
       \/ credential # None /\ UNCHANGED <<credential, age>> /\ Return(p)  \* UNIQUE refuses it
    /\ UNCHANGED <<platform, backend, attempt, connection, lock, platformVars>>

UpdateCredential(p) ==
    /\ proc[p].at = "update"
    /\ UpdateCredentialRow(proc[p].token)
    /\ Saved(p)
    /\ UNCHANGED <<platform, backend, attempt, connection, lock, platformVars>>

\* No usable CREDENTIAL_ENCRYPTION_KEY: nothing is stored.
SaveFails(p) ==
    /\ proc[p].at = "save"
    /\ Return(p)
    /\ UNCHANGED <<platform, backend, dbVars, lock, platformVars>>

\* Instagram: the account id, which a reconnect may have changed, then the status.
ActivateInstagram(p) ==
    /\ proc[p].at = "finish"
    /\ UpdateConnectionStatus("ACTIVE")
    /\ Return(p)
    /\ UNCHANGED <<platform, backend, attempt, credential, age, lock, platformVars>>

-----------------------------------------------------------------------------
(* Disconnecting: the credential goes first, then the status.              *)

Disconnect(p) ==
    /\ proc[p].at = "idle" /\ connection # "none"
    /\ Goto(p, "delete")
    /\ UNCHANGED <<platform, backend, dbVars, lock, platformVars>>

DeleteCredential(p) ==
    /\ proc[p].at = "delete"
    /\ DeletePlatformCredential
    /\ Goto(p, "disconnect")
    /\ UNCHANGED <<platform, backend, attempt, connection, lock, platformVars>>

MarkDisconnected(p) ==
    /\ proc[p].at = "disconnect"
    /\ UpdateConnectionStatus("DISCONNECTED")
    /\ Return(p)
    /\ UNCHANGED <<platform, backend, attempt, credential, age, lock, platformVars>>

-----------------------------------------------------------------------------
(* Using and refreshing the token.                                         *)

\* hosted_access_token_provider: the publisher only uses an ACTIVE connection.
ProvideAccessToken(p) ==
    /\ proc[p].at = "idle" /\ platform = "tiktok" /\ connection = "ACTIVE"
    /\ Goto(p, "look")
    /\ UNCHANGED <<platform, backend, dbVars, lock, platformVars>>

\* The status requests ask the platform for the account's name, with the token
\* of an ACTIVE connection that has one; whatever goes wrong, they answer.
Status(p, of) ==
    /\ proc[p].at = "idle" /\ platform = of
    /\ connection = "ACTIVE" /\ credential # None
    /\ Goto(p, "look")
    /\ UNCHANGED <<platform, backend, dbVars, lock, platformVars>>
TikTokStatus(p) == Status(p, "tiktok")
InstagramStatus(p) == Status(p, "instagram")

\* _token_still_valid, refresh_due: a token that is not stale is used as it is.
\* No row, or a token that lapsed, is answered with "reconnect" and never
\* refreshed; TikTok's lapse is only looked at under the lock.
NeedsRefresh == credential # None /\ age = "stale"
LapsedUnnoticed == credential # None /\ age = "lapsed" /\ platform = "tiktok"

Look(p) ==
    /\ proc[p].at = "look"
    /\ IF NeedsRefresh \/ LapsedUnnoticed THEN Goto(p, "wait") ELSE Return(p)
    /\ UNCHANGED <<platform, backend, dbVars, lock, platformVars>>

\* A refresh that takes no lock on either store.
FaultNoRefreshLock == TRUE

\* pg_advisory_xact_lock, one per connection; a no-op on SQLite.
RefreshLockFree == backend = "sqlite" \/ lock = None

EnterRefresh(p) ==
    /\ proc[p].at = "wait"
    /\ RefreshLockFree
    /\ lock' = IF backend = "postgres" THEN p ELSE None
    /\ Goto(p, "read")
    /\ UNCHANGED <<platform, backend, dbVars, platformVars>>

\* lock_timeout: CREDENTIAL_REFRESH_BUSY, a retryable failure.
LockTimeout(p) ==
    /\ proc[p].at = "wait" /\ ~RefreshLockFree
    /\ Return(p)
    /\ UNCHANGED <<platform, backend, dbVars, lock, platformVars>>

\* The transaction that holds the lock ends: commit, rollback or a dead session.
Release(p) == lock' = IF lock = p THEN None ELSE lock

\* Under the lock the row is read again: another holder may have renewed it.
Reread(p) ==
    /\ proc[p].at = "read"
    /\ \/ /\ NeedsRefresh
          /\ proc' = [proc EXCEPT ![p].at = "refresh", ![p].token = credential]
          /\ UNCHANGED lock
       \/ ~NeedsRefresh /\ Return(p) /\ Release(p)
    /\ UNCHANGED <<platform, backend, dbVars, platformVars>>

\* TikTok rotates the refresh token with its use; an Instagram token stays good.
Rotate(t) == live' = (IF platform = "tiktok" THEN live \ {t} ELSE live) \cup {issued + 1}

RefreshAnswered(p) ==
    /\ proc[p].at = "refresh" /\ proc[p].token \in live
    /\ Issue(origin[proc[p].token])
    /\ Rotate(proc[p].token)
    /\ proc' = [proc EXCEPT ![p].at = "write", ![p].new = issued + 1]
    /\ UNCHANGED <<platform, backend, dbVars, lock, redeemed, forfeited>>

\* HTTP 4xx: the platform no longer knows this token; the owner must reconnect.
RefreshRejected(p) ==
    /\ proc[p].at = "refresh" /\ proc[p].token \notin live
    /\ Return(p) /\ Release(p)
    /\ UNCHANGED <<platform, backend, dbVars, platformVars>>

\* A network error or a malformed answer; the platform may have acted on the
\* request.  TikTok: the call fails.  Instagram: it fails or uses the old token.
RefreshUnanswered(p) ==
    /\ proc[p].at = "refresh"
    /\ \/ UNCHANGED platformVars
       \/ /\ proc[p].token \in live
          /\ Issue(origin[proc[p].token])
          /\ Rotate(proc[p].token)
          /\ forfeited' = forfeited \cup {proc[p].token}
          /\ UNCHANGED redeemed
    /\ Return(p) /\ Release(p)
    /\ UNCHANGED <<platform, backend, dbVars>>

\* for _ in range(_MAX_CAS_ATTEMPTS).
MayRetry(p) == proc[p].tries + 1 < MaxCasAttempts

\* The conditional write; a caller that lost reads the row again.
WriteRefreshed(p) ==
    /\ proc[p].at = "write"
    /\ \/ /\ WonCas(p)
          /\ Store(proc[p].new)
          /\ Return(p) /\ Release(p)
       \/ /\ ~WonCas(p) /\ MayRetry(p)
          /\ proc' = [proc EXCEPT ![p] = [Idle EXCEPT !.at = "read", !.tries = proc[p].tries + 1]]
          /\ UNCHANGED <<credential, age, lock>>
       \/ /\ ~WonCas(p) /\ ~MayRetry(p)
          /\ UNCHANGED <<credential, age>>
          /\ Return(p) /\ Release(p)
    /\ UNCHANGED <<platform, backend, attempt, connection, platformVars>>

-----------------------------------------------------------------------------
(* Surroundings.                                                           *)

\* A process dies anywhere in a request; Postgres ends its session.
Crash(p) ==
    /\ proc[p].at # "idle"
    /\ forfeited' = IF proc[p].at = "write" THEN forfeited \cup {proc[p].token} ELSE forfeited
    /\ Return(p) /\ Release(p)
    /\ UNCHANGED <<platform, backend, dbVars, live, issued, origin, redeemed>>

\* Time passes for the stored token; nobody looks at the age of any other.
TokenAges ==
    /\ credential # None
    /\ \/ age = "fresh" /\ age' = "stale"
       \/ age = "stale" /\ age' = "lapsed"
    /\ UNCHANGED <<platform, backend, attempt, connection, credential, lock, proc, platformVars>>

\* The person removes the app on the platform's own pages, which ends every
\* token (only while a token is stored: otherwise nothing here can tell).
Revoke ==
    /\ credential \in live
    /\ forfeited' = forfeited \cup live
    /\ live' = {}
    /\ UNCHANGED <<platform, backend, dbVars, lock, proc, issued, origin, redeemed>>

CallbackStep(p) ==
    \/ ExchangeFails(p) \/ ExchangeCode(p) \/ FindConnection(p) \/ CreateConnection(p)
    \/ CreateRefused(p) \/ ActivateTikTok(p) \/ SaveOnPostgres(p) \/ SaveOnSqlite(p)
    \/ InsertCredential(p) \/ UpdateCredential(p) \/ SaveFails(p)
    \/ ActivateInstagram(p)
DisconnectStep(p) == Disconnect(p) \/ DeleteCredential(p) \/ MarkDisconnected(p)
UseStep(p) ==
    \/ ProvideAccessToken(p) \/ TikTokStatus(p) \/ InstagramStatus(p) \/ Look(p)
    \/ EnterRefresh(p) \/ LockTimeout(p) \/ Reread(p)
    \/ RefreshAnswered(p) \/ RefreshRejected(p) \/ RefreshUnanswered(p) \/ WriteRefreshed(p)

Next ==
    \/ \E a \in Attempts : Connect(a) \/ AttemptExpires(a)
    \/ \E p \in Procs, a \in Attempts : Callback(p, a)
    \/ \E p \in Procs : CallbackStep(p) \/ DisconnectStep(p) \/ UseStep(p) \/ Crash(p)
    \/ TokenAges \/ Revoke

Spec == Init /\ [][Next]_vars

-----------------------------------------------------------------------------
(* Properties.                                                             *)

\* On Postgres the lock and the second read see to it that a refresh token is
\* never presented again after the platform rotated it (credential_store.py:
\* "exactly one real refresh per expiry"), unless the answer that carried its
\* successor was lost or the person revoked the token.
RotatedTokenIsNotPresented ==
    \A p \in Procs :
        proc[p].at = "refresh" /\ backend = "postgres"
            => proc[p].token \in live \cup forfeited

\* A refresh only renews the authorization that is stored: it neither brings
\* back a credential the owner's disconnect deleted nor replaces the token of
\* a reconnect that landed while the platform was being asked.
RefreshOnlyRenews ==
    [][\A p \in Procs :
          proc[p].at = "write" /\ proc'[p].at # "write" /\ credential' # credential
              => credential # None /\ origin[credential'] = origin[credential]]_vars

\* One attempt to connect yields one exchange of a code, however often and
\* from wherever the callback URL is opened.
AttemptIsRedeemedOnce ==
    \A a \in Attempts :
        LET exchanging == {p \in Procs : proc[p].at = "exchange" /\ proc[p].attempt = a}
        IN  Cardinality(exchanging) + (IF a \in redeemed THEN 1 ELSE 0) <= 1
=============================================================================
