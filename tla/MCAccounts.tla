----------------------------- MODULE MCAccounts -----------------------------
(***************************************************************************)
(* The three specifications about accounts and tokens for one run.  They   *)
(* share no row and no file, so a behaviour exercises one of them, chosen  *)
(* in the initial state, and leaves the variables of the others alone.     *)
(***************************************************************************)
EXTENDS HostedConnection

CONSTANTS Logins, Subjects, EmailOf, Commands, LocalTokens, Torn

\* No provider hands out the email of the local account (config.py:
\* LOCAL_BOOTSTRAP_USER_EMAIL); neither a token, a process, an identity nor an
\* email is the absence of one.
ASSUME AccountsAssumption ==
    /\ \A s \in Subjects : EmailOf[s] \notin {"local@", None}
    /\ None # "local@" /\ None \notin Subjects
    /\ LocalTokens \in Nat
    /\ None \notin Nat /\ Torn \notin Nat /\ None \notin Commands

VARIABLES focus, users, identities, login, operator, abandoned,
          file, pending, flock, cmd, urls, good, old, ended, made, spent

identityVars == <<users, identities, login, operator, abandoned>>
localVars == <<file, pending, flock, cmd, urls, good, old, ended, made, spent>>

\* Two identities carry one email, a third carries its own.
MCEmailOf == [s \in Subjects |-> IF s = "bob" THEN "bob@" ELSE "ann@"]

Identity == INSTANCE FirstLogin WITH Local <- "local@", Nobody <- None
Local == INSTANCE LocalToken WITH MaxTokens <- LocalTokens, Missing <- None

MCInit ==
    /\ focus \in {"hosted", "identity", "local"}
    /\ Init /\ Identity!Init /\ Local!Init
    /\ focus # "hosted" => platform = "tiktok" /\ backend = "postgres"

MCNext ==
    /\ UNCHANGED focus
    /\ \/ focus = "hosted" /\ Next /\ UNCHANGED <<identityVars, localVars>>
       \/ focus = "identity" /\ Identity!Next /\ UNCHANGED <<vars, localVars>>
       \/ focus = "local" /\ Local!Next /\ UNCHANGED <<vars, identityVars>>

MCSpec == MCInit /\ [][MCNext]_<<focus, vars, identityVars, localVars>>

\* user_resolution.py: no two identities resolve to one account.
AccountsAreNotShared == Identity!AccountsAreNotShared
\* user_resolution.py: a person is locked out only by a login cut in half.
LockoutNeedsAbandonedLogin == Identity!LockoutNeedsAbandonedLogin
\* tiktok/auth.py: the local refresh presents no token it rotated and saved
\* (and the variables of all three specifications keep their types).
SpentTokenIsNotPresented ==
    /\ Local!SpentTokenIsNotPresented
    /\ TypeOK /\ Identity!TypeOK /\ Local!TypeOK
=============================================================================
