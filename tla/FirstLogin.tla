----------------------------- MODULE FirstLogin -----------------------------
(***************************************************************************)
(* How a verified identity becomes an account: identity/user_resolution.py *)
(* at every request of the hosted product, and cli/link_bootstrap_user.py, *)
(* with which the operator links an identity to the account of the local   *)
(* installation.  users.email is UNIQUE, so an account is named by its     *)
(* email; auth_identities has UNIQUE(provider, provider_subject).          *)
(***************************************************************************)
EXTENDS Naturals

CONSTANTS
    Logins,    \* requests that may run at the same time
    Subjects,  \* identities of the sign-in provider
    EmailOf,   \* the email each identity carries (a placeholder when it has none)
    Local,     \* LOCAL_BOOTSTRAP_USER_EMAIL
    Nobody

VARIABLES
    users,      \* emails with a users row
    identities, \* the account each identity is linked to, Nobody without a row
    login,      \* where each request stands
    operator,   \* the identity link_bootstrap_user has checked and not yet linked
    abandoned   \* history: accounts whose creator never linked its identity

vars == <<users, identities, login, operator, abandoned>>

Away == [at |-> "idle", subject |-> Nobody]
Emails == {EmailOf[s] : s \in Subjects} \cup {Local}

TypeOK ==
    /\ users \subseteq Emails /\ abandoned \subseteq Emails
    /\ identities \in [Subjects -> Emails \cup {Nobody}]
    /\ login \in [Logins -> [at : {"idle", "email", "create", "link"},
                             subject : Subjects \cup {Nobody}]]
    /\ operator \in Subjects \cup {Nobody}

Init ==
    /\ users = {} /\ identities = [s \in Subjects |-> Nobody]
    /\ login = [p \in Logins |-> Away] /\ operator = Nobody /\ abandoned = {}

Leave(p) == login' = [login EXCEPT ![p] = Away]
Email(p) == EmailOf[login[p].subject]

-----------------------------------------------------------------------------
\* get_user_by_auth_identity: an identity that is linked logs in and changes
\* nothing; only a first login goes on.
ResolveUser(p, s) ==
    /\ login[p].at = "idle" /\ identities[s] = Nobody
    /\ login' = [login EXCEPT ![p] = [at |-> "email", subject |-> s]]
    /\ UNCHANGED <<users, identities, operator, abandoned>>

\* An account found by its email is linked to the identity.
FaultLinkByEmail(p) == IF Email(p) \in users THEN "link" ELSE "create"
\* AccountConflictError: an account of this email is never linked by email.
AfterEmailLookup(p) == IF Email(p) \in users THEN "idle" ELSE "create"

LookUpEmail(p) ==
    /\ login[p].at = "email"
    /\ login' = [login EXCEPT ![p] = IF AfterEmailLookup(p) = "idle" THEN Away
                                     ELSE [@ EXCEPT !.at = AfterEmailLookup(p)]]
    /\ UNCHANGED <<users, identities, operator, abandoned>>

\* The two inserts are two statements; UNIQUE(email) refuses the loser of a
\* race, which reports DuplicateIdentityRaceError.
CreateUser(p) ==
    /\ login[p].at = "create"
    /\ \/ Email(p) \notin users /\ users' = users \cup {Email(p)}
          /\ login' = [login EXCEPT ![p].at = "link"]
       \/ Email(p) \in users /\ UNCHANGED users /\ Leave(p)
    /\ UNCHANGED <<identities, operator, abandoned>>

\* An INSERT OR REPLACE of the identity.
FaultReplaceIdentity(s, e) == identities' = [identities EXCEPT ![s] = e]
\* The row create_auth_identity inserts; UNIQUE(provider, provider_subject).
InsertIdentity(s, e) == identities[s] = Nobody /\ identities' = [identities EXCEPT ![s] = e]

LinkIdentity(p) ==
    /\ login[p].at = "link"
    /\ \/ InsertIdentity(login[p].subject, Email(p)) /\ UNCHANGED abandoned
       \/ /\ identities[login[p].subject] # Nobody
          /\ abandoned' = abandoned \cup {Email(p)} /\ UNCHANGED identities
    /\ Leave(p)
    /\ UNCHANGED <<users, operator>>

\* The request dies between two of its statements.
LoginDies(p) ==
    /\ login[p].at # "idle"
    /\ abandoned' = IF login[p].at = "link" THEN abandoned \cup {Email(p)} ELSE abandoned
    /\ Leave(p)
    /\ UNCHANGED <<users, identities, operator>>

-----------------------------------------------------------------------------
\* Every command of the local installation resolves its user first.
GetOrCreateLocalUser ==
    /\ Local \notin users
    /\ users' = users \cup {Local}
    /\ UNCHANGED <<identities, login, operator, abandoned>>

\* link_bootstrap_user refuses without a local account, for an identity that
\* is linked elsewhere, and when that account already has an identity.
MayLinkBootstrap(s) ==
    /\ Local \in users
    /\ identities[s] = Nobody
    /\ \A other \in Subjects : identities[other] # Local

CheckBootstrapLink(s) ==
    /\ operator = Nobody /\ MayLinkBootstrap(s)
    /\ operator' = s
    /\ UNCHANGED <<users, identities, login, abandoned>>

LinkBootstrapUser ==
    /\ operator # Nobody
    /\ InsertIdentity(operator, Local) \/ (identities[operator] # Nobody /\ UNCHANGED identities)
    /\ operator' = Nobody
    /\ UNCHANGED <<users, login, abandoned>>

Next ==
    \/ \E p \in Logins, s \in Subjects : ResolveUser(p, s)
    \/ \E p \in Logins : LookUpEmail(p) \/ CreateUser(p) \/ LinkIdentity(p) \/ LoginDies(p)
    \/ GetOrCreateLocalUser
    \/ \E s \in Subjects : CheckBootstrapLink(s)
    \/ LinkBootstrapUser

Spec == Init /\ [][Next]_vars

-----------------------------------------------------------------------------
\* Everything an account owns is reached through one identity: no two
\* identities ever resolve to the same account, whatever emails they carry.
AccountsAreNotShared ==
    \A s, t \in Subjects : identities[s] = identities[t] /\ s # t => identities[s] = Nobody

\* The email of s belongs to an account nobody can log in to and nobody is
\* about to: every login of s is an AccountConflictError.
LockedOut(s) ==
    /\ identities[s] = Nobody /\ EmailOf[s] \in users
    /\ \A t \in Subjects : identities[t] # EmailOf[s]
    /\ \A p \in Logins : ~(login[p].at = "link" /\ Email(p) = EmailOf[s])

\* Only a login that stopped between its two inserts locks a person out.
LockoutNeedsAbandonedLogin == \A s \in Subjects : LockedOut(s) => EmailOf[s] \in abandoned
=============================================================================
