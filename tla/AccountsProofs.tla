--------------------------- MODULE AccountsProofs ---------------------------
(***************************************************************************)
(* Proofs about FirstLogin and LocalToken as MCAccounts puts them beside   *)
(* HostedConnection: for any number of identities, requests, emails,       *)
(* commands and tokens.                                                    *)
(***************************************************************************)
EXTENDS MCAccounts, HostedConnectionProofs

(***************************************************************************)
(* First logins.                                                           *)
(***************************************************************************)
Email(p) == Identity!Email(p)
Linking(p) == login[p].at = "link"

\* What makes the two properties inductive: an account somebody is about to
\* link is there, unlinked and nobody else's; the operator's is unlinked; and
\* every account but the local one is linked, about to be, or abandoned.
LoginInv ==
    /\ Identity!TypeOK
    /\ \A p \in Logins : login[p].at # "idle" => login[p].subject \in Subjects
    /\ \A s \in Subjects : identities[s] # None => identities[s] \in users
    /\ \A p \in Logins : Linking(p) =>
          Email(p) \in users /\ \A s \in Subjects : identities[s] # Email(p)
    /\ \A p, q \in Logins : p # q /\ Linking(p) /\ Linking(q) => Email(p) # Email(q)
    /\ operator # None => "local@" \in users /\ \A s \in Subjects : identities[s] # "local@"
    /\ Identity!AccountsAreNotShared
    /\ \A e \in users \ {"local@"} :
          \/ e \in abandoned
          \/ \E s \in Subjects : identities[s] = e
          \/ \E p \in Logins : Linking(p) /\ Email(p) = e

LEMMA LoginInit == Identity!Init => LoginInv
BY AccountsAssumption
DEF Identity!Init, LoginInv, Identity!TypeOK, Identity!Away, Identity!Emails, Linking,
    Identity!AccountsAreNotShared

LEMMA LoginEmail ==
    ASSUME LoginInv, NEW p \in Logins, login[p].at # "idle"
    PROVE  Email(p) \in Identity!Emails /\ Email(p) # "local@" /\ Email(p) # None
BY AccountsAssumption DEF LoginInv, Email, Identity!Email, Identity!Emails

LEMMA LoginStep == LoginInv /\ [Identity!Next]_(Identity!vars) => LoginInv'
<1> SUFFICES ASSUME LoginInv, [Identity!Next]_(Identity!vars) PROVE LoginInv'
  OBVIOUS
<1> USE DEF LoginInv, Identity!TypeOK, Linking, Email, Identity!Email, Identity!AccountsAreNotShared
<1>0. ASSUME NEW p \in Logins, UNCHANGED <<users, identities, operator>>,
             NEW row \in [at : {"idle", "email", "create", "link"}, subject : Subjects \cup {None}],
             row.at # "link", row.at # "idle" => row.subject \in Subjects,
             login' = [login EXCEPT ![p] = row],
             abandoned \subseteq abandoned', abandoned' \subseteq Identity!Emails,
             Linking(p) => Email(p) \in abandoned'
      PROVE  LoginInv'
  <2>1. /\ login'[p] = row /\ \A q \in Logins : q # p => login'[q] = login[q]
        /\ login' \in [Logins -> [at : {"idle", "email", "create", "link"},
                                  subject : Subjects \cup {None}]]
    BY <1>0
  <2>2. \A q \in Logins : Linking(q)' => q # p /\ Linking(q) /\ Email(q)' = Email(q)
    BY <1>0, <2>1
  <2>3. \A e \in users \ {"local@"} :
           \/ e \in abandoned'
           \/ \E s \in Subjects : identities'[s] = e
           \/ \E q \in Logins : Linking(q)' /\ Email(q)' = e
    <3> SUFFICES ASSUME NEW e \in users \ {"local@"}, e \notin abandoned',
                        \A s \in Subjects : identities[s] # e
                 PROVE  \E q \in Logins : Linking(q)' /\ Email(q)' = e
      BY <1>0
    <3>1. PICK q \in Logins : Linking(q) /\ Email(q) = e
      BY <1>0
    <3> QED BY <1>0, <2>1, <3>1
  <2> QED BY <1>0, <2>1, <2>2, <2>3
<1>1. ASSUME NEW p \in Logins, NEW s \in Subjects, Identity!ResolveUser(p, s) PROVE LoginInv'
  <2> DEFINE row == [at |-> "email", subject |-> s]
  <2>1. /\ login' = [login EXCEPT ![p] = row] /\ ~Linking(p)
        /\ UNCHANGED <<users, identities, operator, abandoned>>
    BY <1>1 DEF Identity!ResolveUser
  <2>2. /\ row \in [at : {"idle", "email", "create", "link"}, subject : Subjects \cup {None}]
        /\ row.at = "email" /\ row.subject \in Subjects
    OBVIOUS
  <2> HIDE DEF row
  <2> QED BY <1>0, <2>1, <2>2
<1>2. ASSUME NEW p \in Logins, Identity!LookUpEmail(p) PROVE LoginInv'
  BY <1>2, LoginEmail DEF Identity!LookUpEmail, Identity!AfterEmailLookup, Identity!Away
<1>3. ASSUME NEW p \in Logins, Identity!CreateUser(p) PROVE LoginInv'
  BY <1>3, LoginEmail DEF Identity!CreateUser, Identity!Leave, Identity!Away
<1>4. ASSUME NEW p \in Logins, Identity!LinkIdentity(p) PROVE LoginInv'
  <2> DEFINE s == login[p].subject
  <2>1. /\ login' = [login EXCEPT ![p] = Identity!Away]
        /\ Identity!Away.at = "idle" /\ Identity!Away.subject = None
    BY <1>4 DEF Identity!LinkIdentity, Identity!Leave, Identity!Away
  <2>2. Linking(p) /\ s \in Subjects /\ users' = users /\ operator' = operator
    BY <1>4, LoginEmail DEF Identity!LinkIdentity
  <2>3. Email(p) \in users \ {"local@", None} /\ Email(p) \in Identity!Emails
    BY <2>2, LoginEmail
  <2>4. \A q \in Logins : q # p => login'[q] = login[q]
    BY <2>1
  <2>5. \A q \in Logins : login'[q].at # "idle" => q # p
    BY <2>1
  <2>8. login' \in [Logins -> [at : {"idle", "email", "create", "link"},
                               subject : Subjects \cup {None}]]
    BY <2>1 DEF Identity!Away
  <2>9. None \notin users
    BY AccountsAssumption DEF Identity!Emails
  <2>6. CASE Identity!InsertIdentity(s, Email(p)) /\ abandoned' = abandoned
    <3>1. identities' = [identities EXCEPT ![s] = Email(p)] /\ identities[s] = None
      BY <2>6 DEF Identity!InsertIdentity
    <3>2. /\ identities'[s] = Email(p)
          /\ \A t \in Subjects : t # s => identities'[t] = identities[t]
      BY <3>1, <2>2
    <3>3. Identity!TypeOK'
      <4>1. identities' \in [Subjects -> Identity!Emails \cup {None}]
        BY <2>2, <2>3, <3>1
      <4> QED BY <2>2, <2>6, <2>8, <4>1
    <3>4. Identity!AccountsAreNotShared'
      BY <2>2, <2>3, <3>2
    <3>5. \A q \in Logins : Linking(q)' =>
             Email(q)' \in users' /\ \A t \in Subjects : identities'[t] # Email(q)'
      BY <2>2, <2>3, <2>4, <2>5, <3>2
    <3>6. \A e \in (users \ {"local@"})' :
             \/ e \in abandoned'
             \/ \E t \in Subjects : identities'[t] = e
             \/ \E q \in Logins : Linking(q)' /\ Email(q)' = e
      <4> SUFFICES ASSUME NEW e \in users \ {"local@"}, e # Email(p)
                   PROVE  \/ e \in abandoned'
                          \/ \E t \in Subjects : identities'[t] = e
                          \/ \E q \in Logins : Linking(q)' /\ Email(q)' = e
        BY <2>2, <3>2
      <4>0. e # None
        BY <2>9
      <4>1. CASE e \in abandoned
        BY <4>1, <2>6
      <4>2. CASE \E t \in Subjects : identities[t] = e
        BY <4>2, <4>0, <3>1, <3>2
      <4>3. CASE \E q \in Logins : Linking(q) /\ Email(q) = e
        BY <4>3, <2>4
      <4> QED BY <4>1, <4>2, <4>3
    <3>7. operator' # None => \A t \in Subjects : identities'[t] # "local@"
      BY <2>2, <2>3, <3>2
    <3> QED BY <2>1, <2>2, <2>3, <2>4, <2>5, <3>2, <3>3, <3>4, <3>5, <3>6, <3>7
  <2>7. CASE identities[s] # None /\ abandoned' = abandoned \cup {Email(p)}
             /\ identities' = identities
    <3>1. Identity!TypeOK'
      BY <2>2, <2>3, <2>7, <2>8
    <3>2. \A q \in Logins : Linking(q)' =>
             Email(q)' \in users' /\ \A t \in Subjects : identities'[t] # Email(q)'
      BY <2>2, <2>4, <2>5, <2>7
    <3>3. \A e \in (users \ {"local@"})' :
             \/ e \in abandoned'
             \/ \E t \in Subjects : identities'[t] = e
             \/ \E q \in Logins : Linking(q)' /\ Email(q)' = e
      <4> SUFFICES ASSUME NEW e \in users \ {"local@"}, e # Email(p), e \notin abandoned,
                          \A t \in Subjects : identities[t] # e
                   PROVE  \E q \in Logins : Linking(q)' /\ Email(q)' = e
        BY <2>2, <2>7
      <4>1. PICK q \in Logins : Linking(q) /\ Email(q) = e
        OBVIOUS
      <4> QED BY <4>1, <2>4
    <3> QED BY <2>1, <2>2, <2>4, <2>5, <2>7, <3>1, <3>2, <3>3
  <2> QED BY <1>4, <2>6, <2>7 DEF Identity!LinkIdentity
<1>5. ASSUME NEW p \in Logins, Identity!LoginDies(p) PROVE LoginInv'
  <2>1. /\ Identity!Away \in [at : {"idle", "email", "create", "link"},
                             subject : Subjects \cup {None}]
        /\ Identity!Away.at = "idle"
    BY DEF Identity!Away
  <2>2. /\ login' = [login EXCEPT ![p] = Identity!Away]
        /\ UNCHANGED <<users, identities, operator>>
        /\ abandoned' = IF Linking(p) THEN abandoned \cup {Email(p)} ELSE abandoned
    BY <1>5 DEF Identity!LoginDies, Identity!Leave
  <2>3. abandoned' \subseteq Identity!Emails
    BY <1>5, <2>2, LoginEmail DEF Identity!LoginDies
  <2> QED BY <1>0, <2>1, <2>2, <2>3
<1>6. ASSUME Identity!GetOrCreateLocalUser PROVE LoginInv'
  BY <1>6 DEF Identity!GetOrCreateLocalUser, Identity!Emails
<1>7. ASSUME NEW s \in Subjects, Identity!CheckBootstrapLink(s) PROVE LoginInv'
  BY <1>7 DEF Identity!CheckBootstrapLink, Identity!MayLinkBootstrap
<1>8. ASSUME Identity!LinkBootstrapUser PROVE LoginInv'
  <2>0. None \notin users
    BY AccountsAssumption DEF Identity!Emails
  <2>1. /\ operator \in Subjects /\ operator' = None /\ users' = users
        /\ login' = login /\ abandoned' = abandoned
    BY <1>8 DEF Identity!LinkBootstrapUser
  <2>2. "local@" \in users /\ \A s \in Subjects : identities[s] # "local@"
    BY <1>8 DEF Identity!LinkBootstrapUser
  <2>3. \A p \in Logins : Linking(p) => Email(p) # "local@"
    BY LoginEmail
  <2>4. "local@" \in Identity!Emails
    BY DEF Identity!Emails
  <2>5. CASE Identity!InsertIdentity(operator, "local@")
    <3>1. /\ identities' = [identities EXCEPT ![operator] = "local@"]
          /\ identities[operator] = None
      BY <2>5 DEF Identity!InsertIdentity
    <3>2. /\ identities'[operator] = "local@"
          /\ \A t \in Subjects : t # operator => identities'[t] = identities[t]
      BY <2>1, <3>1
    <3>3. Identity!TypeOK'
      BY <2>1, <2>4, <3>1
    <3>4. Identity!AccountsAreNotShared'
      BY <2>1, <2>2, <3>2
    <3>5. \A q \in Logins : Linking(q) => \A t \in Subjects : identities'[t] # Email(q)
      BY <2>3, <3>2
    <3>6. \A e \in users : (\E t \in Subjects : identities[t] = e)
                             => \E t \in Subjects : identities'[t] = e
      BY <3>1, <3>2, <2>0
    <3>7. \A s \in Subjects : identities'[s] # None => identities'[s] \in users
      BY <2>2, <3>2
    <3> QED BY <2>1, <3>3, <3>4, <3>5, <3>6, <3>7
  <2>6. CASE identities' = identities
    BY <2>1, <2>6
  <2> QED BY <1>8, <2>5, <2>6 DEF Identity!LinkBootstrapUser
<1>9. ASSUME UNCHANGED Identity!vars PROVE LoginInv'
  BY <1>9 DEF Identity!vars
<1> QED BY <1>1, <1>2, <1>3, <1>4, <1>5, <1>6, <1>7, <1>8, <1>9 DEF Identity!Next

-----------------------------------------------------------------------------

(***************************************************************************)
(* The token of the local installation.                                    *)
(***************************************************************************)
Made == 1 .. made
Saves(c) == cmd[c].at \in {"truncate", "fill"}

TokenTypes ==
    /\ made \in 0 .. LocalTokens /\ urls \in 0 .. Local!MaxUrls /\ pending \in 0 .. urls
    /\ flock \in Commands \cup {None}
    /\ file \in Made \cup {None, Torn}
    /\ good \subseteq Made /\ spent \subseteq Made /\ old \subseteq Made /\ ended \subseteq old
    /\ cmd \in [Commands -> [at : Local!Stages, token : Made \cup {None},
                             from : Made \cup {None}, url : 0 .. Local!MaxUrls]]

\* One process at a time is between its second look and the end of its save, or
\* the loss of what it was answered.
LockInv ==
    \A c \in Commands :
        /\ cmd[c].at \in {"read", "refresh"} \/ cmd[c].from # None => flock = c
        /\ cmd[c].from # None => Saves(c)

\* A token about to be saved is good and nowhere else yet; one in the file is
\* good, or spent, or its successor is on its way to the file.
SavesInv ==
    /\ \A c \in Commands : Saves(c) =>
          /\ cmd[c].token \in good /\ cmd[c].token # file
          /\ \A d \in Commands : d # c /\ (Saves(d) \/ cmd[d].at = "refresh")
                => cmd[d].token # cmd[c].token
    /\ file \in good \cup spent \cup {None, Torn} \cup {cmd[c].from : c \in Commands}

TokenInv == TokenTypes /\ LockInv /\ SavesInv /\ Local!SpentTokenIsNotPresented

LEMMA TokenInit == Local!Init => TokenInv
<1> SUFFICES ASSUME Local!Init PROVE TokenInv
  OBVIOUS
<1>1. \A c \in Commands : cmd[c] = Local!Asleep
  BY DEF Local!Init
<1>2. Local!Asleep.at = "idle" /\ Local!Asleep.from = None
  BY DEF Local!Asleep
<1>3. TokenTypes
  BY AccountsAssumption
  DEF Local!Init, TokenTypes, Made, Local!Asleep, Local!Stages, Local!MaxUrls
<1>4. LockInv /\ Local!SpentTokenIsNotPresented
  BY <1>1, <1>2 DEF LockInv, Local!SpentTokenIsNotPresented, Saves
<1>5. SavesInv
  BY <1>1, <1>2 DEF Local!Init, SavesInv, Saves
<1> QED BY <1>3, <1>4, <1>5 DEF TokenInv

\* A process that leaves what the invariant reads alone, but for where it stands.
LEMMA TokenTypesStep == TokenInv /\ [Local!Next]_(Local!vars) => TokenTypes'
<1> SUFFICES ASSUME TokenTypes, TokenInv, [Local!Next]_(Local!vars) PROVE TokenTypes'
  BY DEF TokenInv
<1> USE AccountsAssumption
    DEF TokenTypes, Made, Local!Stages, Local!tiktok, Local!Goto, Local!Exit, Local!Unlock,
        Local!Asleep, Local!Tokens, Local!LoadToken, Local!MaxUrls
<1>0. Local!Asleep \in [at : Local!Stages, token : Made \cup {None},
                         from : Made \cup {None}, url : 0 .. Local!MaxUrls]
  OBVIOUS
<1>1. ASSUME NEW c \in Commands,
             Local!GetAccessToken(c) \/ Local!RefreshLock(c) \/ Local!RereadToken(c)
      PROVE  TokenTypes'
  BY <1>1 DEF Local!GetAccessToken, Local!RefreshLock, Local!RereadToken
<1>2. ASSUME NEW c \in Commands, Local!RefreshAnswered(c) PROVE TokenTypes'
  BY <1>2 DEF Local!RefreshAnswered
<1>3. ASSUME NEW c \in Commands, Local!RefreshRejected(c) \/ Local!RefreshUnanswered(c)
      PROVE  TokenTypes'
  <2>1. UNCHANGED <<file, urls, pending>> /\ cmd' = [cmd EXCEPT ![c] = Local!Asleep]
    BY <1>3 DEF Local!RefreshRejected, Local!RefreshUnanswered
  <2>2. CASE UNCHANGED Local!tiktok
    BY <1>0, <1>3, <2>1, <2>2 DEF Local!RefreshRejected, Local!RefreshUnanswered
  <2>3. CASE /\ cmd[c].token \in good /\ made' = made + 1 /\ made < LocalTokens
             /\ UNCHANGED <<old, ended>>
             /\ good' = (good \ {cmd[c].token}) \cup {made + 1}
             /\ spent' = spent \cup {cmd[c].token}
    <3>1. Made \subseteq Made' /\ made' \in 0 .. LocalTokens
      BY <2>3
    <3>2. good \subseteq Made /\ cmd[c].token \in good
      BY <2>3
    <3>5. made + 1 \in Made'
      BY <2>3
    <3>3. cmd' \in [Commands -> [at : Local!Stages, token : Made' \cup {None},
                                from : Made' \cup {None}, url : 0 .. Local!MaxUrls]]
      BY <1>0, <2>1, <3>1
    <3>4. good' \subseteq Made' /\ spent' \subseteq Made' /\ file' \in Made' \cup {None, Torn}
      BY <2>1, <2>3, <3>1, <3>2, <3>5
    <3>6. old' \subseteq Made' /\ ended' \subseteq old' /\ flock' \in Commands \cup {None}
      BY <1>3, <2>3, <3>1 DEF Local!RefreshRejected, Local!RefreshUnanswered
    <3> QED BY <2>1, <3>1, <3>3, <3>4, <3>6
  <2> QED BY <1>3, <2>2, <2>3 DEF Local!RefreshRejected, Local!RefreshUnanswered
<1>4. ASSUME NEW c \in Commands, Local!Truncate(c) PROVE TokenTypes'
  BY <1>4 DEF Local!Truncate
<1>5. ASSUME NEW c \in Commands, Local!Fill(c) PROVE TokenTypes'
  BY <1>5 DEF Local!Fill, TokenInv, SavesInv, Saves
<1>6. ASSUME NEW c \in Commands, Local!AuthorizeInteractive(c) \/ Local!AuthorizeFails(c)
      PROVE  TokenTypes'
  BY <1>6 DEF Local!AuthorizeInteractive, Local!AuthorizeFails
<1>7. ASSUME NEW c \in Commands, Local!ExchangeCode(c) PROVE TokenTypes'
  BY <1>7 DEF Local!ExchangeCode
<1>8. ASSUME NEW c \in Commands, Local!CompleteManualAuthorization(c) PROVE TokenTypes'
  <2>1. PICK u \in 1 .. urls :
           cmd' = [cmd EXCEPT ![c].at = "clear", ![c].url = IF u = pending THEN u ELSE 0]
    BY <1>8 DEF Local!CompleteManualAuthorization
  <2> DEFINE url == IF u = pending THEN u ELSE 0
             row == [cmd[c] EXCEPT !.at = "clear", !.url = url]
             Rows == [at : Local!Stages, token : Made \cup {None}, from : Made \cup {None},
                      url : 0 .. Local!MaxUrls]
  <2>2. url \in 0 .. Local!MaxUrls
    OBVIOUS
  <2> HIDE DEF url
  <2>3. cmd[c] \in Rows
    OBVIOUS
  <2>4. row \in Rows
    BY <2>2, <2>3
  <2>5. cmd' = [cmd EXCEPT ![c] = row]
    BY <2>1, <2>3 DEF url
  <2> HIDE DEF row
  <2>6. UNCHANGED <<made, urls, pending, flock, file, good, old, ended, spent>>
    BY <1>8 DEF Local!CompleteManualAuthorization
  <2> QED BY <2>4, <2>5, <2>6
<1>9. ASSUME NEW c \in Commands, Local!ClearPendingAuth(c) \/ Local!CompareState(c)
      PROVE  TokenTypes'
  BY <1>9 DEF Local!ClearPendingAuth, Local!CompareState
<1>10. ASSUME NEW c \in Commands, Local!Die(c) PROVE TokenTypes'
  BY <1>0, <1>10 DEF Local!Die
<1>11. CASE \/ Local!StartManualAuthorization \/ Local!AccessExpires
            \/ Local!RefreshExpires \/ UNCHANGED Local!vars
  <2>1. /\ UNCHANGED <<file, cmd, flock, good, made, spent>>
        /\ urls' \in 0 .. Local!MaxUrls /\ pending' \in 0 .. urls'
        /\ old' \subseteq Made /\ ended' \subseteq old'
    <3>1. CASE Local!AccessExpires
      <4>1. Local!LoadToken = file /\ file \in Made
        BY <3>1 DEF Local!AccessExpires
      <4> QED BY <3>1, <4>1 DEF Local!AccessExpires
    <3>2. CASE Local!StartManualAuthorization
      BY <3>2 DEF Local!StartManualAuthorization
    <3>3. CASE Local!RefreshExpires
      <4>1. None \notin Made
        OBVIOUS
      <4>2. None \notin old
        BY <4>1
      <4>3. file \in old
        BY <3>3, <4>2 DEF Local!RefreshExpires
      <4> QED BY <3>3, <4>3 DEF Local!RefreshExpires
    <3>4. CASE UNCHANGED Local!vars
      BY <3>4 DEF Local!vars
    <3> QED BY <1>11, <3>1, <3>2, <3>3, <3>4
  <2> QED BY <2>1
<1> QED
  BY <1>1, <1>2, <1>3, <1>4, <1>5, <1>6, <1>7, <1>8, <1>9, <1>10, <1>11
  DEF Local!Next, Local!Refreshing, Local!Saving, Local!Authorizing

-----------------------------------------------------------------------------
\* A step of c that keeps its token out of play, and touches no token.
LEMMA PlainStep ==
    ASSUME TokenInv, NEW c \in Commands, UNCHANGED <<file, good, made>>,
           \A d \in Commands : d # c => cmd'[d] = cmd[d],
           cmd'[c].at \notin {"truncate", "fill", "refresh"}, cmd'[c].from = None,
           cmd'[c].at = "read" => flock' = c,
           flock' = flock \/ flock \in {c, None},
           spent \subseteq spent', cmd[c].from \in spent' \cup {None}
    PROVE  LockInv' /\ SavesInv' /\ Local!SpentTokenIsNotPresented'
<1>1. \A d \in Commands : d # c => (Saves(d)' <=> Saves(d))
  BY DEF Saves
<1>2. ~Saves(c)'
  BY DEF Saves
<1>3. LockInv'
  BY <1>1, <1>2, AccountsAssumption DEF TokenInv, LockInv
<1>4. Local!SpentTokenIsNotPresented'
  BY DEF TokenInv, Local!SpentTokenIsNotPresented
<1>5. SavesInv'
  BY <1>1, <1>2 DEF TokenInv, SavesInv
<1> QED BY <1>3, <1>4, <1>5

LEMMA TokenStep == TokenInv /\ [Local!Next]_(Local!vars) => TokenInv'
<1> SUFFICES ASSUME TokenInv, [Local!Next]_(Local!vars)
             PROVE  LockInv' /\ SavesInv' /\ Local!SpentTokenIsNotPresented'
  BY TokenTypesStep DEF TokenInv
<1> DEFINE Kept == LockInv' /\ SavesInv' /\ Local!SpentTokenIsNotPresented'
<1>0. /\ Local!Asleep.at = "idle" /\ Local!Asleep.from = None
      /\ \A c \in Commands : ~Saves(c) => cmd[c].from = None
      /\ \A c \in Commands : flock # c => cmd[c].from = None
      /\ made \in Nat /\ good \subseteq Made /\ spent \subseteq Made
      /\ file \in Made \cup {None, Torn} /\ old \subseteq Made
      /\ None \notin Made /\ Torn \notin Made /\ made + 1 \notin Made
  BY AccountsAssumption DEF Local!Asleep, TokenInv, LockInv, TokenTypes, Made
<1>1. ASSUME NEW c \in Commands, cmd[c].from = None \/ cmd[c].from \in spent',
             Local!Exit(c), Local!Unlock(c), UNCHANGED <<file, good, made>>, spent \subseteq spent'
      PROVE  Kept
  <2>1. cmd'[c] = Local!Asleep /\ \A d \in Commands : d # c => cmd'[d] = cmd[d]
    BY <1>1 DEF Local!Exit, TokenInv, TokenTypes
  <2>2. flock' = flock \/ flock \in {c, None}
    BY <1>1 DEF Local!Unlock
  <2> QED BY <1>0, <1>1, <2>1, <2>2, PlainStep
<1>2. ASSUME NEW c \in Commands, ~Saves(c), cmd[c].at # "refresh",
             NEW stage \in {"idle", "lock", "authorize", "clear", "compare", "read"},
             NEW row, row.at = stage, row.from = None,
             cmd' = [cmd EXCEPT ![c] = row],
             UNCHANGED <<file, good, made, spent>>,
             IF stage = "read" THEN flock = None /\ flock' = c ELSE UNCHANGED flock
      PROVE  Kept
  <2>1. cmd'[c] = row /\ \A d \in Commands : d # c => cmd'[d] = cmd[d]
    BY <1>2 DEF TokenInv, TokenTypes
  <2> QED BY <1>0, <1>2, <2>1, PlainStep
<1>3. ASSUME NEW c \in Commands, Local!GetAccessToken(c) \/ Local!RefreshLock(c) PROVE Kept
  <2>1. CASE Local!GetAccessToken(c)
    <3> DEFINE row == [cmd[c] EXCEPT !.at = "lock"]
    <3>1. row.at = "lock" /\ row.from = None /\ cmd' = [cmd EXCEPT ![c] = row]
      BY <1>0, <2>1 DEF Local!GetAccessToken, Local!Goto, Saves, TokenInv, TokenTypes
    <3> QED BY <1>2, <2>1, <3>1 DEF Local!GetAccessToken, Saves, Local!tiktok
  <2>2. CASE Local!RefreshLock(c)
    <3> DEFINE row == [cmd[c] EXCEPT !.at = "read"]
    <3>1. row.at = "read" /\ row.from = None /\ cmd' = [cmd EXCEPT ![c] = row]
      BY <1>0, <2>2 DEF Local!RefreshLock, Local!Goto, Saves, TokenInv, TokenTypes
    <3> QED BY <1>2, <2>2, <3>1 DEF Local!RefreshLock, Local!LockFree, Saves, Local!tiktok
  <2> QED BY <1>3, <2>1, <2>2
<1>4. ASSUME NEW c \in Commands, Local!RereadToken(c) PROVE Kept
  <2>1. CASE Local!Exit(c) /\ Local!Unlock(c)
    BY <1>0, <1>1, <1>4, <2>1 DEF Local!RereadToken, Local!tiktok, Saves
  <2>2. CASE /\ Local!LoadToken \in old \ ended
             /\ cmd' = [cmd EXCEPT ![c].at = "refresh", ![c].token = Local!LoadToken]
             /\ UNCHANGED flock
    <3>1. cmd[c].at = "read" /\ flock = c /\ UNCHANGED <<file, good, spent, made>>
      BY <1>4 DEF Local!RereadToken, Local!tiktok, TokenInv, LockInv
    <3>2. \A d \in Commands : cmd[d].from = None
      BY <1>0, <3>1 DEF Saves
    <3>3. Local!LoadToken = file /\ file \in Made
      BY <1>0, <2>2 DEF Local!LoadToken
    <3>4. file \in good \cup spent
      BY <1>0, <3>2, <3>3 DEF TokenInv, SavesInv
    <3>5. /\ cmd'[c].at = "refresh" /\ cmd'[c].token = file /\ cmd'[c].from = None
          /\ \A d \in Commands : d # c => cmd'[d] = cmd[d]
      BY <2>2, <3>2, <3>3 DEF TokenInv, TokenTypes
    <3>6. ~Saves(c)' /\ ~Saves(c) /\ \A d \in Commands : d # c => (Saves(d)' <=> Saves(d))
      BY <3>1, <3>5 DEF Saves
    <3>7. LockInv'
      BY <2>2, <3>1, <3>5, <3>6 DEF TokenInv, LockInv
    <3>8. SavesInv'
      BY <3>1, <3>4, <3>5, <3>6 DEF TokenInv, SavesInv
    <3>9. Local!SpentTokenIsNotPresented'
      BY <3>1, <3>4, <3>5 DEF TokenInv, Local!SpentTokenIsNotPresented
    <3> QED BY <3>7, <3>8, <3>9
  <2> QED BY <1>4, <2>1, <2>2 DEF Local!RereadToken
<1>5. ASSUME NEW c \in Commands, Local!RefreshAnswered(c) PROVE Kept
  <2> DEFINE t == cmd[c].token
  <2>1. /\ flock = c /\ t \in good /\ t # None
        /\ UNCHANGED <<file, flock, spent>> /\ good' = (good \ {t}) \cup {made + 1}
    BY <1>0, <1>5 DEF Local!RefreshAnswered, TokenInv, LockInv
  <2>2. /\ cmd'[c].at = "truncate" /\ cmd'[c].from = t /\ cmd'[c].token = made + 1
        /\ \A d \in Commands : d # c => cmd'[d] = cmd[d]
    BY <1>5 DEF Local!RefreshAnswered, TokenInv, TokenTypes
  <2>3. cmd[c].at = "refresh" /\ ~Saves(c) /\ Saves(c)'
    BY <1>5, <2>2 DEF Local!RefreshAnswered, Saves
  <2>4. \A d \in Commands : d # c => (Saves(d)' <=> Saves(d)) /\ cmd[d].at # "refresh"
    BY <1>0, <2>1, <2>2 DEF Saves, TokenInv, LockInv
  <2>5. \A d \in Commands : Saves(d) => cmd[d].token \in good /\ cmd[d].token # t
    BY <2>3 DEF TokenInv, SavesInv, Saves
  <2>6. LockInv'
    BY <2>1, <2>2, <2>3, <2>4 DEF TokenInv, LockInv
  <2>7. Local!SpentTokenIsNotPresented'
    BY <2>2, <2>4 DEF Local!SpentTokenIsNotPresented
  <2>8. \A d \in Commands : cmd[d].token # made + 1
    BY <1>0, AccountsAssumption DEF TokenInv, TokenTypes
  <2>9. \A d \in Commands : Saves(d)' =>
           /\ cmd'[d].token \in good' /\ cmd'[d].token # file'
           /\ \A e \in Commands : e # d /\ (Saves(e)' \/ cmd'[e].at = "refresh")
                 => cmd'[e].token # cmd'[d].token
    <3> SUFFICES ASSUME NEW d \in Commands, Saves(d)'
                 PROVE  /\ cmd'[d].token \in good' /\ cmd'[d].token # file'
                        /\ \A e \in Commands : e # d /\ (Saves(e)' \/ cmd'[e].at = "refresh")
                              => cmd'[e].token # cmd'[d].token
      OBVIOUS
    <3>1. CASE d = c
      BY <1>0, <2>1, <2>2, <2>8, <3>1, AccountsAssumption
    <3>2. CASE d # c
      BY <2>1, <2>2, <2>4, <2>5, <2>8, <3>2 DEF TokenInv, SavesInv
    <3> QED BY <3>1, <3>2
  <2>10. file' \in good' \cup spent' \cup {None, Torn} \cup {cmd'[d].from : d \in Commands}
    <3>1. cmd[c].from = None /\ \A d \in Commands : cmd[d].from = None
      BY <1>0, <2>1, <2>3
    <3>2. file \in good \cup spent \cup {None, Torn}
      BY <3>1 DEF TokenInv, SavesInv
    <3> QED BY <2>1, <2>2, <3>2
  <2> QED BY <2>6, <2>7, <2>9, <2>10 DEF SavesInv
<1>6. ASSUME NEW c \in Commands, Local!RefreshRejected(c) \/ Local!RefreshUnanswered(c) PROVE Kept
  <2> DEFINE t == cmd[c].token
  <2>1. /\ cmd[c].at = "refresh" /\ flock = c /\ ~Saves(c) /\ cmd[c].from = None
        /\ Local!Exit(c) /\ Local!Unlock(c) /\ UNCHANGED file
    BY <1>0, <1>6 DEF Local!RefreshRejected, Local!RefreshUnanswered, TokenInv, LockInv, Saves
  <2>2. CASE UNCHANGED <<good, made, spent>>
    BY <1>1, <2>1, <2>2
  <2>3. CASE /\ good' = (good \ {t}) \cup {made + 1} /\ spent' = spent \cup {t}
    <3>1. cmd'[c] = Local!Asleep /\ \A d \in Commands : d # c => cmd'[d] = cmd[d]
      BY <2>1 DEF Local!Exit, TokenInv, TokenTypes
    <3>2. /\ ~Saves(c)'
          /\ \A d \in Commands : d # c => (Saves(d)' <=> Saves(d)) /\ cmd[d].at # "refresh"
      BY <1>0, <2>1, <3>1 DEF Saves, TokenInv, LockInv
    <3>3. \A d \in Commands : Saves(d) => cmd[d].token # t
      BY <2>1 DEF TokenInv, SavesInv
    <3>4. LockInv'
      BY <1>0, <2>1, <3>1, <3>2 DEF Local!Unlock, TokenInv, LockInv
    <3>5. SavesInv'
      BY <1>0, <2>1, <2>3, <3>1, <3>2, <3>3 DEF TokenInv, SavesInv
    <3>6. Local!SpentTokenIsNotPresented'
      BY <1>0, <3>1, <3>2 DEF Local!SpentTokenIsNotPresented
    <3> QED BY <3>4, <3>5, <3>6
  <2> QED BY <1>6, <2>2, <2>3 DEF Local!RefreshRejected, Local!RefreshUnanswered, Local!tiktok
<1>7. ASSUME NEW c \in Commands, Local!Truncate(c) PROVE Kept
  <2>1. /\ Saves(c) /\ file' = Torn /\ UNCHANGED <<flock, good, made, spent>>
        /\ cmd'[c].at = "fill" /\ cmd'[c].token = cmd[c].token /\ cmd'[c].from = cmd[c].from
        /\ \A d \in Commands : d # c => cmd'[d] = cmd[d]
    BY <1>7 DEF Local!Truncate, Local!Goto, Saves, Local!tiktok, TokenInv, TokenTypes
  <2>2. \A d \in Commands : Saves(d)' <=> Saves(d)
    BY <2>1 DEF Saves
  <2>3. LockInv' /\ Local!SpentTokenIsNotPresented'
    BY <2>1, <2>2 DEF TokenInv, LockInv, Local!SpentTokenIsNotPresented
  <2>4. \A d \in Commands : Saves(d) => cmd'[d].token # Torn
    BY <1>0, <2>1 DEF TokenInv, SavesInv, TokenTypes
  <2>5. SavesInv'
    BY <2>1, <2>2, <2>4 DEF TokenInv, SavesInv
  <2> QED BY <2>3, <2>5
<1>8. ASSUME NEW c \in Commands, Local!Fill(c) PROVE Kept
  <2>1. /\ Saves(c) /\ (file' = cmd[c].token \/ file' = Torn)
        /\ Local!Exit(c) /\ Local!Unlock(c) /\ UNCHANGED <<good, made, spent>>
    BY <1>8 DEF Local!Fill, Saves, Local!tiktok
  <2>2. cmd'[c] = Local!Asleep /\ \A d \in Commands : d # c => cmd'[d] = cmd[d]
    BY <2>1 DEF Local!Exit, TokenInv, TokenTypes
  <2>3. ~Saves(c)' /\ \A d \in Commands : d # c => (Saves(d)' <=> Saves(d))
    BY <1>0, <2>2 DEF Saves
  <2>4. LockInv'
    BY <1>0, <2>1, <2>2, <2>3, AccountsAssumption DEF Local!Unlock, TokenInv, LockInv
  <2>5. Local!SpentTokenIsNotPresented'
    BY <1>0, <2>1, <2>2 DEF TokenInv, Local!SpentTokenIsNotPresented
  <2>6. cmd[c].token \in good /\ \A d \in Commands : Saves(d) => cmd[d].token # Torn
    BY <1>0, <2>1 DEF TokenInv, SavesInv, TokenTypes
  <2>7. SavesInv'
    <3>1. \A d \in Commands : Saves(d)' =>
             /\ cmd'[d].token \in good' /\ cmd'[d].token # file'
             /\ \A e \in Commands : e # d /\ (Saves(e)' \/ cmd'[e].at = "refresh")
                   => cmd'[e].token # cmd'[d].token
      <4> SUFFICES ASSUME NEW d \in Commands, Saves(d)'
                   PROVE  /\ cmd'[d].token \in good' /\ cmd'[d].token # file'
                          /\ \A e \in Commands : e # d /\ (Saves(e)' \/ cmd'[e].at = "refresh")
                                => cmd'[e].token # cmd'[d].token
        OBVIOUS
      <4>1. d # c /\ Saves(d) /\ cmd'[d] = cmd[d]
        BY <2>2, <2>3
      <4>2. cmd[d].token \in good /\ cmd[d].token # file' /\ cmd[c].token # cmd[d].token
        BY <2>1, <2>6, <4>1 DEF TokenInv, SavesInv
      <4>3. \A e \in Commands : (Saves(e)' \/ cmd'[e].at = "refresh") => e # c /\ cmd'[e] = cmd[e]
        BY <1>0, <2>2, <2>3
      <4> QED BY <2>1, <2>3, <4>1, <4>2, <4>3 DEF TokenInv, SavesInv
    <3>2. file' \in good' \cup spent' \cup {None, Torn} \cup {cmd'[d].from : d \in Commands}
      BY <2>1, <2>6
    <3> QED BY <3>1, <3>2 DEF SavesInv
  <2> QED BY <2>4, <2>5, <2>7
<1>9. ASSUME NEW c \in Commands, Local!Authorizing(c), ~Local!ExchangeCode(c) PROVE Kept
  <2>1. UNCHANGED <<file, flock, good, made, spent>> /\ ~Saves(c) /\ cmd[c].at # "refresh"
    BY <1>9 DEF Local!Authorizing, Local!AuthorizeInteractive, Local!AuthorizeFails,
                Local!CompleteManualAuthorization,
                Local!ClearPendingAuth, Local!CompareState, Saves, Local!tiktok
  <2>2. PICK row : /\ cmd' = [cmd EXCEPT ![c] = row] /\ row.from = None
                   /\ row.at \in {"idle", "authorize", "clear", "compare"}
    <3>1. cmd[c].from = None
      BY <1>0, <2>1
    <3>2. \A stage \in {"authorize", "clear", "compare"}, url \in Nat :
             /\ [cmd[c] EXCEPT !.at = stage].at = stage
             /\ [cmd[c] EXCEPT !.at = stage].from = None
             /\ [cmd[c] EXCEPT !.at = stage, !.url = url].at = stage
             /\ [cmd[c] EXCEPT !.at = stage, !.url = url].from = None
      BY <3>1 DEF TokenInv, TokenTypes
    <3>3. CASE Local!CompleteManualAuthorization(c)
      <4>1. PICK u \in 1 .. urls :
               cmd' = [cmd EXCEPT ![c].at = "clear", ![c].url = IF u = pending THEN u ELSE 0]
        BY <3>3 DEF Local!CompleteManualAuthorization
      <4>2. PICK url \in Nat : url = IF u = pending THEN u ELSE 0
        BY DEF TokenInv, TokenTypes
      <4>3. cmd' = [cmd EXCEPT ![c] = [cmd[c] EXCEPT !.at = "clear", !.url = url]]
        BY <4>1, <4>2 DEF TokenInv, TokenTypes
      <4> DEFINE new == [cmd[c] EXCEPT !.at = "clear", !.url = url]
      <4>4. new.at = "clear" /\ new.from = None /\ cmd' = [cmd EXCEPT ![c] = new]
        BY <3>2, <4>3
      <4> HIDE DEF new
      <4> QED BY <4>4
    <3> QED BY <1>0, <1>9, <3>2, <3>3
            DEF Local!Authorizing, Local!AuthorizeInteractive, Local!AuthorizeFails,
                Local!ClearPendingAuth,
                Local!CompareState, Local!Goto, Local!Exit
  <2> QED BY <1>2, <2>1, <2>2
<1>10. ASSUME NEW c \in Commands, Local!ExchangeCode(c) PROVE Kept
  <2>1. /\ cmd[c].at = "authorize" /\ UNCHANGED <<file, flock, spent>>
        /\ good' = good \cup {made + 1}
        /\ cmd'[c].at = "truncate" /\ cmd'[c].token = made + 1 /\ cmd'[c].from = cmd[c].from
        /\ \A d \in Commands : d # c => cmd'[d] = cmd[d]
    BY <1>10 DEF Local!ExchangeCode, TokenInv, TokenTypes
  <2>2. /\ ~Saves(c) /\ Saves(c)' /\ cmd'[c].from = None
        /\ \A d \in Commands : d # c => (Saves(d)' <=> Saves(d))
    BY <1>0, <2>1 DEF Saves
  <2>3. LockInv' /\ Local!SpentTokenIsNotPresented'
    BY <2>1, <2>2 DEF TokenInv, LockInv, Local!SpentTokenIsNotPresented
  <2>4. \A d \in Commands : cmd[d].token # made + 1
    BY <1>0, AccountsAssumption DEF TokenInv, TokenTypes
  <2>5. file # made + 1
    BY <1>0, AccountsAssumption
  <2>6. SavesInv'
    <3>1. \A d \in Commands : Saves(d)' =>
             /\ cmd'[d].token \in good' /\ cmd'[d].token # file'
             /\ \A e \in Commands : e # d /\ (Saves(e)' \/ cmd'[e].at = "refresh")
                   => cmd'[e].token # cmd'[d].token
      <4> SUFFICES ASSUME NEW d \in Commands, Saves(d)'
                   PROVE  /\ cmd'[d].token \in good' /\ cmd'[d].token # file'
                          /\ \A e \in Commands : e # d /\ (Saves(e)' \/ cmd'[e].at = "refresh")
                                => cmd'[e].token # cmd'[d].token
        OBVIOUS
      <4>1. CASE d = c
        BY <2>1, <2>2, <2>4, <2>5, <4>1
      <4>2. CASE d # c
        BY <2>1, <2>2, <2>4, <4>2 DEF TokenInv, SavesInv
      <4> QED BY <4>1, <4>2
    <3>2. file' \in good' \cup spent' \cup {None, Torn} \cup {cmd'[d].from : d \in Commands}
      <4>1. \A d \in Commands : cmd'[d].from = cmd[d].from
        BY <2>1
      <4> QED BY <2>1, <4>1 DEF TokenInv, SavesInv
    <3> QED BY <3>1, <3>2 DEF SavesInv
  <2> QED BY <2>3, <2>6
<1>11. ASSUME NEW c \in Commands, Local!Die(c) PROVE Kept
  BY <1>0, <1>1, <1>11 DEF Local!Die
<1>12. CASE \/ Local!StartManualAuthorization \/ Local!AccessExpires
            \/ Local!RefreshExpires \/ UNCHANGED Local!vars
  <2>1. UNCHANGED <<file, flock, cmd, good, made, spent>>
    BY <1>12 DEF Local!StartManualAuthorization, Local!AccessExpires, Local!RefreshExpires,
                 Local!vars, Local!tiktok
  <2> QED BY <2>1 DEF TokenInv, LockInv, SavesInv, Local!SpentTokenIsNotPresented, Saves
<1> QED
  BY <1>3, <1>4, <1>5, <1>6, <1>7, <1>8, <1>9, <1>10, <1>11, <1>12
  DEF Local!Next, Local!Refreshing, Local!Saving


(***************************************************************************)
(* The three side by side.                                                 *)
(***************************************************************************)
AllVars == <<focus, vars, identityVars, localVars>>

\* Whatever a behaviour exercises, each of the three takes a step of its own or
\* none.
LEMMA SideBySide ==
    ASSUME [MCNext]_AllVars
    PROVE  [Next]_vars /\ [Identity!Next]_(Identity!vars) /\ [Local!Next]_(Local!vars)
BY DEF AllVars, MCNext, identityVars, localVars, Identity!vars, Local!vars

LEMMA EachByItself == MCSpec => Spec /\ []LoginInv /\ []TokenInv
<1>1. MCInit => Init /\ Identity!Init /\ Local!Init
  BY DEF MCInit
<1>2. [MCNext]_AllVars
         => [Next]_vars /\ [Identity!Next]_(Identity!vars) /\ [Local!Next]_(Local!vars)
  BY SideBySide
<1>3. MCSpec => MCInit /\ [][MCNext]_AllVars
  BY DEF MCSpec, AllVars
<1> QED BY <1>1, <1>2, <1>3, LoginInit, LoginStep, TokenInit, TokenStep, PTL DEF Spec

\* user_resolution.py, link_bootstrap_user.py: whatever emails identities carry
\* and however first logins and the operator's command interleave, no two
\* identities resolve to one account.
THEOREM AccountsStayApart == MCSpec => []AccountsAreNotShared
<1>1. LoginInv => AccountsAreNotShared
  BY DEF LoginInv, AccountsAreNotShared
<1> QED BY <1>1, EachByItself, PTL

\* user_resolution.py: a person whose email is taken by an account nobody can
\* reach owes that to a login that stopped between its two inserts.
THEOREM LockoutIsAbandonment == MCSpec => []LockoutNeedsAbandonedLogin
<1>1. LoginInv => LockoutNeedsAbandonedLogin
  BY AccountsAssumption
  DEF LoginInv, LockoutNeedsAbandonedLogin, Identity!LockoutNeedsAbandonedLogin,
      Identity!LockedOut, Linking, Email
<1> QED BY <1>1, EachByItself, PTL

\* publishing/tiktok/auth.py (get_access_token): whatever dies, is lost or is
\* authorized by hand meanwhile, a refresh presents a token TikTok accepts, or
\* one whose successor never reached the file; and every variable of the three
\* specifications keeps its type.
THEOREM LocalRefreshIsFresh == MCSpec => []SpentTokenIsNotPresented
<1>1. TokenInv => Local!SpentTokenIsNotPresented /\ Local!TypeOK
  <2> SUFFICES ASSUME TokenInv PROVE Local!TypeOK
    BY DEF TokenInv
  <2>1. Made \subseteq Local!Tokens /\ 0 .. urls \subseteq 0 .. Local!MaxUrls
    BY AccountsAssumption DEF TokenInv, TokenTypes, Made, Local!Tokens, Local!MaxUrls
  <2> QED BY <2>1 DEF TokenInv, TokenTypes, Made, Local!TypeOK
<1>2. LoginInv => Identity!TypeOK
  BY DEF LoginInv
<1>3. Local!SpentTokenIsNotPresented /\ Local!TypeOK /\ Identity!TypeOK /\ TypeOK
        => SpentTokenIsNotPresented
  BY DEF SpentTokenIsNotPresented
<1> QED BY <1>1, <1>2, <1>3, EachByItself, ConnectionTypes, PTL

\* The theorems about the hosted connection hold of it beside the others.
COROLLARY ConnectionBesideOthers ==
    MCSpec => /\ []RotatedTokenIsNotPresented /\ []AttemptIsRedeemedOnce
              /\ RefreshOnlyRenews
BY EachByItself, RotatedStaysUnused, RedeemedOnce, RefreshesOnlyRenew, PTL
=============================================================================
