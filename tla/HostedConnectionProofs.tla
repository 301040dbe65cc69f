----------------------- MODULE HostedConnectionProofs -----------------------
(***************************************************************************)
(* Proofs about HostedConnection, for both platforms and any number of     *)
(* requests, attempts, tokens and retries of the conditional write.        *)
(***************************************************************************)
EXTENDS HostedConnection, FiniteSetTheorems, TLAPS

Given == 1 .. issued
Alive == live \cup forfeited

ProcRow == [at : Stages, attempt : Attempts \cup {None}, token : Given \cup {None},
            new : Given \cup {None}, tries : Nat]

ConnTypes ==
    /\ issued \in 0 .. MaxTokens
    /\ credential \in Given \cup {None}
    /\ live \subseteq Given /\ forfeited \subseteq Given
    /\ origin \in [Tokens -> Attempts \cup {None}]
    /\ proc \in [Procs -> ProcRow]

\* A refresh that was answered renews the attempt its token goes back to.
OriginInv ==
    \A p \in Procs :
        /\ proc[p].at \in {"refresh", "write"} => proc[p].token \in Given
        /\ proc[p].at = "write" =>
              proc[p].new \in Given /\ origin[proc[p].new] = origin[proc[p].token]

\* A callback before its save and a refresh before its write hold a token that
\* is stored nowhere yet.
Connecting(at) == at \in {"connection", "create", "activate", "save"}
Unsaved(p) == Connecting(proc[p].at) \/ proc[p].at = "write"
Pending(p) == IF proc[p].at = "write" THEN proc[p].new ELSE proc[p].token

\* Under the lock one process at a time goes from reading the row to writing
\* it; the stored token is dead only while its holder has the successor.
RefreshInv ==
    /\ \A p \in Procs : proc[p].at \notin {"insert", "update"}
    /\ \A p \in Procs : proc[p].at \in RefreshStages => lock = p
    /\ \A p \in Procs : proc[p].at = "refresh" => proc[p].token \in Alive
    /\ \A p \in Procs : Unsaved(p) =>
          /\ Pending(p) \in Alive /\ Pending(p) # credential
          /\ \A q \in Procs \ {p} :
                /\ Unsaved(q) => Pending(q) # Pending(p)
                /\ proc[q].at = "refresh" => proc[q].token # Pending(p)
    /\ \/ credential \in Alive \cup {None}
       \/ \E p \in Procs : proc[p].at = "write" /\ proc[p].token = credential

ConnInv == ConnTypes /\ OriginInv /\ (backend = "postgres" => RefreshInv)

LEMMA ConnInit == Init => ConnInv
<1> SUFFICES ASSUME Init PROVE ConnInv
  OBVIOUS
<1>1. \A p \in Procs : proc[p] = Idle
  BY DEF Init
<1>2. Idle.at = "idle" /\ Idle \in ProcRow
  BY DEF Idle, ProcRow, Stages, CallbackStages, DisconnectStages, RefreshStages
<1>3. ConnTypes
  BY <1>2, HostedAssumption DEF Init, ConnTypes, Given
<1>4. OriginInv /\ RefreshInv
  BY <1>1, <1>2 DEF Init, OriginInv, RefreshInv, Unsaved, Connecting, RefreshStages
<1> QED BY <1>3, <1>4 DEF ConnInv

LEMMA GotoProc ==
    ASSUME ConnTypes, NEW p \in Procs, NEW stage \in Stages, Goto(p, stage)
    PROVE  /\ proc' \in [Procs -> ProcRow]
           /\ \A q \in Procs \ {p} : proc'[q] = proc[q]
           /\ proc'[p].at = stage /\ proc'[p].token = proc[p].token /\ proc'[p].new = proc[p].new
<1> DEFINE row == [proc[p] EXCEPT !.at = stage]
<1>1. proc[p] \in ProcRow
  BY DEF ConnTypes
<1>2. row \in ProcRow /\ row.at = stage /\ row.token = proc[p].token /\ row.new = proc[p].new
  BY <1>1 DEF ProcRow
<1>3. proc' = [proc EXCEPT ![p] = row]
  BY DEF Goto, ConnTypes
<1> HIDE DEF row
<1> QED BY <1>2, <1>3 DEF ConnTypes

LEMMA ReturnProc ==
    ASSUME ConnTypes, NEW p \in Procs, Return(p)
    PROVE  /\ proc' \in [Procs -> ProcRow]
           /\ \A q \in Procs \ {p} : proc'[q] = proc[q]
           /\ proc'[p].at = "idle"
<1>1. Idle \in ProcRow /\ Idle.at = "idle"
  BY DEF Idle, ProcRow, Stages
<1> QED BY <1>1 DEF Return, ConnTypes

\* A step of p that touches neither the stored token nor those of the platform.
LEMMA MoveStep ==
    ASSUME ConnInv, NEW p \in Procs,
           UNCHANGED <<backend, credential, live, issued, origin>>,
           forfeited \subseteq forfeited', forfeited' \subseteq Given,
           proc' \in [Procs -> ProcRow], \A q \in Procs \ {p} : proc'[q] = proc[q],
           proc'[p].at \notin {"refresh", "write"},
           backend = "postgres" => proc'[p].at \notin {"insert", "update"},
           backend = "postgres" /\ proc'[p].at = "read" => lock' = p,
           backend = "postgres" => lock' = lock \/ lock \in {p, None},
           Connecting(proc'[p].at) =>
              Connecting(proc[p].at) /\ proc'[p].token = proc[p].token,
           proc[p].at = "write" => proc[p].token \in forfeited' \/ credential # proc[p].token
    PROVE  ConnInv'
<1>1. ConnTypes'
  BY DEF ConnInv, ConnTypes, ProcRow, Given
<1>2. OriginInv'
  BY DEF ConnInv, OriginInv, Given
<1>3. ASSUME RefreshInv, backend = "postgres" PROVE RefreshInv'
  <2>1. /\ Alive \subseteq Alive'
        /\ \A q \in Procs \ {p} : (Unsaved(q)' <=> Unsaved(q)) /\ Pending(q)' = Pending(q)
    BY DEF Alive, Unsaved, Pending
  <2>2. Unsaved(p)' => Unsaved(p) /\ Pending(p)' = Pending(p)
    BY DEF Unsaved, Pending, Connecting
  <2>3. \A q \in Procs : proc'[q].at \in RefreshStages => lock' = q
    BY <1>3, HostedAssumption DEF RefreshInv, RefreshStages
  <2>4. \A q \in Procs : Unsaved(q)' =>
           /\ Pending(q)' \in Alive' /\ Pending(q)' # credential'
           /\ \A r \in Procs \ {q} :
                 /\ Unsaved(r)' => Pending(r)' # Pending(q)'
                 /\ proc'[r].at = "refresh" => proc'[r].token # Pending(q)'
    <3> SUFFICES ASSUME NEW q \in Procs, Unsaved(q)'
                 PROVE  /\ Pending(q)' \in Alive' /\ Pending(q)' # credential'
                        /\ \A r \in Procs \ {q} :
                              /\ Unsaved(r)' => Pending(r)' # Pending(q)'
                              /\ proc'[r].at = "refresh" => proc'[r].token # Pending(q)'
      OBVIOUS
    <3>1. Unsaved(q) /\ Pending(q)' = Pending(q)
      BY <2>1, <2>2
    <3>2. \A r \in Procs : Unsaved(r)' => Unsaved(r) /\ Pending(r)' = Pending(r)
      BY <2>1, <2>2
    <3>3. \A r \in Procs : proc'[r].at = "refresh" => proc'[r] = proc[r]
      OBVIOUS
    <3> QED BY <1>3, <2>1, <3>1, <3>2, <3>3 DEF RefreshInv
  <2>5. \/ credential' \in Alive' \cup {None}
        \/ \E q \in Procs : proc'[q].at = "write" /\ proc'[q].token = credential'
    <3>1. CASE credential \in Alive \cup {None}
      BY <2>1, <3>1
    <3>2. ASSUME NEW q \in Procs, proc[q].at = "write", proc[q].token = credential
          PROVE  \/ credential' \in Alive' \cup {None}
                 \/ \E r \in Procs : proc'[r].at = "write" /\ proc'[r].token = credential'
      BY <3>2 DEF Alive
    <3> QED BY <1>3, <3>1, <3>2 DEF RefreshInv
  <2>6. \A q \in Procs : proc'[q].at = "refresh" => proc'[q].token \in Alive'
    BY <1>3, <2>1 DEF RefreshInv
  <2>7. \A q \in Procs : proc'[q].at \notin {"insert", "update"}
    BY <1>3 DEF RefreshInv
  <2> QED BY <2>3, <2>4, <2>5, <2>6, <2>7 DEF RefreshInv
<1> QED BY <1>1, <1>2, <1>3 DEF ConnInv

LEMMA CallbackMoves ==
    ASSUME ConnInv, NEW p \in Procs,
           \/ ExchangeFails(p) \/ FindConnection(p) \/ CreateConnection(p) \/ CreateRefused(p)
           \/ ActivateTikTok(p) \/ SaveOnSqlite(p) \/ SaveFails(p) \/ ActivateInstagram(p)
    PROVE  ConnInv'
<1> USE DEF Stages, CallbackStages, Connecting
<1>0. /\ UNCHANGED <<backend, credential, live, issued, origin, forfeited, lock>>
      /\ ConnTypes /\ forfeited \subseteq Given /\ proc[p].at \notin {"refresh", "write"}
  BY DEF ExchangeFails, FindConnection, CreateConnection, CreateRefused, ActivateTikTok,
         SaveOnSqlite, SaveFails, ActivateInstagram, dbVars, platformVars, ConnInv, ConnTypes
<1>1. CASE Return(p)
  BY <1>0, <1>1, ReturnProc, MoveStep
<1>2. ASSUME NEW stage \in {"create", "activate", "save"}, Goto(p, stage),
             Connecting(proc[p].at)
      PROVE  ConnInv'
  BY <1>0, <1>2, GotoProc, MoveStep
<1>3. ASSUME NEW stage \in {"insert", "update"}, Goto(p, stage), backend = "sqlite"
      PROVE  ConnInv'
  BY <1>0, <1>3, GotoProc, MoveStep
<1>4. CASE FindConnection(p)
  <2>1. PICK stage \in {"create", "activate", "save"} : Goto(p, stage)
    BY <1>4 DEF FindConnection
  <2> QED BY <1>2, <1>4, <2>1 DEF FindConnection
<1>5. CASE SaveOnSqlite(p)
  <2>1. PICK stage \in {"insert", "update"} : Goto(p, stage)
    BY <1>5 DEF SaveOnSqlite
  <2> QED BY <1>3, <1>5, <2>1 DEF SaveOnSqlite
<1> QED
  BY <1>1, <1>2, <1>4, <1>5
  DEF ExchangeFails, CreateConnection, CreateRefused, ActivateTikTok, SaveFails, ActivateInstagram

LEMMA OtherMoves ==
    ASSUME ConnInv, NEW p \in Procs,
           \/ Disconnect(p) \/ MarkDisconnected(p) \/ ProvideAccessToken(p)
           \/ TikTokStatus(p) \/ InstagramStatus(p) \/ Look(p) \/ EnterRefresh(p)
           \/ LockTimeout(p) \/ RefreshRejected(p) \/ \E a \in Attempts : Callback(p, a)
    PROVE  ConnInv'
<1> USE DEF Stages, CallbackStages, DisconnectStages, RefreshStages, Connecting
<1>0. /\ UNCHANGED <<backend, credential, live, issued, origin, forfeited>>
      /\ ConnTypes /\ forfeited \subseteq Given /\ proc[p].at # "write"
  BY DEF Disconnect, MarkDisconnected, ProvideAccessToken, TikTokStatus, InstagramStatus, Status,
         Look, EnterRefresh, LockTimeout, RefreshRejected, Callback, dbVars, platformVars,
         ConnInv, ConnTypes
<1>1. ASSUME Return(p), UNCHANGED lock \/ Release(p) PROVE ConnInv'
  BY <1>0, <1>1, ReturnProc, MoveStep DEF Release
<1>2. ASSUME NEW stage \in {"delete", "look", "wait"}, Goto(p, stage), UNCHANGED lock
      PROVE  ConnInv'
  BY <1>0, <1>2, GotoProc, MoveStep
<1>3. CASE EnterRefresh(p)
  <2>2. backend = "postgres" => lock' = p /\ lock = None
    BY <1>3 DEF EnterRefresh, RefreshLockFree
  <2>3. Goto(p, "read")
    BY <1>3 DEF EnterRefresh
  <2> QED BY <1>0, <2>2, <2>3, GotoProc, MoveStep
<1>4. ASSUME NEW a \in Attempts, Callback(p, a) PROVE ConnInv'
  <2> DEFINE row == [Idle EXCEPT !.at = "exchange", !.attempt = a]
  <2>1. row \in ProcRow /\ row.at = "exchange"
    BY DEF Idle, ProcRow
  <2>2. proc' = [proc EXCEPT ![p] = row] /\ UNCHANGED lock
    BY <1>4 DEF Callback
  <2> HIDE DEF row
  <2>3. /\ proc' \in [Procs -> ProcRow] /\ proc'[p].at = "exchange"
        /\ \A q \in Procs \ {p} : proc'[q] = proc[q]
    BY <1>0, <2>1, <2>2 DEF ConnTypes
  <2> QED BY <1>0, <2>2, <2>3, MoveStep
<1> QED
  BY <1>1, <1>2, <1>3, <1>4
  DEF Disconnect, MarkDisconnected, ProvideAccessToken, TikTokStatus, InstagramStatus, Status,
      Look, LockTimeout, RefreshRejected, dbVars

-----------------------------------------------------------------------------
(* The steps that read, rotate or store a token.                           *)

\* Under the lock the row names a token the platform knows, or one it was told
\* to forget.
LEMMA RereadStep ==
    ASSUME ConnInv, NEW p \in Procs, Reread(p)
    PROVE  ConnInv'
<1>0. UNCHANGED <<backend, credential, live, issued, origin, forfeited>> /\ proc[p].at = "read"
  BY DEF Reread, dbVars, platformVars
<1>1. CASE Return(p) /\ Release(p)
  BY <1>0, <1>1, ReturnProc, MoveStep DEF Release, ConnInv, ConnTypes, Connecting
<1>2. CASE /\ NeedsRefresh /\ UNCHANGED lock
           /\ proc' = [proc EXCEPT ![p].at = "refresh", ![p].token = credential]
  <2> DEFINE row == [proc[p] EXCEPT !.at = "refresh", !.token = credential]
  <2>1. credential \in Given /\ proc[p] \in ProcRow
    BY <1>2 DEF NeedsRefresh, ConnInv, ConnTypes
  <2>2. row \in ProcRow /\ row.at = "refresh" /\ row.token = credential
    BY <2>1 DEF ProcRow, Stages, RefreshStages
  <2>3. proc' = [proc EXCEPT ![p] = row]
    BY <1>2, <2>1 DEF ConnInv, ConnTypes
  <2> HIDE DEF row
  <2>4. /\ proc' \in [Procs -> ProcRow] /\ proc'[p].at = "refresh" /\ proc'[p].token = credential
        /\ \A q \in Procs \ {p} : proc'[q] = proc[q]
    BY <2>2, <2>3 DEF ConnInv, ConnTypes
  <2>5. ConnTypes'
    BY <1>0, <2>4 DEF ConnInv, ConnTypes, ProcRow, Given
  <2>6. OriginInv'
    BY <1>0, <2>1, <2>4 DEF ConnInv, OriginInv, Given
  <2>7. ASSUME RefreshInv PROVE RefreshInv'
    <3>1. lock = p /\ \A q \in Procs \ {p} : proc[q].at \notin RefreshStages
      BY <1>0, <2>7 DEF RefreshInv, RefreshStages
    <3>2. credential \in Alive
      BY <2>1, <2>7, <3>1, <1>0, HostedAssumption
      DEF RefreshInv, RefreshStages, ConnInv, ConnTypes, Given
    <3>3. /\ \A q \in Procs : Unsaved(q)' <=> Unsaved(q)
          /\ \A q \in Procs : Unsaved(q) => q # p /\ Pending(q)' = Pending(q)
      BY <1>0, <2>4 DEF Unsaved, Pending, Connecting
    <3>4. \A q \in Procs : Unsaved(q)' =>
             /\ Pending(q)' \in Alive' /\ Pending(q)' # credential'
             /\ \A r \in Procs \ {q} :
                   /\ Unsaved(r)' => Pending(r)' # Pending(q)'
                   /\ proc'[r].at = "refresh" => proc'[r].token # Pending(q)'
      BY <1>0, <2>4, <2>7, <3>1, <3>3 DEF RefreshInv, Alive, RefreshStages
    <3>5. \A q \in Procs : /\ proc'[q].at \notin {"insert", "update"}
                           /\ proc'[q].at \in RefreshStages => lock' = q
                           /\ proc'[q].at = "refresh" => proc'[q].token \in Alive'
      BY <1>0, <1>2, <2>4, <2>7, <3>1, <3>2 DEF RefreshInv, Alive, RefreshStages
    <3>6. credential' \in Alive'
      BY <1>0, <3>2 DEF Alive
    <3> QED BY <3>4, <3>5, <3>6 DEF RefreshInv
  <2> QED BY <1>0, <2>5, <2>6, <2>7 DEF ConnInv
<1> QED BY <1>1, <1>2 DEF Reread

\* A write of the row with no token that is on its way to it.
LEMMA StoreStep ==
    ASSUME ConnInv, NEW p \in Procs,
           UNCHANGED <<backend, live, issued, origin, forfeited>>,
           proc' \in [Procs -> ProcRow], \A q \in Procs \ {p} : proc'[q] = proc[q],
           proc'[p].at \notin RefreshStages /\ ~Connecting(proc'[p].at),
           backend = "postgres" => proc'[p].at \notin {"insert", "update"},
           backend = "postgres" => lock' = lock \/ lock = p,
           credential' \in Given \cup {None},
           backend = "postgres" /\ credential' # None => Unsaved(p) /\ credential' = Pending(p)
    PROVE  ConnInv'
<1>1. ConnTypes'
  BY DEF ConnInv, ConnTypes, ProcRow, Given
<1>2. OriginInv'
  BY DEF ConnInv, OriginInv, Given, RefreshStages
<1>3. ASSUME RefreshInv, backend = "postgres" PROVE RefreshInv'
  <2>1. /\ ~Unsaved(p)' /\ Alive' = Alive
        /\ \A q \in Procs \ {p} : (Unsaved(q)' <=> Unsaved(q)) /\ Pending(q)' = Pending(q)
    BY DEF Alive, Unsaved, Pending, RefreshStages
  <2>2. credential' = None \/ (Unsaved(p) /\ credential' = Pending(p) /\ credential' \in Alive')
    BY <1>3, <2>1 DEF RefreshInv
  <2>3. \A q \in Procs : Pending(q) \in Alive => Pending(q) # None
    BY HostedAssumption DEF Alive, ConnInv, ConnTypes, Given
  <2>4. \A q \in Procs : Unsaved(q)' =>
           /\ Pending(q)' \in Alive' /\ Pending(q)' # credential'
           /\ \A r \in Procs \ {q} :
                 /\ Unsaved(r)' => Pending(r)' # Pending(q)'
                 /\ proc'[r].at = "refresh" => proc'[r].token # Pending(q)'
    BY <1>3, <2>1, <2>2, <2>3 DEF RefreshInv, RefreshStages
  <2>5. \A q \in Procs : /\ proc'[q].at \notin {"insert", "update"}
                         /\ proc'[q].at \in RefreshStages => lock' = q
                         /\ proc'[q].at = "refresh" => proc'[q].token \in Alive'
    BY <1>3, <2>1 DEF RefreshInv, RefreshStages
  <2> QED BY <2>2, <2>4, <2>5 DEF RefreshInv
<1> QED BY <1>1, <1>2, <1>3 DEF ConnInv

LEMMA StoredSteps ==
    ASSUME ConnInv, NEW p \in Procs,
           \/ DeleteCredential(p) \/ SaveOnPostgres(p) \/ InsertCredential(p) \/ UpdateCredential(p)
    PROVE  ConnInv'
<1> USE DEF Stages, CallbackStages, DisconnectStages, RefreshStages, Connecting
<1>0. /\ UNCHANGED <<backend, live, issued, origin, forfeited, lock>> /\ ConnTypes
      /\ proc[p].token \in Given \cup {None} /\ credential \in Given \cup {None}
  BY DEF DeleteCredential, SaveOnPostgres, InsertCredential, UpdateCredential, platformVars,
         ConnInv, ConnTypes, ProcRow
<1>1. CASE DeleteCredential(p)
  BY <1>0, <1>1, GotoProc, StoreStep DEF DeleteCredential, DeletePlatformCredential
<1>2. ASSUME Saved(p) \/ Return(p)
      PROVE  /\ proc' \in [Procs -> ProcRow] /\ \A q \in Procs \ {p} : proc'[q] = proc[q]
             /\ proc'[p].at \in {"idle", "finish"}
  BY <1>0, <1>2, GotoProc, ReturnProc DEF Saved
<1>3. CASE SaveOnPostgres(p)
  <2>1. Unsaved(p) /\ credential' = Pending(p) /\ credential' = proc[p].token
    BY <1>3 DEF SaveOnPostgres, UpsertOnConflict, Store, Unsaved, Pending
  <2> QED BY <1>0, <1>2, <1>3, <2>1, StoreStep DEF SaveOnPostgres
<1>4. CASE InsertCredential(p) \/ UpdateCredential(p)
  <2>1. backend # "postgres"
    BY <1>4 DEF InsertCredential, UpdateCredential, ConnInv, RefreshInv
  <2>2. credential' \in Given \cup {None} /\ (Saved(p) \/ Return(p))
    BY <1>0, <1>4 DEF InsertCredential, UpdateCredential, UpdateCredentialRow, Store
  <2> QED BY <1>0, <1>2, <2>1, <2>2, StoreStep
<1> QED BY <1>1, <1>3, <1>4

LEMMA WriteStep ==
    ASSUME ConnInv, NEW p \in Procs, WriteRefreshed(p)
    PROVE  ConnInv'
<1>0. /\ UNCHANGED <<backend, live, issued, origin, forfeited>> /\ ConnTypes
      /\ proc[p].at = "write" /\ forfeited \subseteq Given /\ proc[p].new \in Given
      /\ proc[p] \in ProcRow
  BY DEF WriteRefreshed, platformVars, ConnInv, ConnTypes, OriginInv
<1>1. CASE WonCas(p) /\ Store(proc[p].new) /\ Return(p) /\ Release(p)
  <2>1. Unsaved(p) /\ credential' = Pending(p) /\ credential' \in Given
    BY <1>0, <1>1 DEF Store, Unsaved, Pending
  <2> QED BY <1>0, <1>1, <2>1, ReturnProc, StoreStep DEF Release, RefreshStages, Connecting
<1>2. CASE ~WonCas(p) /\ UNCHANGED credential /\ Return(p) /\ Release(p)
  BY <1>0, <1>2, ReturnProc, MoveStep DEF Release, Connecting, WonCas
<1>3. CASE /\ ~WonCas(p) /\ UNCHANGED <<credential, lock>>
           /\ proc' = [proc EXCEPT ![p] = [Idle EXCEPT !.at = "read", !.tries = proc[p].tries + 1]]
  <2>5. PICK n \in Nat : n = proc[p].tries + 1
    BY <1>0 DEF ProcRow
  <2> DEFINE row == [Idle EXCEPT !.at = "read", !.tries = n]
  <2>1. row \in ProcRow /\ row.at = "read"
    BY DEF ProcRow, Idle, Stages, RefreshStages
  <2>2. proc' = [proc EXCEPT ![p] = row]
    BY <1>3, <2>5
  <2> HIDE DEF row
  <2>3. /\ proc' \in [Procs -> ProcRow] /\ proc'[p].at = "read"
        /\ \A q \in Procs \ {p} : proc'[q] = proc[q]
    BY <1>0, <2>1, <2>2 DEF ConnTypes
  <2>4. backend = "postgres" => lock = p
    BY <1>0 DEF ConnInv, RefreshInv, RefreshStages
  <2> QED BY <1>0, <1>3, <2>3, <2>4, MoveStep DEF Connecting, WonCas
<1> QED BY <1>1, <1>2, <1>3 DEF WriteRefreshed

-----------------------------------------------------------------------------
(* The platform issues a token: nobody holds it yet, whatever was lost.    *)

LEMMA Issued ==
    ASSUME ConnTypes, NEW a \in Attempts \cup {None}, Issue(a)
    PROVE  /\ issued' = issued + 1 /\ issued' \in 0 .. MaxTokens
           /\ Given \subseteq Given' /\ issued + 1 \in Given' \ Given
           /\ origin' \in [Tokens -> Attempts \cup {None}]
           /\ origin'[issued + 1] = a /\ \A t \in Given : origin'[t] = origin[t]
BY HostedAssumption DEF ConnTypes, Issue, Given, Tokens

LEMMA ExchangeStep ==
    ASSUME ConnInv, NEW p \in Procs, ExchangeCode(p)
    PROVE  ConnInv'
<1> DEFINE t == issued + 1
           row == [proc[p] EXCEPT !.at = "connection", !.token = t]
<1>0. /\ proc[p].at = "exchange" /\ UNCHANGED <<backend, credential, lock, forfeited>>
      /\ live' = live \cup {t} /\ Issue(proc[p].attempt)
      /\ proc[p] \in ProcRow /\ ConnTypes /\ proc[p].attempt \in Attempts \cup {None}
  BY DEF ExchangeCode, dbVars, ConnInv, ConnTypes, ProcRow
<1>1. /\ issued' = t /\ issued' \in 0 .. MaxTokens /\ Given \subseteq Given' /\ t \in Given' \ Given
      /\ origin' \in [Tokens -> Attempts \cup {None}] /\ \A u \in Given : origin'[u] = origin[u]
  BY <1>0, Issued
<1> HIDE DEF t
<1>2. row \in ProcRow' /\ row.at = "connection" /\ row.token = t
  BY <1>0, <1>1 DEF ProcRow, Stages, CallbackStages
<1>3. proc' = [proc EXCEPT ![p] = row]
  BY <1>0 DEF ExchangeCode, ConnTypes, t
<1> HIDE DEF row
<1>4. /\ proc' \in [Procs -> ProcRow'] /\ proc'[p].at = "connection" /\ proc'[p].token = t
      /\ \A q \in Procs \ {p} : proc'[q] = proc[q]
  BY <1>0, <1>1, <1>2, <1>3 DEF ConnTypes, ProcRow
<1>5. ConnTypes'
  BY <1>0, <1>1, <1>4 DEF ConnTypes
<1>6. OriginInv'
  <2>1. ASSUME NEW q \in Procs
        PROVE  /\ proc'[q].at \in {"refresh", "write"} => q # p /\ proc'[q] = proc[q]
               /\ proc[q].at \in {"refresh", "write"} => proc[q].token \in Given
               /\ proc[q].at = "write" => proc[q].new \in Given
               /\ proc[q].at = "write" => origin[proc[q].new] = origin[proc[q].token]
    BY <1>4 DEF ConnInv, OriginInv
  <2> SUFFICES ASSUME NEW q \in Procs, proc'[q].at \in {"refresh", "write"}
               PROVE  /\ proc'[q].token \in Given'
                      /\ proc'[q].at = "write" =>
                            /\ proc'[q].new \in Given'
                            /\ origin'[proc'[q].new] = origin'[proc'[q].token]
    BY DEF OriginInv
  <2>2. proc'[q] = proc[q] /\ proc[q].at \in {"refresh", "write"} /\ proc[q].token \in Given
    BY <2>1
  <2>3. proc'[q].token \in Given' /\ origin'[proc'[q].token] = origin[proc[q].token]
    BY <1>1, <2>2
  <2>4. CASE proc[q].at = "write"
    <3>1. proc[q].new \in Given /\ origin[proc[q].new] = origin[proc[q].token]
      BY <2>1, <2>4
    <3>2. origin'[proc[q].new] = origin[proc[q].new] /\ proc[q].new \in Given'
      BY <1>1, <3>1
    <3> QED BY <2>2, <2>3, <3>1, <3>2
  <2> QED BY <2>2, <2>3, <2>4
<1>7. ASSUME RefreshInv PROVE RefreshInv'
  <2>1. /\ Alive' = Alive \cup {t} /\ t \notin Alive /\ credential # t /\ t \notin Given
    BY <1>0, <1>1, HostedAssumption DEF Alive, ConnTypes, Given
  <2>2. /\ Unsaved(p)' /\ Pending(p)' = t /\ ~Unsaved(p)
        /\ \A q \in Procs \ {p} : (Unsaved(q)' <=> Unsaved(q)) /\ Pending(q)' = Pending(q)
    BY <1>0, <1>4 DEF Unsaved, Pending, Connecting
  <2>3. \A q \in Procs : Unsaved(q) => Pending(q) \in Alive /\ Pending(q) # t
    BY <1>7, <2>1 DEF RefreshInv
  <2>4. \A q \in Procs : proc[q].at = "refresh" => proc[q].token \in Alive /\ proc[q].token # t
    BY <1>7, <2>1 DEF RefreshInv
  <2>5. \A q \in Procs : Unsaved(q)' =>
           /\ Pending(q)' \in Alive' /\ Pending(q)' # credential'
           /\ \A r \in Procs \ {q} :
                 /\ Unsaved(r)' => Pending(r)' # Pending(q)'
                 /\ proc'[r].at = "refresh" => proc'[r].token # Pending(q)'
    <3> SUFFICES ASSUME NEW q \in Procs, Unsaved(q)'
                 PROVE  /\ Pending(q)' \in Alive' /\ Pending(q)' # credential'
                        /\ \A r \in Procs \ {q} :
                              /\ Unsaved(r)' => Pending(r)' # Pending(q)'
                              /\ proc'[r].at = "refresh" => proc'[r].token # Pending(q)'
      OBVIOUS
    <3>1. CASE q = p
      BY <1>0, <1>4, <2>1, <2>2, <2>3, <2>4, <3>1
    <3>2. CASE q # p
      BY <1>0, <1>4, <1>7, <2>1, <2>2, <2>3, <3>2 DEF RefreshInv
    <3> QED BY <3>1, <3>2
  <2>6. \A q \in Procs : /\ proc'[q].at \notin {"insert", "update"}
                         /\ proc'[q].at \in RefreshStages => lock' = q
                         /\ proc'[q].at = "refresh" => proc'[q].token \in Alive'
    BY <1>0, <1>4, <1>7, <2>1 DEF RefreshInv, RefreshStages
  <2>7. \/ credential' \in Alive' \cup {None}
        \/ \E q \in Procs : proc'[q].at = "write" /\ proc'[q].token = credential'
    BY <1>0, <1>4, <1>7, <2>1 DEF RefreshInv
  <2> QED BY <2>5, <2>6, <2>7 DEF RefreshInv
<1> QED BY <1>0, <1>5, <1>6, <1>7 DEF ConnInv

\* What both answered refreshes do to the tokens of the others.
LEMMA RotateStep ==
    ASSUME ConnInv, NEW p \in Procs, proc[p].at = "refresh", proc[p].token \in live,
           Issue(origin[proc[p].token]), Rotate(proc[p].token),
           UNCHANGED <<backend, credential>>,
           proc' \in [Procs -> ProcRow'], \A q \in Procs \ {p} : proc'[q] = proc[q],
           \/ /\ proc'[p].at = "write" /\ proc'[p].token = proc[p].token
              /\ proc'[p].new = issued + 1 /\ UNCHANGED <<forfeited, lock>>
           \/ /\ proc'[p].at = "idle" /\ forfeited' = forfeited \cup {proc[p].token}
              /\ (lock' = lock \/ lock = p)
    PROVE  ConnInv'
<1> DEFINE t == proc[p].token  new == issued + 1
<1>0. ConnTypes /\ t \in Given /\ origin[t] \in Attempts \cup {None}
  <2>1. ConnTypes /\ live \subseteq Given /\ Given \subseteq Tokens
    BY HostedAssumption DEF ConnInv, ConnTypes, Given, Tokens
  <2>2. t \in Given
    BY <2>1
  <2> QED BY <2>1, <2>2 DEF ConnTypes
<1>1. /\ issued' = new /\ issued' \in 0 .. MaxTokens
      /\ Given \subseteq Given' /\ new \in Given' /\ new \notin Given
      /\ origin' \in [Tokens -> Attempts \cup {None}]
      /\ origin'[new] = origin[t] /\ \A u \in Given : origin'[u] = origin[u]
  BY <1>0, Issued
<1>2. live' \subseteq live \cup {new} /\ live \ {t} \subseteq live' /\ new \in live'
  BY DEF Rotate
<1> HIDE DEF new
<1>3. ConnTypes'
  BY <1>0, <1>1, <1>2 DEF ConnTypes
<1>4. OriginInv'
  <2> SUFFICES ASSUME NEW q \in Procs, proc'[q].at \in {"refresh", "write"}
               PROVE  /\ proc'[q].token \in Given'
                      /\ proc'[q].at = "write" =>
                            /\ proc'[q].new \in Given'
                            /\ origin'[proc'[q].new] = origin'[proc'[q].token]
    BY DEF OriginInv
  <2>1. CASE q = p
    BY <1>0, <1>1, <2>1 DEF new
  <2>2. CASE q # p
    <3>1. /\ proc'[q] = proc[q] /\ proc[q].token \in Given
          /\ proc[q].at = "write" =>
                proc[q].new \in Given /\ origin[proc[q].new] = origin[proc[q].token]
      BY <2>2 DEF ConnInv, OriginInv
    <3> QED BY <1>1, <3>1
  <2> QED BY <2>1, <2>2
<1>5. ASSUME RefreshInv PROVE RefreshInv'
  <2>1. lock = p /\ \A q \in Procs \ {p} : proc[q].at \notin RefreshStages
    BY <1>5 DEF RefreshInv, RefreshStages
  <2>2. /\ ~Unsaved(p) /\ (Unsaved(p)' => Pending(p)' = new)
        /\ \A q \in Procs \ {p} : (Unsaved(q)' <=> Unsaved(q)) /\ Pending(q)' = Pending(q)
    BY DEF Unsaved, Pending, Connecting, new
  <2>3. Alive \ {t} \subseteq Alive' /\ new \in Alive'
    BY <1>2 DEF Alive
  <2>4. new \notin Alive /\ credential # new
    BY <1>0, <1>1, HostedAssumption DEF Alive, ConnTypes, Given
  <2>5. \A q \in Procs : Unsaved(q) =>
           /\ q # p /\ Pending(q) \in Alive' /\ Pending(q) # new /\ Pending(q) # credential
           /\ \A r \in Procs \ {q} : Unsaved(r) => Pending(r) # Pending(q)
    BY <1>5, <2>2, <2>3, <2>4 DEF RefreshInv
  <2>6. \A q \in Procs : proc'[q].at # "refresh"
    BY <2>1 DEF RefreshStages
  <2>7. \A q \in Procs : Unsaved(q)' =>
           /\ Pending(q)' \in Alive' /\ Pending(q)' # credential'
           /\ \A r \in Procs \ {q} :
                 /\ Unsaved(r)' => Pending(r)' # Pending(q)'
                 /\ proc'[r].at = "refresh" => proc'[r].token # Pending(q)'
    <3> SUFFICES ASSUME NEW q \in Procs, Unsaved(q)'
                 PROVE  /\ Pending(q)' \in Alive' /\ Pending(q)' # credential'
                        /\ \A r \in Procs \ {q} : Unsaved(r)' => Pending(r)' # Pending(q)'
      BY <2>6
    <3>1. CASE q = p
      BY <2>2, <2>3, <2>4, <2>5, <3>1
    <3>2. CASE q # p
      BY <2>2, <2>5, <3>2
    <3> QED BY <3>1, <3>2
  <2>8. \/ credential' \in Alive' \cup {None}
        \/ \E q \in Procs : proc'[q].at = "write" /\ proc'[q].token = credential'
    <3>1. credential \in Alive \cup {None}
      BY <1>5, <2>1 DEF RefreshInv, RefreshStages
    <3>2. t \in Alive' \/ (proc'[p].at = "write" /\ proc'[p].token = t)
      BY DEF Alive
    <3> QED BY <2>3, <3>1, <3>2
  <2>9. \A q \in Procs : /\ proc'[q].at \notin {"insert", "update"}
                         /\ proc'[q].at \in RefreshStages => lock' = q
    BY <1>5, <2>1 DEF RefreshInv, RefreshStages
  <2> QED BY <2>6, <2>7, <2>8, <2>9 DEF RefreshInv
<1> QED BY <1>3, <1>4, <1>5 DEF ConnInv

LEMMA AnsweredStep ==
    ASSUME ConnInv, NEW p \in Procs, RefreshAnswered(p) \/ RefreshUnanswered(p)
    PROVE  ConnInv'
<1>0. /\ proc[p].at = "refresh" /\ UNCHANGED <<backend, credential>> /\ ConnTypes
      /\ forfeited \subseteq Given /\ proc[p] \in ProcRow
  BY DEF RefreshAnswered, RefreshUnanswered, dbVars, ConnInv, ConnTypes
<1>1. CASE RefreshAnswered(p)
  <2> DEFINE new == issued + 1
             row == [proc[p] EXCEPT !.at = "write", !.new = new]
  <2>1. /\ proc[p].token \in live /\ Issue(origin[proc[p].token]) /\ Rotate(proc[p].token)
        /\ UNCHANGED <<forfeited, lock>> /\ proc' = [proc EXCEPT ![p] = row]
    BY <1>0, <1>1 DEF RefreshAnswered, ConnTypes
  <2>2. Given \subseteq Given' /\ new \in Given'
    BY <2>1 DEF Issue, Given, ConnInv, ConnTypes
  <2> HIDE DEF new
  <2>3. row \in ProcRow' /\ row.at = "write" /\ row.token = proc[p].token /\ row.new = new
    BY <1>0, <2>2 DEF ProcRow, Stages, RefreshStages
  <2> HIDE DEF row
  <2>4. /\ proc' \in [Procs -> ProcRow'] /\ proc'[p] = row
        /\ \A q \in Procs \ {p} : proc'[q] = proc[q]
    BY <1>0, <2>1, <2>2, <2>3 DEF ConnTypes, ProcRow
  <2> QED BY <1>0, <2>1, <2>3, <2>4, RotateStep DEF new
<1>2. CASE RefreshUnanswered(p) /\ UNCHANGED platformVars
  <2>1. UNCHANGED <<live, issued, origin, forfeited>> /\ Return(p) /\ Release(p)
    BY <1>2 DEF RefreshUnanswered, platformVars
  <2> QED BY <1>0, <2>1, ReturnProc, MoveStep DEF Release, Connecting
<1>3. CASE /\ RefreshUnanswered(p) /\ proc[p].token \in live
           /\ Issue(origin[proc[p].token]) /\ Rotate(proc[p].token)
           /\ forfeited' = forfeited \cup {proc[p].token}
  <2>1. Return(p) /\ Release(p)
    BY <1>3 DEF RefreshUnanswered
  <2>2. Given \subseteq Given'
    BY <1>3 DEF Issue, Given, ConnInv, ConnTypes
  <2>3. /\ proc' \in [Procs -> ProcRow'] /\ proc'[p].at = "idle"
        /\ \A q \in Procs \ {p} : proc'[q] = proc[q]
    BY <1>0, <2>1, <2>2, ReturnProc DEF ProcRow
  <2> QED BY <1>0, <1>3, <2>1, <2>3, RotateStep DEF Release
<1> QED BY <1>1, <1>2, <1>3 DEF RefreshUnanswered

\* A process that dies with the successor of a rotated token forfeits it.
LEMMA CrashStep ==
    ASSUME ConnInv, NEW p \in Procs, Crash(p)
    PROVE  ConnInv'
<1>1. /\ UNCHANGED <<backend, credential, live, issued, origin>> /\ ConnTypes
      /\ Return(p) /\ Release(p)
      /\ forfeited' = IF proc[p].at = "write" THEN forfeited \cup {proc[p].token} ELSE forfeited
  BY DEF Crash, dbVars, ConnInv
<1>2. forfeited \subseteq forfeited' /\ forfeited' \subseteq Given
  BY <1>1 DEF ConnInv, ConnTypes, OriginInv
<1> QED BY <1>1, <1>2, ReturnProc, MoveStep DEF Release, Connecting

\* Nothing a process does.
LEMMA Surroundings ==
    ASSUME ConnInv,
           \/ (\E a \in Attempts : Connect(a) \/ AttemptExpires(a)) \/ TokenAges \/ Revoke
           \/ UNCHANGED vars
    PROVE  ConnInv'
<1>1. /\ UNCHANGED <<backend, credential, lock, proc, issued, origin>> /\ ConnTypes
      /\ live' \cup forfeited' = live \cup forfeited
  BY DEF Connect, AttemptExpires, TokenAges, Revoke, vars, dbVars, platformVars, ConnInv
<1>2. Alive' = Alive /\ Given' = Given
  BY <1>1 DEF Alive, Given
<1>3. ConnTypes'
  BY <1>1, <1>2 DEF ConnTypes, ProcRow
<1>4. OriginInv'
  BY <1>1, <1>2 DEF ConnInv, OriginInv
<1>5. RefreshInv => RefreshInv'
  <2>1. \A q \in Procs : (Unsaved(q)' <=> Unsaved(q)) /\ Pending(q)' = Pending(q)
    BY <1>1 DEF Unsaved, Pending
  <2> QED BY <1>1, <1>2, <2>1 DEF RefreshInv
<1> QED BY <1>1, <1>3, <1>4, <1>5 DEF ConnInv

LEMMA ConnStep == ConnInv /\ [Next]_vars => ConnInv'
BY CallbackMoves, OtherMoves, RereadStep, StoredSteps, WriteStep, ExchangeStep, AnsweredStep,
   CrashStep, Surroundings
DEF Next, CallbackStep, DisconnectStep, UseStep

LEMMA ConnInvariant == Spec => []ConnInv
BY ConnInit, ConnStep, PTL DEF Spec

\* credential_store.py ("exactly one real refresh per expiry"): on Postgres a
\* rotated refresh token is presented again only after the answer with its
\* successor was lost or the person revoked it.
THEOREM RotatedStaysUnused == Spec => []RotatedTokenIsNotPresented
<1>1. ConnInv => RotatedTokenIsNotPresented
  BY DEF ConnInv, RefreshInv, Alive, RotatedTokenIsNotPresented
<1> QED BY <1>1, ConnInvariant, PTL

Renewal ==
    \A p \in Procs :
        proc[p].at = "write" /\ proc'[p].at # "write" /\ credential' # credential
            => credential # None /\ origin[credential'] = origin[credential]

\* The stored token changes in the steps that write or delete its row only, and
\* of those a refresh that stands before its write takes none but its own.
Writes(q) ==
    \/ SaveOnPostgres(q) \/ InsertCredential(q) \/ UpdateCredential(q)
    \/ DeleteCredential(q) \/ WriteRefreshed(q)

LEMMA WritersOnly ==
    ASSUME [Next]_vars, credential' # credential
    PROVE  \E q \in Procs : Writes(q)
<1>1. ~ UNCHANGED vars /\ ~TokenAges /\ ~Revoke
  BY DEF vars, dbVars, TokenAges, Revoke
<1>2. \A a \in Attempts : /\ ~Connect(a) /\ ~AttemptExpires(a)
                          /\ \A q \in Procs : ~Callback(q, a)
  BY DEF Connect, AttemptExpires, Callback
<1>3. PICK q \in Procs : CallbackStep(q) \/ DisconnectStep(q) \/ UseStep(q) \/ Crash(q)
  BY <1>1, <1>2 DEF Next
<1>4. ASSUME CallbackStep(q) PROVE Writes(q)
  BY <1>4 DEF CallbackStep, Writes, ExchangeFails, ExchangeCode, FindConnection, CreateConnection,
              CreateRefused, ActivateTikTok, SaveOnSqlite, SaveFails, ActivateInstagram, dbVars
<1>5. ASSUME DisconnectStep(q) PROVE Writes(q)
  BY <1>5 DEF DisconnectStep, Writes, Disconnect, MarkDisconnected, dbVars
<1>6. ASSUME UseStep(q) PROVE Writes(q)
  BY <1>6 DEF UseStep, Writes, ProvideAccessToken, TikTokStatus, InstagramStatus, Status, Look,
              EnterRefresh, LockTimeout, Reread, RefreshAnswered, RefreshRejected,
              RefreshUnanswered, dbVars
<1>7. ~Crash(q)
  BY DEF Crash, dbVars
<1> QED BY <1>3, <1>4, <1>5, <1>6, <1>7

LEMMA WriterMovesItself ==
    ASSUME ConnTypes, NEW p \in Procs, NEW q \in Procs \ {p}, Writes(q)
    PROVE  proc'[p] = proc[p]
BY DEF Writes, SaveOnPostgres, InsertCredential, UpdateCredential, DeleteCredential,
       WriteRefreshed, Saved, Return, Goto, ConnTypes

LEMMA RenewalStep == ConnInv /\ [Next]_vars => Renewal
<1> SUFFICES ASSUME ConnInv, [Next]_vars, NEW p \in Procs, proc[p].at = "write",
                    proc'[p].at # "write", credential' # credential
             PROVE  credential # None /\ origin[credential'] = origin[credential]
  BY DEF Renewal
<1>1. PICK q \in Procs : Writes(q)
  BY WritersOnly
<1>2. q = p
  BY <1>1, WriterMovesItself DEF ConnInv
<1>3. WriteRefreshed(p)
  BY <1>1, <1>2 DEF Writes, SaveOnPostgres, InsertCredential, UpdateCredential, DeleteCredential
<1>4. credential = proc[p].token /\ credential' = proc[p].new
  BY <1>3 DEF WriteRefreshed, WonCas, Store
<1>5. proc[p].token \in Given /\ origin[proc[p].new] = origin[proc[p].token]
  BY DEF ConnInv, OriginInv
<1> QED BY <1>4, <1>5, HostedAssumption DEF ConnInv, ConnTypes, Given

\* credential_store.py: a refresh that was answered neither brings back a
\* credential the owner disconnected meanwhile nor replaces that of a reconnect.
THEOREM RefreshesOnlyRenew == Spec => RefreshOnlyRenews
<1>1. ConnInv /\ [Next]_vars => [Renewal]_vars
  BY RenewalStep
<1>2. Spec => [][Renewal]_vars
  BY <1>1, ConnInvariant, PTL DEF Spec
<1> QED BY <1>2 DEF RefreshOnlyRenews, Renewal

-----------------------------------------------------------------------------
(* One exchange for each attempt.                                          *)

Exchanging(p, a) == proc[p].at = "exchange" /\ proc[p].attempt = a

\* The row of an attempt stays consumed; the one request that consumed it, and
\* only until the code is exchanged, has a code to exchange.
RedeemInv ==
    /\ attempt \in [Attempts -> {"none", "open", "expired", "consumed"}]
    /\ \A a \in redeemed : attempt[a] = "consumed"
    /\ \A p \in Procs, a \in Attempts : Exchanging(p, a) =>
          /\ attempt[a] = "consumed" /\ a \notin redeemed
          /\ \A q \in Procs : Exchanging(q, a) => q = p
    /\ \A p \in Procs : proc[p].at = "exchange" => proc[p].attempt \in Attempts
    /\ redeemed \subseteq Attempts

\* No step but a callback's first consumes an attempt or has a code to
\* exchange afterwards, and none but the exchange redeems one.
LEMMA StepsOfProcess ==
    ASSUME ConnTypes, NEW p \in Procs,
           CallbackStep(p) \/ DisconnectStep(p) \/ UseStep(p) \/ Crash(p)
    PROVE  /\ UNCHANGED attempt /\ proc'[p].at # "exchange"
           /\ \A q \in Procs \ {p} : proc'[q] = proc[q]
           /\ \/ UNCHANGED redeemed
              \/ proc[p].at = "exchange" /\ redeemed' = redeemed \cup {proc[p].attempt}
<1>1. proc[p] \in ProcRow /\ Idle.at = "idle"
  BY DEF ConnTypes, Idle
<1>2. CASE CallbackStep(p)
  BY <1>1, <1>2
  DEF CallbackStep, ExchangeFails, ExchangeCode, FindConnection, CreateConnection, CreateRefused,
      ActivateTikTok, SaveOnPostgres, SaveOnSqlite, InsertCredential, UpdateCredential, SaveFails,
      ActivateInstagram, Saved, Return, Goto, dbVars, platformVars, ConnTypes, ProcRow
<1>3. CASE DisconnectStep(p)
  BY <1>1, <1>3
  DEF DisconnectStep, Disconnect, DeleteCredential, MarkDisconnected, Return, Goto, dbVars,
      platformVars, ConnTypes, ProcRow
<1>4. CASE UseStep(p)
  <2>1. CASE WriteRefreshed(p)
    <3>1. \A n : [Idle EXCEPT !.at = "read", !.tries = n].at = "read"
      BY DEF Idle
    <3> QED BY <1>1, <2>1, <3>1 DEF WriteRefreshed, Return, dbVars, platformVars, ConnTypes
  <2>2. CASE ~WriteRefreshed(p)
    BY <1>1, <1>4, <2>2
    DEF UseStep, ProvideAccessToken, TikTokStatus, InstagramStatus, Status, Look, EnterRefresh,
        LockTimeout, Reread, RefreshAnswered, RefreshRejected, RefreshUnanswered, Return, Goto,
        dbVars, platformVars, ConnTypes, ProcRow
  <2> QED BY <2>1, <2>2
<1>5. CASE Crash(p)
  BY <1>1, <1>5 DEF Crash, Return, dbVars, ConnTypes
<1> QED BY <1>2, <1>3, <1>4, <1>5

LEMMA RedeemStep == ConnInv /\ RedeemInv /\ [Next]_vars => RedeemInv'
<1> SUFFICES ASSUME ConnInv, RedeemInv, [Next]_vars PROVE RedeemInv'
  OBVIOUS
<1>0. ConnTypes
  BY DEF ConnInv
<1>1. CASE UNCHANGED vars \/ TokenAges \/ Revoke
  BY <1>1 DEF vars, dbVars, platformVars, TokenAges, Revoke, RedeemInv, Exchanging
<1>2. ASSUME NEW a \in Attempts, Connect(a) \/ AttemptExpires(a) PROVE RedeemInv'
  <2>1. /\ UNCHANGED <<proc, redeemed>>
        /\ attempt' \in [Attempts -> {"none", "open", "expired", "consumed"}]
        /\ \A b \in Attempts : attempt[b] = "consumed" => attempt'[b] = "consumed"
    BY <1>2 DEF Connect, StartTikTokConnect, StartInstagramConnect, CreateOAuthState,
                AttemptExpires, platformVars, RedeemInv
  <2> QED BY <2>1 DEF RedeemInv, Exchanging
<1>3. ASSUME NEW p \in Procs, NEW a \in Attempts, Callback(p, a) PROVE RedeemInv'
  <2> DEFINE row == [Idle EXCEPT !.at = "exchange", !.attempt = a]
  <2>1. row.at = "exchange" /\ row.attempt = a
    BY DEF Idle
  <2>2. proc' = [proc EXCEPT ![p] = row] /\ UNCHANGED redeemed
    BY <1>3 DEF Callback, platformVars
  <2> HIDE DEF row
  <2>3. /\ proc'[p].at = "exchange" /\ proc'[p].attempt = a
        /\ \A q \in Procs \ {p} : proc'[q] = proc[q]
    BY <1>0, <2>1, <2>2 DEF ConnTypes
  <2>4. /\ attempt[a] = "open" /\ attempt' = [attempt EXCEPT ![a] = "consumed"]
    BY <1>3 DEF Callback, ConsumeOAuthState
  <2>5. a \notin redeemed /\ \A q \in Procs : ~Exchanging(q, a)
    BY <2>4 DEF RedeemInv
  <2>6. \A q \in Procs, b \in Attempts :
           Exchanging(q, b)' => IF q = p THEN b = a ELSE b # a /\ Exchanging(q, b)
    BY <2>3, <2>5 DEF Exchanging
  <2> QED BY <2>2, <2>3, <2>4, <2>5, <2>6 DEF RedeemInv
<1>4. ASSUME NEW p \in Procs, CallbackStep(p) \/ DisconnectStep(p) \/ UseStep(p) \/ Crash(p)
      PROVE  RedeemInv'
  <2>1. /\ UNCHANGED attempt /\ proc'[p].at # "exchange"
        /\ \A q \in Procs \ {p} : proc'[q] = proc[q]
        /\ \/ UNCHANGED redeemed
           \/ proc[p].at = "exchange" /\ redeemed' = redeemed \cup {proc[p].attempt}
    BY <1>0, <1>4, StepsOfProcess
  <2>2. \A q \in Procs, b \in Attempts : Exchanging(q, b)' => q # p /\ Exchanging(q, b)
    BY <2>1 DEF Exchanging
  <2>3. CASE UNCHANGED redeemed
    BY <2>1, <2>2, <2>3 DEF RedeemInv
  <2>4. CASE proc[p].at = "exchange" /\ redeemed' = redeemed \cup {proc[p].attempt}
    <3>1. PICK a \in Attempts : Exchanging(p, a) /\ redeemed' = redeemed \cup {a}
      BY <2>4 DEF RedeemInv, Exchanging
    <3> QED BY <2>1, <2>2, <3>1 DEF RedeemInv
  <2> QED BY <2>1, <2>3, <2>4
<1> QED BY <1>1, <1>2, <1>3, <1>4 DEF Next

LEMMA RedeemInit == Init => RedeemInv
BY DEF Init, Idle, RedeemInv, Exchanging

\* However often, and by whatever processes, the callback of an attempt to
\* connect is opened, its code is exchanged once.
THEOREM RedeemedOnce == Spec => []AttemptIsRedeemedOnce
<1>1. RedeemInv => AttemptIsRedeemedOnce
  <2> SUFFICES ASSUME RedeemInv, NEW a \in Attempts
               PROVE  Cardinality({p \in Procs : proc[p].at = "exchange" /\ proc[p].attempt = a})
                         + (IF a \in redeemed THEN 1 ELSE 0) <= 1
    BY DEF AttemptIsRedeemedOnce
  <2> DEFINE exchanging == {p \in Procs : proc[p].at = "exchange" /\ proc[p].attempt = a}
  <2>1. CASE exchanging = {}
    BY <2>1, FS_EmptySet
  <2>2. CASE exchanging # {}
    <3>1. PICK p \in Procs : exchanging = {p}
      BY <2>2 DEF RedeemInv, Exchanging
    <3>2. a \notin redeemed
      BY <3>1 DEF RedeemInv, Exchanging
    <3>3. Cardinality(exchanging) = 1
      BY <3>1, FS_Singleton
    <3> QED BY <3>2, <3>3
  <2> QED BY <2>1, <2>2
<1>2. Spec => []RedeemInv
  BY ConnInit, ConnStep, RedeemInit, RedeemStep, PTL DEF Spec
<1> QED BY <1>1, <1>2, PTL

-----------------------------------------------------------------------------
(* Type correctness.                                                       *)

\* What TypeOK says beyond the invariants above.
RestTypes ==
    /\ platform \in {"tiktok", "instagram"} /\ backend \in {"postgres", "sqlite"}
    /\ connection \in {"none", "ACTIVE", "DISCONNECTED"} /\ age \in {"fresh", "stale", "lapsed"}
    /\ lock \in Procs \cup {None}
    /\ \A p \in Procs : proc[p].tries < MaxCasAttempts

LEMMA RestInit == Init => RestTypes
<1>1. Idle.tries = 0
  BY DEF Idle
<1> QED BY <1>1, HostedAssumption DEF Init, RestTypes

LEMMA CallbackTypes ==
    ASSUME ConnTypes, RestTypes, NEW p \in Procs, CallbackStep(p) \/ DisconnectStep(p)
    PROVE  RestTypes'
<1>1. proc[p] \in ProcRow /\ Idle.tries = 0 /\ 0 < MaxCasAttempts
  BY HostedAssumption DEF ConnTypes, Idle
<1>2. UNCHANGED <<platform, backend, lock>> /\ connection' \in {"none", "ACTIVE", "DISCONNECTED"}
  BY DEF RestTypes, CallbackStep, ExchangeFails, ExchangeCode, FindConnection, CreateConnection,
         CreateRefused, ActivateTikTok, SaveOnPostgres, SaveOnSqlite, InsertCredential,
         UpdateCredential, SaveFails, ActivateInstagram, DisconnectStep, Disconnect,
         DeleteCredential, MarkDisconnected, UpdateConnectionStatus, CreatePlatformConnection,
         dbVars
<1>3. age' \in {"fresh", "stale", "lapsed"}
  BY DEF RestTypes, CallbackStep, ExchangeFails, ExchangeCode, FindConnection, CreateConnection,
         CreateRefused, ActivateTikTok, SaveOnPostgres, SaveOnSqlite, InsertCredential,
         UpdateCredential, SaveFails, ActivateInstagram, DisconnectStep, Disconnect,
         DeleteCredential, MarkDisconnected, UpsertOnConflict, UpdateCredentialRow, Store,
         DeletePlatformCredential, dbVars
<1>4. \A q \in Procs : proc'[q].tries < MaxCasAttempts
  <2>1. \A stage : Goto(p, stage) => \A q \in Procs : proc'[q].tries < MaxCasAttempts
    BY <1>1 DEF Goto, RestTypes, ConnTypes, ProcRow
  <2>2. Return(p) => \A q \in Procs : proc'[q].tries < MaxCasAttempts
    BY <1>1 DEF Return, RestTypes, ConnTypes
  <2>3. ExchangeCode(p) => \A q \in Procs : proc'[q].tries < MaxCasAttempts
    BY <1>1 DEF ExchangeCode, RestTypes, ConnTypes, ProcRow
  <2> QED
    BY <2>1, <2>2, <2>3
    DEF CallbackStep, ExchangeFails, FindConnection, CreateConnection,
        CreateRefused, ActivateTikTok, SaveOnPostgres, SaveOnSqlite, InsertCredential,
        UpdateCredential, SaveFails, ActivateInstagram, DisconnectStep, Disconnect,
        DeleteCredential, MarkDisconnected, Saved
<1> QED BY <1>2, <1>3, <1>4 DEF RestTypes

LEMMA UseTypes ==
    ASSUME ConnTypes, RestTypes, NEW p \in Procs, UseStep(p) \/ Crash(p)
    PROVE  RestTypes'
<1>1. proc[p] \in ProcRow /\ Idle.tries = 0 /\ 0 < MaxCasAttempts
  BY HostedAssumption DEF ConnTypes, Idle
<1>2. UNCHANGED <<platform, backend, connection>> /\ age' \in {"fresh", "stale", "lapsed"}
  BY DEF RestTypes, UseStep, ProvideAccessToken, TikTokStatus, InstagramStatus, Status, Look,
         EnterRefresh, LockTimeout, Reread, RefreshAnswered, RefreshRejected, RefreshUnanswered,
         WriteRefreshed, Store, Crash, dbVars
<1>3. lock' \in Procs \cup {None}
  BY DEF RestTypes, UseStep, ProvideAccessToken, TikTokStatus, InstagramStatus, Status, Look,
         EnterRefresh, LockTimeout, Reread, RefreshAnswered, RefreshRejected, RefreshUnanswered,
         WriteRefreshed, Release, Crash
<1>4. \A q \in Procs : proc'[q].tries < MaxCasAttempts
  <2>1. \A stage : Goto(p, stage) => \A q \in Procs : proc'[q].tries < MaxCasAttempts
    BY <1>1 DEF Goto, RestTypes, ConnTypes, ProcRow
  <2>2. Return(p) => \A q \in Procs : proc'[q].tries < MaxCasAttempts
    BY <1>1 DEF Return, RestTypes, ConnTypes
  <2>3. Reread(p) \/ RefreshAnswered(p) => \A q \in Procs : proc'[q].tries < MaxCasAttempts
    BY <1>1, <2>2 DEF Reread, RefreshAnswered, RestTypes, ConnTypes, ProcRow
  <2>4. WriteRefreshed(p) => \A q \in Procs : proc'[q].tries < MaxCasAttempts
    <3> DEFINE row == [Idle EXCEPT !.at = "read", !.tries = proc[p].tries + 1]
    <3>1. row.tries = proc[p].tries + 1
      BY DEF Idle
    <3> HIDE DEF row
    <3>2. ASSUME MayRetry(p), proc' = [proc EXCEPT ![p] = row]
          PROVE  \A q \in Procs : proc'[q].tries < MaxCasAttempts
      BY <3>1, <3>2 DEF MayRetry, RestTypes, ConnTypes
    <3> QED BY <2>2, <3>2 DEF WriteRefreshed, row
  <2> QED
    BY <2>1, <2>2, <2>3, <2>4
    DEF UseStep, ProvideAccessToken, TikTokStatus, InstagramStatus, Status, Look, EnterRefresh,
        LockTimeout, RefreshRejected, RefreshUnanswered, Crash
<1> QED BY <1>2, <1>3, <1>4 DEF RestTypes

LEMMA RestStep == ConnInv /\ RestTypes /\ [Next]_vars => RestTypes'
<1> SUFFICES ASSUME ConnTypes, RestTypes, [Next]_vars PROVE RestTypes'
  BY DEF ConnInv
<1>1. ASSUME NEW p \in Procs, NEW a \in Attempts, Callback(p, a) PROVE RestTypes'
  <2> DEFINE row == [Idle EXCEPT !.at = "exchange", !.attempt = a]
  <2>1. row.tries = 0 /\ 0 < MaxCasAttempts
    BY HostedAssumption DEF Idle
  <2>2. /\ proc' = [proc EXCEPT ![p] = row]
        /\ UNCHANGED <<platform, backend, connection, age, lock>>
    BY <1>1 DEF Callback
  <2> HIDE DEF row
  <2> QED BY <2>1, <2>2 DEF RestTypes, ConnTypes
<1>2. CASE \/ \E a \in Attempts : Connect(a) \/ AttemptExpires(a)
           \/ TokenAges \/ Revoke \/ UNCHANGED vars
  BY <1>2 DEF Connect, AttemptExpires, TokenAges, Revoke, vars, dbVars, RestTypes
<1> QED BY <1>1, <1>2, CallbackTypes, UseTypes DEF Next

LEMMA ConnectionTypes == Spec => []TypeOK
<1>1. ConnInv /\ RedeemInv /\ RestTypes => TypeOK
  <2> SUFFICES ASSUME ConnInv, RedeemInv, RestTypes PROVE TypeOK
    OBVIOUS
  <2>1. Given \subseteq Tokens /\ Given \subseteq 1 .. issued
    BY HostedAssumption DEF ConnInv, ConnTypes, Given, Tokens
  <2>2. proc \in [Procs -> [at : Stages, attempt : Attempts \cup {None},
                           token : Tokens \cup {None}, new : Tokens \cup {None},
                           tries : 0 .. MaxCasAttempts - 1]]
    <3>1. \A p \in Procs : proc[p].tries \in 0 .. MaxCasAttempts - 1
      BY HostedAssumption DEF ConnInv, ConnTypes, ProcRow, RestTypes
    <3> QED BY <2>1, <3>1 DEF ConnInv, ConnTypes, ProcRow
  <2> QED BY <2>1, <2>2 DEF ConnInv, ConnTypes, RedeemInv, RestTypes, TypeOK
<1>2. Spec => [](ConnInv /\ RedeemInv /\ RestTypes)
  BY ConnInit, ConnStep, RedeemInit, RedeemStep, RestInit, RestStep, PTL DEF Spec
<1> QED BY <1>1, <1>2, PTL
=============================================================================
