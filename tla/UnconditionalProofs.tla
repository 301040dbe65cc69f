------------------------- MODULE UnconditionalProofs -------------------------
(***************************************************************************)
(* What holds of PlatformPost in every regime: for every number of posts,  *)
(* processes and ids, any publisher and every budget, with executors that  *)
(* are overtaken, commands that overlap and owners who ask again too soon. *)
(***************************************************************************)
EXTENDS PlatformPostInv, FiniteSetTheorems, TLAPS

-----------------------------------------------------------------------------
(***************************************************************************)
(* Types.                                                                  *)
(***************************************************************************)

Typed == TypeOK /\ Roles

\* The rows and local states the operators of PlatformPost build are rows and
\* local states.
LEMMA RowOfType ==
    ASSUME Typed, NEW a \in Actors, ~At(a, "idle")
    PROVE  P(a) \in Posts /\ RowOf(a) \in Row
BY DEF Typed, TypeOK, Roles, Role, At, P, RowOf, Local

LEMMA LaterType == \A row : Later(row) \in {"never", "later", "now"}
BY DEF Later

LEMMA RetryOrFailType ==
    ASSUME NEW row \in Row, NEW retryable \in BOOLEAN, NEW tries \in 0..MaxRetries
    PROVE  RetryOrFail(row, retryable, tries) \in Row
<1>1. Later(row) \in {"never", "later", "now"}
  BY LaterType
<1>2. CASE retryable /\ tries < MaxRetries
  <2>1. tries + 1 \in 0..MaxRetries
    BY <1>2, PlatformPostAssumption
  <2> QED BY <1>1, <1>2, <2>1 DEF RetryOrFail, Row
<1>3. CASE ~(retryable /\ tries < MaxRetries)
  BY <1>3 DEF RetryOrFail, Row
<1> QED BY <1>2, <1>3

LEMMA ZeroInRange == 0 \in 0..MaxRetries /\ 0 \in 0..MaxChecks
BY PlatformPostAssumption

LEMMA NoRowType == NoRow \in Row
BY ZeroInRange DEF NoRow, Row

LEMMA WithIdType ==
    ASSUME NEW row \in Row, NEW i \in Ids \cup {None}
    PROVE  WithId(row, i) \in Row
BY DEF WithId, Row

LEMMA CappedType ==
    ASSUME NEW n \in 0..MaxChecks
    PROVE  Capped(n) \in 0..MaxChecks
BY PlatformPostAssumption DEF Capped

LEMMA ResolvedType ==
    ASSUME NEW row \in Row, NEW outcome
    PROVE  Resolved(row, outcome) \in Row
BY DEF Resolved, Row

LEMMA ReconciledType ==
    ASSUME NEW row \in Row, NEW outcome \in Outcome, NEW checks \in 0..MaxChecks
    PROVE  Reconciled(row, outcome, checks) \in Row
BY PlatformPostAssumption, CappedType, ResolvedType DEF Reconciled, Row

LEMMA StatusAnswerType ==
    ASSUME NEW i
    PROVE  StatusAnswer(i) \in {"PUBLISH_COMPLETE", "FAILED", "PROCESSING"}
BY DEF StatusAnswer

LEMMA IdleType == Idle \in Local
BY PlatformPostAssumption DEF Idle, Local, Stage, Outcome

LEMMA IdleRole == \A a : Role(a, Idle)
BY DEF Idle, Role, Recovering, Reconciling, Executing, Polling

LEMMA PollRecordType ==
    ASSUME Typed, NEW p \in Posts
    PROVE  /\ PollRecord(p) \in Local
           /\ PollRecord(p).at = "polling" /\ PollRecord(p).post = p
           /\ PollRecord(p).id = post[p].platform_post_id
BY IdleType DEF PollRecord, Idle, Local, Stage, Polling, Typed, TypeOK, Row

\* A step that leaves the table alone.
LEMMA GotoTyped ==
    ASSUME Typed, NEW a \in Actors, NEW next \in Local, Role(a, next),
           Goto(a, next), sub' \in [Ids -> Submission]
    PROVE  Typed'
BY DEF Typed, TypeOK, Roles, Goto

\* A step that writes a row.
LEMMA WriteTyped ==
    ASSUME Typed, NEW a \in Actors, NEW p \in Posts, NEW row \in Row,
           NEW next \in Local, Role(a, next),
           Write(a, p, row, next), sub' \in [Ids -> Submission]
    PROVE  Typed'
<1>1. post' \in [Posts -> Row]
  BY DEF Typed, TypeOK, Write
<1>2. \A b \in Actors : ctx'[b] \in Local /\ Role(b, ctx'[b])
  <2> SUFFICES ASSUME NEW b \in Actors PROVE ctx'[b] \in Local /\ Role(b, ctx'[b])
    OBVIOUS
  <2>1. CASE b = a
    BY <2>1 DEF Write
  <2>2. CASE b # a
    <3>1. ctx'[b] = [ctx[b] EXCEPT !.fresh = ctx[b].fresh /\ ctx[b].post # p]
      BY <2>2 DEF Write
    <3>2. ctx[b] \in Local /\ Role(b, ctx[b])
      BY DEF Typed, TypeOK, Roles
    <3> QED BY <3>1, <3>2 DEF Local, Role
  <2> QED BY <2>1, <2>2
<1>3. ctx' \in [Actors -> Local]
  BY <1>2 DEF Write
<1> QED BY <1>1, <1>2, <1>3 DEF Typed, TypeOK, Roles

LEMMA WriteIfUnchangedTyped ==
    ASSUME Typed, NEW a \in Actors, ~At(a, "idle"), NEW row \in Row,
           WriteIfUnchanged(a, row), UNCHANGED sub
    PROVE  Typed'
<1>1. sub' \in [Ids -> Submission]
  BY DEF Typed, TypeOK
<1>2. P(a) \in Posts
  BY RowOfType
<1> QED BY <1>1, <1>2, GotoTyped, WriteTyped, IdleType, IdleRole DEF WriteIfUnchanged

\* Every action keeps the types and roles: one step per action.
LEMMA DatabaseTyped ==
    ASSUME Typed, NEW p \in Posts, Materialize(p) \/ TimeArrives(p)
    PROVE  Typed'
<1>1. NoRow \in Row
  BY NoRowType
<1>2. post[p] \in Row
  BY DEF Typed, TypeOK
<1>3. [NoRow EXCEPT !.status = "PENDING", !.eligible = "later"] \in Row
  BY <1>1 DEF Row
<1>4. [post[p] EXCEPT !.eligible = "now"] \in Row
  BY <1>2 DEF Row
<1>5. post' \in [Posts -> Row]
  BY <1>3, <1>4 DEF Materialize, TimeArrives, Typed, TypeOK
<1> QED BY <1>5 DEF Materialize, TimeArrives, Typed, TypeOK, Roles

LEMMA SelectTyped ==
    ASSUME Typed, NEW w \in Workers, NEW p \in Posts, WorkerStarts(w, p)
    PROVE  Typed'
<1>a. w \in Actors /\ None \notin Posts /\ sub' \in [Ids -> Submission] /\ post[p] \in Row
  BY PlatformPostAssumption
  DEF Actors, Typed, TypeOK, WorkerStarts, SelectDue, SelectStale, SelectReconcilable
<1>1. CASE SelectDue(w, p)
  <2> DEFINE next == [Idle EXCEPT !.at = "selected", !.post = p]
  <2>1. next \in Local
    BY IdleType DEF Local, Stage
  <2>2. Role(w, next)
    BY <1>a DEF Role, Idle, Recovering, Reconciling, Executing, Polling
  <2>3. Goto(w, next)
    BY <1>1 DEF SelectDue
  <2> HIDE DEF next
  <2> QED BY <1>a, <2>1, <2>2, <2>3, GotoTyped
<1>2. CASE SelectStale(w, p)
  <2> DEFINE next == [Idle EXCEPT !.at = "recovering", !.post = p, !.fresh = TRUE,
                            !.id = post[p].platform_post_id,
                            !.retry_count = post[p].retry_count]
  <2>1. next \in Local
    BY <1>a, IdleType DEF Local, Stage, Row
  <2>2. Role(w, next)
    BY <1>a DEF Role, Idle, Recovering, Reconciling, Executing, Polling
  <2>3. Goto(w, next)
    BY <1>2 DEF SelectStale
  <2> HIDE DEF next
  <2> QED BY <1>a, <2>1, <2>2, <2>3, GotoTyped
<1>3. CASE SelectReconcilable(w, p)
  <2> DEFINE next == [PollRecord(p) EXCEPT !.at = "reconciling", !.fresh = TRUE]
  <2>0. PollRecord(p) \in Local /\ PollRecord(p).post = p
    BY PollRecordType
  <2>1. next \in Local
    BY <2>0 DEF Local, Stage
  <2>2. Role(w, next)
    BY <1>a, <2>0 DEF Role, Local, Recovering, Reconciling, Executing, Polling
  <2>3. Goto(w, next)
    BY <1>3 DEF SelectReconcilable
  <2> HIDE DEF next
  <2> QED BY <1>a, <2>1, <2>2, <2>3, GotoTyped
<1> QED BY <1>1, <1>2, <1>3 DEF WorkerStarts

LEMMA ExecuteTyped ==
    ASSUME Typed, NEW a \in Workers \cup Clis, ExecuteStep(a)
    PROVE  Typed'
<1>a. a \in Actors /\ sub \in [Ids -> Submission] /\ ctx[a] \in Local
  BY DEF Actors, Typed, TypeOK
<1>b. ~At(a, "idle")
  BY DEF ExecuteStep, At, Claim, LoadMedia, Checkpoint, InitUpload, PersistId,
         UploadMedia, RereadAfterError, SettleError, ConfirmId, ReadForPoll, PollAsk,
         PollWrite
<1>c. P(a) \in Posts /\ RowOf(a) \in Row /\ ctx[a].post # None
  BY <1>a, <1>b, RowOfType DEF Typed, Roles, Role, At
<1>d. \A stage \in Executing \cup Polling, l \in Local :
         l.post # None => /\ [l EXCEPT !.at = stage] \in Local
                          /\ Role(a, [l EXCEPT !.at = stage])
  BY DEF Local, Stage, Role, Executing, Polling, Recovering, Reconciling
<1>e. \A kind \in {"retryable", "terminal"} :
         /\ [ctx[a] EXCEPT !.at = "erred", !.outcome = kind] \in Local
         /\ Role(a, [ctx[a] EXCEPT !.at = "erred", !.outcome = kind])
  BY <1>a, <1>c DEF Local, Stage, Role, Executing, Polling, Recovering, Reconciling, Outcome
<1>1. CASE Claim(a)
  <2> DEFINE next == [Idle EXCEPT !.at = "claimed", !.post = P(a),
                                  !.retry_count = RowOf(a).retry_count]
             row == [RowOf(a) EXCEPT !.status = "PUBLISHING"]
  <2>1. next \in Local
    BY <1>c, IdleType DEF Local, Stage, Executing, Row
  <2>2. Role(a, next)
    BY <1>c DEF Role, Idle, Recovering, Reconciling, Executing, Polling, P
  <2>3. row \in Row
    BY <1>c DEF Row
  <2>4. Write(a, P(a), row, next) \/ Goto(a, Idle)
    BY <1>1 DEF Claim
  <2>5. sub' \in [Ids -> Submission]
    BY <1>a, <1>1 DEF Claim
  <2> HIDE DEF next, row
  <2> QED BY <1>a, <1>c, <2>1, <2>2, <2>3, <2>4, <2>5, WriteTyped, GotoTyped, IdleType, IdleRole
<1>2. CASE LoadMedia(a)
  <2>1. sub' \in [Ids -> Submission]
    BY <1>a, <1>2 DEF LoadMedia
  <2>2. CASE Goto(a, [ctx[a] EXCEPT !.at = "loaded"])
    BY <1>a, <1>c, <1>d, <2>1, <2>2, GotoTyped DEF Executing
  <2>3. CASE Write(a, P(a), [RowOf(a) EXCEPT !.status = "FAILED"], Idle)
    <3>1. [RowOf(a) EXCEPT !.status = "FAILED"] \in Row
      BY <1>c DEF Row
    <3> QED BY <1>a, <1>c, <2>1, <2>3, <3>1, WriteTyped, IdleType, IdleRole
  <2>4. ASSUME NEW retryable \in BOOLEAN,
               Write(a, P(a), RetryOrFail(RowOf(a), retryable, ctx[a].retry_count), Idle)
        PROVE  Typed'
    <3>1. RetryOrFail(RowOf(a), retryable, ctx[a].retry_count) \in Row
      BY <1>a, <1>c, RetryOrFailType DEF Local
    <3> QED BY <1>a, <1>c, <2>1, <2>4, <3>1, WriteTyped, IdleType, IdleRole
  <2> QED BY <1>2, <2>2, <2>3, <2>4 DEF LoadMedia
<1>3. CASE Checkpoint(a)
  <2> DEFINE state == IF Checkpointed THEN "AWAITING_PLATFORM_ID" ELSE "SUBMITTING"
  <2>1. sub' \in [Ids -> Submission]
    BY <1>a, <1>3 DEF Checkpoint
  <2>2. CASE Write(a, P(a), [RowOf(a) EXCEPT !.status = "FAILED"], Idle)
    <3>1. [RowOf(a) EXCEPT !.status = "FAILED"] \in Row
      BY <1>c DEF Row
    <3> QED BY <1>a, <1>c, <2>1, <2>2, <3>1, WriteTyped, IdleType, IdleRole
  <2>3. CASE Write(a, P(a), [RowOf(a) EXCEPT !.submission_state = state],
                   [ctx[a] EXCEPT !.at = "submitting"])
    <3>1. [RowOf(a) EXCEPT !.submission_state = state] \in Row
      BY <1>c DEF Row
    <3>2. /\ [ctx[a] EXCEPT !.at = "submitting"] \in Local
          /\ Role(a, [ctx[a] EXCEPT !.at = "submitting"])
      BY <1>a, <1>c, <1>d DEF Executing
    <3> HIDE DEF state
    <3> QED BY <1>a, <1>c, <2>1, <2>3, <3>1, <3>2, WriteTyped
  <2> QED BY <1>3, <2>2, <2>3 DEF Checkpoint
<1>4. CASE InitUpload(a)
  <2>1. CASE \E kind \in {"retryable", "terminal"} :
                Goto(a, [ctx[a] EXCEPT !.at = "erred", !.outcome = kind]) /\ sub' = sub
    <3>1. PICK kind \in {"retryable", "terminal"} :
                Goto(a, [ctx[a] EXCEPT !.at = "erred", !.outcome = kind]) /\ sub' = sub
      BY <2>1
    <3> QED BY <1>a, <1>e, <3>1, GotoTyped
  <2>2. ASSUME NEW i \in Ids, sub' = [sub EXCEPT ![i].post = P(a)],
               \/ Goto(a, [ctx[a] EXCEPT !.at = "initiated", !.id = i])
               \/ \E kind \in {"retryable", "terminal"} :
                     Goto(a, [ctx[a] EXCEPT !.at = "erred", !.outcome = kind])
        PROVE  Typed'
    <3>1. sub' \in [Ids -> Submission]
      BY <1>a, <1>c, <2>2 DEF Submission
    <3>2. /\ [ctx[a] EXCEPT !.at = "initiated", !.id = i] \in Local
          /\ Role(a, [ctx[a] EXCEPT !.at = "initiated", !.id = i])
      BY <1>a, <1>c DEF Local, Stage, Role, Executing, Polling, Recovering, Reconciling
    <3> QED BY <1>a, <1>e, <2>2, <3>1, <3>2, GotoTyped
  <2> QED BY <1>4, <2>1, <2>2 DEF InitUpload
<1>5. CASE PersistId(a)
  <2>1. sub' \in [Ids -> Submission]
    BY <1>a, <1>5 DEF PersistId
  <2>2. WithId(RowOf(a), ctx[a].id) \in Row
    BY <1>a, <1>c, WithIdType DEF Local
  <2>3. /\ [ctx[a] EXCEPT !.at = "uploading"] \in Local
        /\ Role(a, [ctx[a] EXCEPT !.at = "uploading"])
    BY <1>a, <1>c, <1>d DEF Executing
  <2> QED BY <1>a, <1>c, <1>5, <2>1, <2>2, <2>3, WriteTyped, GotoTyped DEF PersistId
<1>6. CASE UploadMedia(a)
  <2>1. PICK sent \in BOOLEAN :
          /\ sub' = IF sent /\ sub[ctx[a].id].media = "none"
                    THEN [sub EXCEPT ![ctx[a].id].media = "sent"] ELSE sub
          /\ \/ sent /\ Goto(a, [ctx[a] EXCEPT !.at = "uploaded"])
             \/ \E kind \in {"retryable", "terminal"} :
                   Goto(a, [ctx[a] EXCEPT !.at = "erred", !.outcome = kind])
    BY <1>6 DEF UploadMedia
  <2>2. [sub EXCEPT ![ctx[a].id].media = "sent"] \in [Ids -> Submission]
    BY <1>a DEF Submission
  <2>3. sub' \in [Ids -> Submission]
    BY <1>a, <2>1, <2>2
  <2>4. CASE Goto(a, [ctx[a] EXCEPT !.at = "uploaded"])
    BY <1>a, <1>c, <1>d, <2>3, <2>4, GotoTyped DEF Executing
  <2>5. ASSUME NEW kind \in {"retryable", "terminal"},
               Goto(a, [ctx[a] EXCEPT !.at = "erred", !.outcome = kind])
        PROVE  Typed'
    BY <1>a, <1>e, <2>3, <2>5, GotoTyped
  <2> QED BY <2>1, <2>4, <2>5
<1>7. CASE RereadAfterError(a)
  <2>1. \E stage \in Executing : Goto(a, [ctx[a] EXCEPT !.at = stage])
    BY <1>7 DEF RereadAfterError, Executing
  <2>2. sub' \in [Ids -> Submission]
    BY <1>a, <1>7 DEF RereadAfterError
  <2> QED BY <1>a, <1>c, <1>d, <2>1, <2>2, GotoTyped
<1>8. CASE SettleError(a)
  <2>1. sub' \in [Ids -> Submission]
    BY <1>a, <1>8 DEF SettleError
  <2>2. RetryOrFail(RowOf(a), ctx[a].outcome = "retryable", ctx[a].retry_count) \in Row
    <3>1. ctx[a].retry_count \in 0..MaxRetries /\ (ctx[a].outcome = "retryable") \in BOOLEAN
      BY <1>a DEF Local
    <3> QED BY <1>c, <3>1, RetryOrFailType
  <2>3. Write(a, P(a), RowOf(a), Idle)
        \/ Write(a, P(a), RetryOrFail(RowOf(a), ctx[a].outcome = "retryable",
                                      ctx[a].retry_count), Idle)
    BY <1>8 DEF SettleError
  <2> QED BY <1>a, <1>c, <2>1, <2>2, <2>3, WriteTyped, IdleType, IdleRole
<1>9. CASE ConfirmId(a)
  <2>1. sub' \in [Ids -> Submission]
    BY <1>a, <1>9 DEF ConfirmId
  <2>2. WithId(RowOf(a), ctx[a].id) \in Row
    BY <1>a, <1>c, WithIdType DEF Local
  <2>3. /\ [ctx[a] EXCEPT !.at = "submitted"] \in Local
        /\ Role(a, [ctx[a] EXCEPT !.at = "submitted"])
    BY <1>a, <1>c, <1>d DEF Executing
  <2> QED BY <1>a, <1>c, <1>9, <2>1, <2>2, <2>3, WriteTyped, GotoTyped DEF ConfirmId
<1>10. CASE ReadForPoll(a)
  <2>1. Role(a, PollRecord(P(a)))
    BY <1>c, PollRecordType DEF Role, Recovering, Reconciling, Executing, Polling, P
  <2> QED BY <1>a, <1>c, <1>10, <2>1, PollRecordType, GotoTyped DEF ReadForPoll
<1>11. CASE PollAsk(a)
  <2> DEFINE next == [ctx[a] EXCEPT !.at = "polled", !.outcome = StatusAnswer(ctx[a].id)]
  <2>1. next \in Local
    BY <1>a, StatusAnswerType DEF Local, Stage, Polling, Outcome
  <2>2. Role(a, next)
    BY <1>a, <1>c DEF Role, Local, Recovering, Reconciling, Executing, Polling
  <2>3. Goto(a, next) \/ Goto(a, Idle)
    BY <1>11 DEF PollAsk
  <2>4. sub' \in [Ids -> Submission]
    BY <1>a, <1>11 DEF PollAsk
  <2> HIDE DEF next
  <2> QED BY <1>a, <2>1, <2>2, <2>3, <2>4, GotoTyped, IdleType, IdleRole
<1>12. CASE PollWrite(a)
  <2> DEFINE row == IF ctx[a].outcome = "PROCESSING"
                    THEN [RowOf(a) EXCEPT !.status_check_count = Capped(ctx[a].checks)]
                    ELSE Resolved(RowOf(a), ctx[a].outcome)
  <2>1. Capped(ctx[a].checks) \in 0..MaxChecks
    BY <1>a, CappedType DEF Local
  <2>2. [RowOf(a) EXCEPT !.status_check_count = Capped(ctx[a].checks)] \in Row
    BY <1>c, <2>1 DEF Row
  <2>3. row \in Row
    BY <1>c, <2>2, ResolvedType
  <2>4. Write(a, P(a), row, Idle) /\ sub' \in [Ids -> Submission]
    BY <1>a, <1>12 DEF PollWrite
  <2> HIDE DEF row
  <2> QED BY <1>a, <1>c, <2>3, <2>4, WriteTyped, IdleType, IdleRole
<1> QED BY <1>1, <1>2, <1>3, <1>4, <1>5, <1>6, <1>7, <1>8, <1>9, <1>10, <1>11, <1>12
        DEF ExecuteStep

LEMMA RecoveryTyped ==
    ASSUME Typed, NEW w \in Workers, RecoveryStep(w) \/ ReconcileStep(w)
    PROVE  Typed'
<1>a. w \in Actors /\ sub' \in [Ids -> Submission] /\ ctx[w] \in Local
  BY DEF Actors, Typed, TypeOK, RecoveryStep, ReconcileStep, RecoverUnsubmitted, RecoverAsk,
         RecoverResolve, ReconcileAsk, ReconcileWrite
<1>b. ~At(w, "idle") /\ sub' = sub
  BY DEF RecoveryStep, ReconcileStep, At, RecoverUnsubmitted, RecoverAsk, RecoverResolve,
         ReconcileAsk, ReconcileWrite
<1>c. P(w) \in Posts /\ RowOf(w) \in Row /\ ctx[w].post # None
  BY <1>a, <1>b, RowOfType DEF Typed, Roles, Role, At
<1>1. CASE RecoverUnsubmitted(w)
  <2> DEFINE row == CASE RowOf(w).submission_state = None ->
                             [RowOf(w) EXCEPT !.status = "PENDING"]
                      [] RowOf(w).submission_state = "AWAITING_PLATFORM_ID" ->
                             RetryOrFail(RowOf(w), TRUE, ctx[w].retry_count)
                      [] OTHER -> [RowOf(w) EXCEPT !.status = "UNKNOWN"]
  <2>1. [RowOf(w) EXCEPT !.status = "PENDING"] \in Row
    BY <1>c DEF Row
  <2>2. RetryOrFail(RowOf(w), TRUE, ctx[w].retry_count) \in Row
    BY <1>a, <1>c, RetryOrFailType DEF Local
  <2>3. [RowOf(w) EXCEPT !.status = "UNKNOWN"] \in Row
    BY <1>c DEF Row
  <2>4. row \in Row
    BY <1>c, <2>1, <2>2, <2>3, PlatformPostAssumption DEF Row
  <2>5. WriteIfUnchanged(w, row)
    BY <1>1 DEF RecoverUnsubmitted
  <2> HIDE DEF row
  <2> QED BY <1>a, <1>b, <2>4, <2>5, WriteIfUnchangedTyped
<1>2. CASE RecoverAsk(w)
  <2> DEFINE next == [ctx[w] EXCEPT !.at = "recovery_polled",
                                    !.outcome = StatusAnswer(ctx[w].id)]
  <2>1. next \in Local
    BY <1>a, StatusAnswerType DEF Local, Stage, Outcome
  <2>2. Role(w, next)
    BY <1>a, <1>c DEF Role, Local, Recovering, Reconciling, Executing, Polling
  <2>3. Goto(w, next) \/ Goto(w, Idle)
    BY <1>2 DEF RecoverAsk
  <2> HIDE DEF next
  <2> QED BY <1>a, <2>1, <2>2, <2>3, GotoTyped, IdleType, IdleRole
<1>3. CASE RecoverResolve(w)
  <2>1. Goto(w, Idle) \/ WriteIfUnchanged(w, Resolved(RowOf(w), ctx[w].outcome))
    BY <1>3 DEF RecoverResolve
  <2>2. Resolved(RowOf(w), ctx[w].outcome) \in Row
    BY <1>c, ResolvedType
  <2> QED BY <1>a, <1>b, <2>1, <2>2, WriteIfUnchangedTyped, GotoTyped, IdleType, IdleRole
<1>4. CASE ReconcileAsk(w)
  <2>1. PICK answer \in {StatusAnswer(ctx[w].id), "retryable", "terminal"} :
           Goto(w, [ctx[w] EXCEPT !.at = "reconcile_polled", !.outcome = answer])
    BY <1>4 DEF ReconcileAsk
  <2> DEFINE next == [ctx[w] EXCEPT !.at = "reconcile_polled", !.outcome = answer]
  <2>2. answer \in Outcome
    BY StatusAnswerType DEF Outcome
  <2>3. next \in Local
    BY <1>a, <2>2 DEF Local, Stage
  <2>4. Role(w, next)
    BY <1>a, <1>c DEF Role, Local, Recovering, Reconciling, Executing, Polling
  <2>5. Goto(w, next)
    BY <2>1
  <2> HIDE DEF next
  <2> QED BY <1>a, <2>3, <2>4, <2>5, GotoTyped
<1>5. CASE ReconcileWrite(w)
  <2>1. Reconciled(RowOf(w), ctx[w].outcome, ctx[w].checks) \in Row
    BY <1>a, <1>c, ReconciledType DEF Local
  <2> QED BY <1>a, <1>b, <1>5, <2>1, WriteIfUnchangedTyped DEF ReconcileWrite
<1> QED BY <1>1, <1>2, <1>3, <1>4, <1>5 DEF RecoveryStep, ReconcileStep

LEMMA CliTyped ==
    ASSUME Typed, NEW c \in Clis, CliStep(c)
    PROVE  Typed'
<1>a. c \in Actors /\ ctx[c] \in Local
  BY DEF Actors, Typed, TypeOK
<1>b. sub' \in [Ids -> Submission]
  BY DEF Typed, TypeOK, CliStep, CliStart, CliInsert, CliRequeue
<1>c. \A p \in Posts, stage \in {"cli_claim", "cli_insert", "cli_failed"} :
         /\ [Idle EXCEPT !.at = stage, !.post = p] \in Local
         /\ Role(c, [Idle EXCEPT !.at = stage, !.post = p])
  BY IdleType, PlatformPostAssumption
  DEF Local, Stage, Role, Executing, Polling, Recovering, Reconciling
<1>1. ASSUME NEW p \in Posts, CliStart(c, p)
      PROVE  Typed'
  <2>1. CASE Goto(c, PollRecord(p))
    <3>1. Role(c, PollRecord(p))
      BY PollRecordType, PlatformPostAssumption
      DEF Role, Recovering, Reconciling, Executing, Polling
    <3> QED BY <1>a, <1>b, <2>1, <3>1, PollRecordType, GotoTyped
  <2>2. CASE \E stage \in {"cli_claim", "cli_insert", "cli_failed"} :
                Goto(c, [Idle EXCEPT !.at = stage, !.post = p])
    BY <1>a, <1>b, <1>c, <2>2, GotoTyped
  <2>3. \/ Goto(c, PollRecord(p))
        \/ Goto(c, [Idle EXCEPT !.post = p,
                        !.at = CASE post[p].status = "ABSENT" -> "cli_insert"
                                 [] post[p].status = "FAILED" -> "cli_failed"
                                 [] OTHER -> "cli_claim"])
    BY <1>1 DEF CliStart
  <2>4. \A stage : [Idle EXCEPT !.post = p, !.at = stage]
                   = [Idle EXCEPT !.at = stage, !.post = p]
    BY DEF Idle
  <2> QED BY <2>1, <2>2, <2>3, <2>4
<1>2. CASE CliInsert(c)
  <2>1. P(c) \in Posts
    BY <1>a, <1>2, RowOfType DEF CliInsert, At
  <2>2. \A slot \in {"never", "later", "now"} :
           [NoRow EXCEPT !.status = "PENDING", !.eligible = slot] \in Row
    BY NoRowType DEF Row
  <2>3. \/ Goto(c, Idle)
        \/ \E slot \in {"never", "later", "now"} :
              Write(c, P(c), [NoRow EXCEPT !.status = "PENDING", !.eligible = slot],
                    [Idle EXCEPT !.at = "cli_claim", !.post = P(c)])
    BY <1>2 DEF CliInsert
  <2> QED BY <1>a, <1>b, <1>c, <2>1, <2>2, <2>3, GotoTyped, WriteTyped, IdleType, IdleRole
<1>3. CASE CliRequeue(c)
  <2>1. P(c) \in Posts /\ RowOf(c) \in Row
    BY <1>a, <1>3, RowOfType DEF CliRequeue, At
  <2>2. [RowOf(c) EXCEPT !.status = "PENDING", !.retry_count = 0] \in Row
    BY <2>1, ZeroInRange DEF Row
  <2> QED BY <1>a, <1>b, <1>c, <1>3, <2>1, <2>2, WriteTyped DEF CliRequeue
<1> QED BY <1>1, <1>2, <1>3 DEF CliStep

LEMMA RetryTyped ==
    ASSUME Typed, NEW u \in Users,
           RetryPost(u) \/ \E p \in Posts : ReadForRetry(u, p)
    PROVE  Typed'
<1>a. u \in Actors /\ ctx[u] \in Local
  BY DEF Actors, Typed, TypeOK
<1>1. ASSUME NEW p \in Posts, ReadForRetry(u, p)
      PROVE  Typed'
  <2> DEFINE next == [Idle EXCEPT !.at = "retrying", !.post = p, !.fresh = TRUE]
  <2>1. next \in Local
    BY IdleType DEF Local, Stage
  <2>2. Role(u, next)
    BY PlatformPostAssumption DEF Role, Idle, Recovering, Reconciling, Executing, Polling
  <2>3. Goto(u, next) /\ sub' \in [Ids -> Submission]
    BY <1>1 DEF ReadForRetry, Typed, TypeOK
  <2> HIDE DEF next
  <2> QED BY <1>a, <2>1, <2>2, <2>3, GotoTyped
<1>2. CASE RetryPost(u)
  <2>1. ~At(u, "idle") /\ P(u) \in Posts /\ RowOf(u) \in Row
    BY <1>a, <1>2, RowOfType DEF RetryPost, At
  <2>2. Recheck(RowOf(u)) \in Row /\ \A early \in BOOLEAN : Resubmit(RowOf(u), early) \in Row
    BY <2>1, ZeroInRange, LaterType DEF Recheck, Resubmit, Row
  <2>3. sub \in [Ids -> Submission]
    BY DEF Typed, TypeOK
  <2>4. sub' = sub \/ Disown(P(u))
    BY <1>2 DEF RetryPost
  <2>5. sub' \in [Ids -> Submission]
    BY <2>3, <2>4 DEF Disown, Submission
  <2>6. \/ Goto(u, Idle) \/ Write(u, P(u), Recheck(RowOf(u)), Idle)
        \/ \E early \in BOOLEAN : Write(u, P(u), Resubmit(RowOf(u), early), Idle)
    BY <1>2 DEF RetryPost, WriteIfUnchanged
  <2> QED BY <1>a, <2>1, <2>2, <2>5, <2>6, GotoTyped, WriteTyped, IdleType, IdleRole
<1> QED BY <1>1, <1>2

LEMMA OutsideTyped ==
    ASSUME Typed, (\E i \in Ids : TikTokSettles(i)) \/ (\E a \in Actors : Crash(a))
    PROVE  Typed'
<1>1. ASSUME NEW i \in Ids, TikTokSettles(i)
      PROVE  Typed'
  <2>1. sub' \in [Ids -> Submission]
    BY <1>1 DEF TikTokSettles, Typed, TypeOK, Submission
  <2> QED BY <1>1, <2>1 DEF TikTokSettles, Typed, TypeOK, Roles
<1>2. ASSUME NEW a \in Actors, Crash(a)
      PROVE  Typed'
  <2>1. Goto(a, Idle) /\ sub' \in [Ids -> Submission]
    BY <1>2 DEF Crash, Typed, TypeOK
  <2> QED BY <2>1, GotoTyped, IdleType, IdleRole
<1> QED BY <1>1, <1>2

LEMMA InitTyped == Init => Typed
<1> SUFFICES ASSUME Init PROVE Typed
  OBVIOUS
<1>1. NoRow \in Row
  BY NoRowType
<1>2. [post |-> None, media |-> "none", disowned |-> FALSE] \in Submission
  BY DEF Submission
<1> QED BY <1>1, <1>2, IdleType, IdleRole DEF Init, Typed, TypeOK, Roles

LEMMA NextTyped == Typed /\ [Next]_vars => Typed'
<1> SUFFICES ASSUME Typed, [Next]_vars PROVE Typed'
  OBVIOUS
<1>1. CASE UNCHANGED vars
  BY <1>1 DEF vars, Typed, TypeOK, Roles
<1>2. CASE Next
  BY <1>2, DatabaseTyped, SelectTyped, ExecuteTyped, RecoveryTyped, CliTyped, RetryTyped,
     OutsideTyped
  DEF Next, Steps
<1> QED BY <1>1, <1>2

LEMMA AlwaysTyped == Spec => []Typed
<1> QED BY InitTyped, NextTyped, PTL DEF Spec

\* Every row, submission and process keeps its type, whatever the processes,
\* crashes and budgets: the counters never pass their limits.
THEOREM TypeCorrect == Spec => []TypeOK
<1>1. Typed => TypeOK
  BY DEF Typed
<1> QED BY <1>1, AlwaysTyped, PTL

-----------------------------------------------------------------------------
(***************************************************************************)
(* Sourced: where ids and outcomes come from.  What a step has to show for *)
(* it is stated once, in SourcedGoto and SourcedWrite.                     *)
(***************************************************************************)

Grounded == Typed /\ UnusedIds /\ Sourced

\* TikTok's side only gains: owners stay, and so does what was settled.
Gains(s) ==
    \A i \in Ids :
        /\ sub[i].post # None => s[i].post = sub[i].post
        /\ sub[i].media \in {"published", "failed"} => s[i].media = sub[i].media
        /\ s[i].post = None => s[i].media = "none"

LEMMA GroundedGains == Grounded => Gains(sub)
BY DEF Grounded, UnusedIds, Gains

LEMMA SourcesStay ==
    ASSUME Grounded, Gains(sub')
    PROVE  /\ \A p \in Posts : RowSourced(p, post[p], sub')
           /\ \A a \in Actors : LocalSourced(ctx[a], sub')
<1>1. ASSUME NEW p \in Posts PROVE RowSourced(p, post[p], sub')
  <2>1. RowSourced(p, post[p], sub) /\ post[p] \in Row /\ p # None
    BY PlatformPostAssumption DEF Grounded, Sourced, Typed, TypeOK
  <2>2. post[p].platform_post_id # None => sub'[post[p].platform_post_id].post = p
    BY <2>1 DEF RowSourced, Row, Gains
  <2>3. ASSUME post[p].status = "PUBLISHED"
        PROVE  \E i \in Ids : sub'[i].post = p /\ sub'[i].media = "published"
    <3>1. PICK i \in Ids : sub[i].post = p /\ sub[i].media = "published"
      BY <2>1, <2>3 DEF RowSourced
    <3> QED BY <2>1, <3>1 DEF Gains
  <2> QED BY <2>1, <2>2, <2>3 DEF RowSourced
<1>2. ASSUME NEW a \in Actors PROVE LocalSourced(ctx[a], sub')
  <2>1. LocalSourced(ctx[a], sub) /\ ctx[a] \in Local
    BY DEF Grounded, Sourced, Typed, TypeOK
  <2> QED BY <2>1 DEF LocalSourced, Local, Gains
<1> QED BY <1>1, <1>2

LEMMA SourcedGoto ==
    ASSUME Grounded, Typed', NEW a \in Actors, NEW next, Goto(a, next), Gains(sub'),
           LocalSourced(next, sub'), Present(next, post[next.post])
    PROVE  Grounded'
<1>1. /\ ctx'[a] = next /\ post' = post
      /\ \A b \in Actors : b # a => ctx'[b] = ctx[b]
  BY DEF Goto, Grounded, Typed, TypeOK
<1>2. \A p \in Posts : RowSourced(p, post'[p], sub')
  BY <1>1, SourcesStay
<1>3. \A b \in Actors : LocalSourced(ctx'[b], sub') /\ Present(ctx'[b], post'[ctx'[b].post])
  BY <1>1, SourcesStay DEF Grounded, Sourced, RowOf
<1> QED BY <1>2, <1>3 DEF Grounded, Sourced, RowOf, UnusedIds, Gains

LEMMA SourcedWrite ==
    ASSUME Grounded, Typed', NEW a \in Actors, NEW p \in Posts, NEW row, NEW next,
           Write(a, p, row, next), Gains(sub'), row.status # "ABSENT",
           RowSourced(p, row, sub'), LocalSourced(next, sub'), next.post \in {p, None},
           next.post = None => next.at = "idle"
    PROVE  Grounded'
<1>1. /\ post'[p] = row /\ ctx'[a] = next
      /\ \A q \in Posts : q # p => post'[q] = post[q]
  BY DEF Write, Grounded, Typed, TypeOK
<1>2. \A q \in Posts : RowSourced(q, post'[q], sub')
  BY <1>1, SourcesStay
<1>3. ASSUME NEW b \in Actors
      PROVE  LocalSourced(ctx'[b], sub') /\ Present(ctx'[b], post'[ctx'[b].post])
  <2>1. CASE b = a
    BY <1>1, <2>1 DEF Present
  <2>2. CASE b # a
    <3>1. /\ ctx[b] \in Local /\ Role(b, ctx[b]) /\ Present(ctx[b], post[ctx[b].post])
          /\ ctx'[b] = [ctx[b] EXCEPT !.fresh = ctx[b].fresh /\ ctx[b].post # p]
      BY <2>2 DEF Write, Grounded, Sourced, RowOf, Typed, TypeOK, Roles
    <3>2. /\ ctx'[b].at = ctx[b].at /\ ctx'[b].post = ctx[b].post
          /\ ctx'[b].id = ctx[b].id /\ ctx'[b].outcome = ctx[b].outcome
      BY <3>1 DEF Local
    <3>3. LocalSourced(ctx[b], sub')
      BY SourcesStay
    <3>4. ctx[b].at # "idle" => ctx[b].post \in Posts
      BY <3>1 DEF Role, Local
    <3> QED BY <1>1, <3>1, <3>2, <3>3, <3>4 DEF LocalSourced, Present
  <2> QED BY <2>1, <2>2
<1> QED BY <1>2, <1>3 DEF Grounded, Sourced, RowOf, UnusedIds, Gains

LEMMA IdleSourced == \A s, row : LocalSourced(Idle, s) /\ Present(Idle, row) /\ Idle.post = None
BY DEF Idle, LocalSourced, Present, Asked

LEMMA SourcedIdle ==
    ASSUME Grounded, Typed', NEW a \in Actors, Goto(a, Idle), Gains(sub')
    PROVE  Grounded'
BY SourcedGoto, IdleSourced

\* What is known of a busy process.
LEMMA HereSourced ==
    ASSUME Grounded, NEW a \in Actors, ctx[a].at \notin {"idle", "cli_insert"}
    PROVE  /\ ctx[a] \in Local /\ ctx[a].post = P(a) /\ P(a) \in Posts /\ P(a) # None
           /\ RowOf(a) \in Row /\ RowOf(a) = post[P(a)] /\ RowOf(a).status # "ABSENT"
           /\ RowSourced(P(a), RowOf(a), sub) /\ LocalSourced(ctx[a], sub)
<1>1. P(a) \in Posts /\ RowOf(a) \in Row /\ P(a) # None
  BY RowOfType, PlatformPostAssumption DEF Grounded, At
<1> QED BY <1>1 DEF Grounded, Sourced, Present, Typed, TypeOK, P, RowOf

\* A write that keeps the id or drops it, and the status unless it makes it one
\* that claims nothing.
LEMMA SourceKept ==
    ASSUME NEW p, NEW row, NEW s, RowSourced(p, row, s), row.status # "ABSENT",
           NEW next, next.platform_post_id \in {row.platform_post_id, None},
           next.status \in {row.status, "PENDING", "PUBLISHING", "FAILED", "UNKNOWN"}
    PROVE  RowSourced(p, next, s) /\ next.status # "ABSENT"
BY DEF RowSourced

LEMMA RetryOrFailSource ==
    ASSUME NEW row \in Row, NEW retryable, NEW tries
    PROVE  /\ RetryOrFail(row, retryable, tries).platform_post_id = row.platform_post_id
           /\ RetryOrFail(row, retryable, tries).status \in {"PENDING", "FAILED"}
BY DEF RetryOrFail, Row

\* TikTok's answer about l.id, written to a row of the same post.
LEMMA ResolvedSourced ==
    ASSUME NEW p, NEW row \in Row, NEW l \in Local, l.post = p, l.at \in Asked,
           RowSourced(p, row, sub), row.status # "ABSENT", LocalSourced(l, sub)
    PROVE  /\ RowSourced(p, Resolved(row, l.outcome), sub)
           /\ Resolved(row, l.outcome).status # "ABSENT"
<1>1. CASE l.outcome = "PUBLISH_COMPLETE"
  <2>1. l.id \in Ids /\ sub[l.id].post = p /\ sub[l.id].media = "published"
    BY <1>1 DEF LocalSourced, Local
  <2> QED BY <1>1, <2>1 DEF Resolved, RowSourced, Row
<1>2. CASE l.outcome # "PUBLISH_COMPLETE"
  BY <1>2, SourceKept DEF Resolved, Row
<1> QED BY <1>1, <1>2

LEMMA StatusAnswerSourced ==
    ASSUME NEW i
    PROVE  StatusAnswer(i) = "PUBLISH_COMPLETE" => i # None /\ sub[i].media = "published"
BY DEF StatusAnswer

\* A step of process a changes nothing of other posts, and never makes an
\* overtaken post an orderly one.
Confined(a) ==
    /\ \A q \in Posts : q # P(a) => post'[q] = post[q]
    /\ RowOf(a).overtaken => post'[P(a)].overtaken
    /\ ctx'[a].post \in {P(a), None}
    /\ \A b \in Actors : b # a =>
          ctx'[b].post = ctx[b].post /\ (ctx[b].post # P(a) => ctx'[b] = ctx[b])
    /\ \A i \in Ids : sub[i].post # P(a) =>
          \/ sub'[i] = sub[i]
          \/ sub[i].post = None /\ sub'[i].post = P(a)

\* What is shown of a step of process a.
Sound(a) == Grounded' /\ Gains(sub') /\ Confined(a)

LEMMA StepGoto ==
    ASSUME Grounded, Typed', NEW a \in Actors, NEW next, Goto(a, next), sub' = sub,
           next.post \in {P(a), None}, LocalSourced(next, sub),
           Present(next, post[next.post])
    PROVE  Sound(a)
<1>1. Gains(sub')
  BY GroundedGains
<1>2. Grounded'
  BY <1>1, SourcedGoto
<1>3. Confined(a)
  BY DEF Confined, Goto, Grounded, Typed, TypeOK, RowOf, P
<1> QED BY <1>1, <1>2, <1>3 DEF Sound

LEMMA StepWrite ==
    ASSUME Grounded, Typed', NEW a \in Actors, P(a) \in Posts, NEW row, NEW next,
           Write(a, P(a), row, next), sub' = sub, row.status # "ABSENT",
           RowSourced(P(a), row, sub), LocalSourced(next, sub), next.post \in {P(a), None},
           next.post = None => next.at = "idle", RowOf(a).overtaken => row.overtaken
    PROVE  Sound(a)
<1>1. Gains(sub')
  BY GroundedGains
<1>2. Grounded'
  BY <1>1, SourcedWrite
<1>3. Confined(a)
  <2>1. \A b \in Actors : ctx[b] \in Local
    BY DEF Grounded, Typed, TypeOK
  <2> QED BY <2>1 DEF Confined, Write, Grounded, Typed, TypeOK, RowOf, P, Local
<1> QED BY <1>1, <1>2, <1>3 DEF Sound

LEMMA StepIdle ==
    ASSUME Grounded, Typed', NEW a \in Actors, Goto(a, Idle), sub' = sub
    PROVE  Sound(a)
BY StepGoto, IdleSourced

LEMMA StepWriteIdle ==
    ASSUME Grounded, Typed', NEW a \in Actors, P(a) \in Posts, NEW row,
           Write(a, P(a), row, Idle), sub' = sub, row.status # "ABSENT",
           RowSourced(P(a), row, sub), RowOf(a).overtaken => row.overtaken
    PROVE  Sound(a)
BY StepWrite, IdleSourced DEF Idle

LEMMA StepIfUnchanged ==
    ASSUME Grounded, Typed', NEW a \in Actors, P(a) \in Posts, NEW row,
           WriteIfUnchanged(a, row), sub' = sub, row.status # "ABSENT",
           RowSourced(P(a), row, sub), RowOf(a).overtaken => row.overtaken
    PROVE  Sound(a)
BY StepIdle, StepWriteIdle DEF WriteIfUnchanged

\* A process moves on to a stage in which it holds no answer.
LEMMA MovesOn ==
    ASSUME NEW l \in Local, NEW s, LocalSourced(l, s), NEW stage \in Stage \ Asked,
           NEW outcome \in Outcome
    PROVE  /\ LocalSourced([l EXCEPT !.at = stage], s)
           /\ LocalSourced([l EXCEPT !.at = stage, !.outcome = outcome], s)
           /\ [l EXCEPT !.at = stage].post = l.post
           /\ [l EXCEPT !.at = stage, !.outcome = outcome].post = l.post
           /\ [l EXCEPT !.at = stage].at = stage
           /\ [l EXCEPT !.at = stage, !.outcome = outcome].at = stage
BY DEF LocalSourced, Local

LEMMA RetryOrFailSourced ==
    ASSUME NEW p, NEW row \in Row, NEW s, RowSourced(p, row, s), row.status # "ABSENT",
           NEW retryable, NEW tries
    PROVE  LET next == RetryOrFail(row, retryable, tries) IN
           /\ RowSourced(p, next, s) /\ next.status # "ABSENT"
           /\ next.overtaken = row.overtaken
BY DEF RowSourced, RetryOrFail, Row

\* One step per action.
LEMMA SubmitSound ==
    ASSUME Grounded, Typed', NEW a \in Workers \cup Clis,
           Claim(a) \/ LoadMedia(a) \/ Checkpoint(a)
    PROVE  Sound(a)
<1>a. a \in Actors /\ ctx[a].at \notin {"idle", "cli_insert"} /\ sub' = sub
  BY DEF Actors, At, Claim, LoadMedia, Checkpoint
<1>b. /\ ctx[a] \in Local /\ ctx[a].post = P(a) /\ P(a) \in Posts /\ P(a) # None
      /\ RowOf(a) \in Row /\ RowOf(a) = post[P(a)] /\ RowOf(a).status # "ABSENT"
      /\ RowSourced(P(a), RowOf(a), sub) /\ LocalSourced(ctx[a], sub)
  BY <1>a, HereSourced
<1>c. \A status \in {"PUBLISHING", "FAILED"} :
         LET row == [RowOf(a) EXCEPT !.status = status] IN
         /\ row.status # "ABSENT" /\ RowSourced(P(a), row, sub)
         /\ row.overtaken = RowOf(a).overtaken
  BY <1>b DEF Row, RowSourced
<1>1. CASE Claim(a)
  <2> DEFINE next == [Idle EXCEPT !.at = "claimed", !.post = P(a),
                                  !.retry_count = RowOf(a).retry_count]
             row == [RowOf(a) EXCEPT !.status = "PUBLISHING"]
  <2>1. next.at = "claimed" /\ next.post = P(a) /\ LocalSourced(next, sub)
    BY DEF Idle, LocalSourced, Asked
  <2>2. row.status # "ABSENT" /\ RowSourced(P(a), row, sub) /\ row.overtaken = RowOf(a).overtaken
    BY <1>c
  <2>3. Write(a, P(a), row, next) \/ Goto(a, Idle)
    BY <1>1 DEF Claim
  <2> HIDE DEF next, row
  <2> QED BY <1>a, <1>b, <2>1, <2>2, <2>3, StepIdle, StepWrite
<1>2. CASE LoadMedia(a)
  <2>1. CASE Goto(a, [ctx[a] EXCEPT !.at = "loaded"])
    <3> DEFINE next == [ctx[a] EXCEPT !.at = "loaded"]
    <3>1. LocalSourced(next, sub) /\ next.post = P(a)
      BY <1>b DEF LocalSourced, Local, Asked
    <3>2. Present(next, post[next.post])
      BY <1>b, <3>1 DEF Present
    <3>3. Goto(a, next)
      BY <2>1
    <3> HIDE DEF next
    <3> QED BY <1>a, <3>1, <3>2, <3>3, StepGoto
  <2>2. CASE Write(a, P(a), [RowOf(a) EXCEPT !.status = "FAILED"], Idle)
    BY <1>a, <1>b, <1>c, <2>2, StepWriteIdle
  <2>3. ASSUME NEW retryable \in BOOLEAN,
               Write(a, P(a), RetryOrFail(RowOf(a), retryable, ctx[a].retry_count), Idle)
        PROVE  Sound(a)
    BY <1>a, <1>b, <2>3, RetryOrFailSourced, StepWriteIdle
  <2> QED BY <1>2, <2>1, <2>2, <2>3 DEF LoadMedia
<1>3. CASE Checkpoint(a)
  <2>1. CASE Write(a, P(a), [RowOf(a) EXCEPT !.status = "FAILED"], Idle)
    BY <1>a, <1>b, <1>c, <2>1, StepWriteIdle
  <2>2. ASSUME NEW state,
               Write(a, P(a), [RowOf(a) EXCEPT !.submission_state = state],
                     [ctx[a] EXCEPT !.at = "submitting"])
        PROVE  Sound(a)
    <3> DEFINE next == [ctx[a] EXCEPT !.at = "submitting"]
               row == [RowOf(a) EXCEPT !.submission_state = state]
    <3>1. LocalSourced(next, sub) /\ next.post = P(a)
      BY <1>b DEF LocalSourced, Local, Asked
    <3>2. /\ row.status # "ABSENT" /\ RowSourced(P(a), row, sub)
          /\ row.overtaken = RowOf(a).overtaken
      BY <1>b DEF Row, RowSourced
    <3>3. Write(a, P(a), row, next)
      BY <2>2
    <3> HIDE DEF next, row
    <3> QED BY <1>a, <1>b, <3>1, <3>2, <3>3, StepWrite
  <2> QED BY <1>3, <2>1, <2>2 DEF Checkpoint
<1> QED BY <1>1, <1>2, <1>3

LEMMA InitSound ==
    ASSUME Grounded, Typed', NEW a \in Workers \cup Clis, InitUpload(a)
    PROVE  Sound(a)
<1>a. a \in Actors /\ ctx[a].at \notin {"idle", "cli_insert"}
  BY DEF Actors, At, InitUpload
<1>b. /\ ctx[a] \in Local /\ ctx[a].post = P(a) /\ P(a) \in Posts /\ P(a) # None
      /\ RowOf(a) \in Row /\ RowOf(a) = post[P(a)] /\ RowOf(a).status # "ABSENT"
      /\ RowSourced(P(a), RowOf(a), sub) /\ LocalSourced(ctx[a], sub)
  BY <1>a, HereSourced
<1>c. \A s : LocalSourced(ctx[a], s) => \A kind \in {"retryable", "terminal"} :
         LET next == [ctx[a] EXCEPT !.at = "erred", !.outcome = kind] IN
         next.post = P(a) /\ next.at = "erred" /\ LocalSourced(next, s)
  BY <1>b DEF LocalSourced, Local, Asked
<1>1. ASSUME NEW kind \in {"retryable", "terminal"},
             Goto(a, [ctx[a] EXCEPT !.at = "erred", !.outcome = kind]), sub' = sub
      PROVE  Sound(a)
  <2> DEFINE next == [ctx[a] EXCEPT !.at = "erred", !.outcome = kind]
  <2>1. next.post = P(a) /\ LocalSourced(next, sub)
    BY <1>b, <1>c
  <2>2. Goto(a, next) /\ Present(next, post[next.post])
    BY <1>1, <1>b, <2>1 DEF Present
  <2> HIDE DEF next
  <2> QED BY <1>1, <1>a, <2>1, <2>2, StepGoto
<1>2. ASSUME NEW i \in Ids, sub[i].post = None, sub' = [sub EXCEPT ![i].post = P(a)],
             NEW next, Goto(a, next), next.post = P(a), LocalSourced(next, sub')
      PROVE  Sound(a)
  <2>1. /\ sub'[i].post = P(a) /\ sub'[i].media = sub[i].media
        /\ \A j \in Ids : j # i => sub'[j] = sub[j]
    <3>1. sub[i] \in Submission
      BY DEF Grounded, Typed, TypeOK
    <3> QED BY <3>1, <1>2 DEF Submission, Grounded, Typed, TypeOK
  <2>2. Gains(sub')
    BY <1>b, <1>2, <2>1 DEF Gains, Grounded, UnusedIds
  <2>3. Present(next, post[next.post])
    BY <1>2, <1>b DEF Present
  <2>4. Grounded'
    BY <1>a, <1>2, <2>2, <2>3, SourcedGoto
  <2>5. Confined(a)
    BY <1>a, <1>2, <2>1 DEF Confined, Goto, Grounded, Typed, TypeOK, RowOf, P
  <2> QED BY <2>2, <2>4, <2>5 DEF Sound
<1>3. ASSUME NEW i \in Ids, sub[i].post = None, sub' = [sub EXCEPT ![i].post = P(a)],
             \/ Goto(a, [ctx[a] EXCEPT !.at = "initiated", !.id = i])
             \/ \E kind \in {"retryable", "terminal"} :
                   Goto(a, [ctx[a] EXCEPT !.at = "erred", !.outcome = kind])
      PROVE  Sound(a)
  <2>1. sub'[i].post = P(a)
    BY <1>3 DEF Grounded, Typed, TypeOK, Submission
  <2>2. /\ [ctx[a] EXCEPT !.at = "initiated", !.id = i].post = P(a)
        /\ LocalSourced([ctx[a] EXCEPT !.at = "initiated", !.id = i], sub')
    BY <1>b, <2>1 DEF LocalSourced, Local, Asked
  <2>3. LocalSourced(ctx[a], sub')
    <3>1. sub[ctx[a].id] = sub'[ctx[a].id] \/ ctx[a].id = i \/ ctx[a].id = None
      BY <1>3, <1>b DEF Local, Grounded, Typed, TypeOK
    <3> QED BY <1>b, <1>3, <2>1, <3>1 DEF LocalSourced
  <2>4. \A kind \in {"retryable", "terminal"} :
           LET next == [ctx[a] EXCEPT !.at = "erred", !.outcome = kind] IN
           next.post = P(a) /\ LocalSourced(next, sub')
    BY <1>c, <2>3
  <2>5. CASE Goto(a, [ctx[a] EXCEPT !.at = "initiated", !.id = i])
    BY <1>2, <1>3, <2>2, <2>5
  <2>6. ASSUME NEW kind \in {"retryable", "terminal"},
               Goto(a, [ctx[a] EXCEPT !.at = "erred", !.outcome = kind])
        PROVE  Sound(a)
    BY <1>2, <1>3, <2>4, <2>6
  <2> QED BY <1>3, <2>5, <2>6
<1> QED BY <1>1, <1>3 DEF InitUpload

LEMMA UploadSound ==
    ASSUME Grounded, Typed', NEW a \in Workers \cup Clis, UploadMedia(a)
    PROVE  Sound(a)
<1>a. a \in Actors /\ ctx[a].at = "uploading"
  BY DEF Actors, At, UploadMedia
<1>b. /\ ctx[a] \in Local /\ ctx[a].post = P(a) /\ P(a) \in Posts /\ P(a) # None
      /\ RowOf(a) \in Row /\ RowOf(a) = post[P(a)] /\ RowOf(a).status # "ABSENT"
      /\ RowSourced(P(a), RowOf(a), sub) /\ LocalSourced(ctx[a], sub)
  BY <1>a, HereSourced
<1>1. PICK sent \in BOOLEAN :
        /\ sub' = IF sent /\ sub[ctx[a].id].media = "none"
                  THEN [sub EXCEPT ![ctx[a].id].media = "sent"] ELSE sub
        /\ \/ sent /\ Goto(a, [ctx[a] EXCEPT !.at = "uploaded"])
           \/ \E kind \in {"retryable", "terminal"} :
                 Goto(a, [ctx[a] EXCEPT !.at = "erred", !.outcome = kind])
  BY DEF UploadMedia
<1>2. \A i \in Ids : /\ sub'[i].post = sub[i].post
                     /\ sub[i].media # "none" => sub'[i].media = sub[i].media
                     /\ i # ctx[a].id => sub'[i] = sub[i]
  <2>1. \A i \in Ids : sub[i] \in Submission
    BY DEF Grounded, Typed, TypeOK
  <2> QED BY <1>1, <2>1 DEF Submission, Grounded, Typed, TypeOK
<1>3. ctx[a].id \in Ids => sub[ctx[a].id].post = P(a)
  BY <1>b, PlatformPostAssumption DEF LocalSourced
<1>4. Gains(sub')
  BY <1>b, <1>2, <1>3 DEF Gains, Grounded, UnusedIds
<1>5. LocalSourced(ctx[a], sub')
  BY <1>a, <1>4, SourcesStay
<1>6. \E next : /\ Goto(a, next) /\ next.post = P(a) /\ next.at # "idle"
                /\ LocalSourced(next, sub')
  <2>1. CASE Goto(a, [ctx[a] EXCEPT !.at = "uploaded"])
    BY <1>b, <1>5, <2>1 DEF LocalSourced, Local, Asked
  <2>2. ASSUME NEW kind \in {"retryable", "terminal"},
               Goto(a, [ctx[a] EXCEPT !.at = "erred", !.outcome = kind])
        PROVE  \E next : /\ Goto(a, next) /\ next.post = P(a) /\ next.at # "idle"
                         /\ LocalSourced(next, sub')
    <3> DEFINE next == [ctx[a] EXCEPT !.at = "erred", !.outcome = kind]
    <3>1. next.post = P(a) /\ next.at = "erred" /\ LocalSourced(next, sub')
      BY <1>b, <1>5 DEF LocalSourced, Local, Asked
    <3>2. Goto(a, next)
      BY <2>2
    <3> HIDE DEF next
    <3> QED BY <3>1, <3>2
  <2> QED BY <1>1, <2>1, <2>2
<1>7. PICK next : /\ Goto(a, next) /\ next.post = P(a) /\ next.at # "idle"
                  /\ LocalSourced(next, sub')
  BY <1>6
<1>8. Grounded'
  BY <1>a, <1>b, <1>4, <1>7, SourcedGoto DEF Present
<1>9. Confined(a)
  BY <1>a, <1>b, <1>2, <1>3, <1>7 DEF Confined, Goto, Grounded, Typed, TypeOK, RowOf, P
<1> QED BY <1>4, <1>8, <1>9 DEF Sound

LEMMA HoldSound ==
    ASSUME Grounded, Typed', NEW a \in Workers \cup Clis,
           \/ PersistId(a) \/ RereadAfterError(a) \/ SettleError(a) \/ ConfirmId(a)
           \/ ReadForPoll(a) \/ PollAsk(a) \/ PollWrite(a)
    PROVE  Sound(a)
<1>a. a \in Actors /\ ctx[a].at \notin {"idle", "cli_insert"} /\ sub' = sub
  BY DEF Actors, At, PersistId, RereadAfterError, SettleError, ConfirmId, ReadForPoll,
         PollAsk, PollWrite
<1>b. /\ ctx[a] \in Local /\ ctx[a].post = P(a) /\ P(a) \in Posts /\ P(a) # None
      /\ RowOf(a) \in Row /\ RowOf(a) = post[P(a)] /\ RowOf(a).status # "ABSENT"
      /\ RowSourced(P(a), RowOf(a), sub) /\ LocalSourced(ctx[a], sub)
  BY <1>a, HereSourced
<1>c. ASSUME NEW stage \in {"uploading", "erred_id", "erred_no_id", "submitted"}
      PROVE  LET next == [ctx[a] EXCEPT !.at = stage] IN
             next.post = P(a) /\ next.at = stage /\ LocalSourced(next, sub)
  BY <1>b DEF LocalSourced, Local, Asked
<1>d. ASSUME NEW stage \in {"uploading", "erred_id", "erred_no_id", "submitted"},
             Goto(a, [ctx[a] EXCEPT !.at = stage])
      PROVE  Sound(a)
  <2> DEFINE next == [ctx[a] EXCEPT !.at = stage]
  <2>1. next.post = P(a) /\ LocalSourced(next, sub)
    BY <1>c
  <2>2. Goto(a, next) /\ Present(next, post[next.post])
    BY <1>b, <1>d, <2>1 DEF Present
  <2> HIDE DEF next
  <2> QED BY <1>a, <2>1, <2>2, StepGoto
<1>e. ASSUME NEW stage \in {"uploading", "submitted"},
             Write(a, P(a), WithId(RowOf(a), ctx[a].id), [ctx[a] EXCEPT !.at = stage])
      PROVE  Sound(a)
  <2> DEFINE next == [ctx[a] EXCEPT !.at = stage]
             row == WithId(RowOf(a), ctx[a].id)
  <2>1. next.post = P(a) /\ LocalSourced(next, sub)
    BY <1>c
  <2>2. /\ row.status = "PUBLISHING" /\ row.platform_post_id = ctx[a].id
        /\ row.overtaken = RowOf(a).overtaken
    BY <1>b DEF WithId, Row
  <2>3. RowSourced(P(a), row, sub)
    BY <1>b, <2>2 DEF RowSourced, LocalSourced
  <2>4. Write(a, P(a), row, next)
    BY <1>e
  <2> HIDE DEF next, row
  <2> QED BY <1>a, <1>b, <2>1, <2>2, <2>3, <2>4, StepWrite
<1>1. CASE PersistId(a)
  BY <1>1, <1>d, <1>e DEF PersistId
<1>2. CASE RereadAfterError(a)
  BY <1>2, <1>d DEF RereadAfterError
<1>3. CASE SettleError(a)
  <2>1. CASE Write(a, P(a), RowOf(a), Idle)
    BY <1>a, <1>b, <2>1, StepWriteIdle
  <2>2. CASE Write(a, P(a), RetryOrFail(RowOf(a), ctx[a].outcome = "retryable",
                                        ctx[a].retry_count), Idle)
    BY <1>a, <1>b, <2>2, RetryOrFailSourced, StepWriteIdle
  <2> QED BY <1>3, <2>1, <2>2 DEF SettleError
<1>4. CASE ConfirmId(a)
  BY <1>4, <1>d, <1>e DEF ConfirmId
<1>5. CASE ReadForPoll(a)
  <2> DEFINE next == PollRecord(P(a))
  <2>1. next.post = P(a) /\ next.at = "polling" /\ next.id = RowOf(a).platform_post_id
    BY <1>b, PollRecordType DEF Grounded
  <2>2. LocalSourced(next, sub) /\ Present(next, post[next.post])
    BY <1>b, <2>1 DEF LocalSourced, Present, RowSourced, Asked
  <2>3. Goto(a, next)
    BY <1>5 DEF ReadForPoll
  <2> HIDE DEF next
  <2> QED BY <1>a, <2>1, <2>2, <2>3, StepGoto
<1>6. CASE PollAsk(a)
  <2> DEFINE next == [ctx[a] EXCEPT !.at = "polled", !.outcome = StatusAnswer(ctx[a].id)]
  <2>1. next.post = P(a) /\ next.id = ctx[a].id /\ next.outcome = StatusAnswer(ctx[a].id)
    BY <1>b DEF Local
  <2>2. LocalSourced(next, sub) /\ Present(next, post[next.post])
    BY <1>b, <2>1, StatusAnswerSourced DEF LocalSourced, Present
  <2>3. Goto(a, next) \/ Goto(a, Idle)
    BY <1>6 DEF PollAsk
  <2> HIDE DEF next
  <2> QED BY <1>a, <2>1, <2>2, <2>3, StepGoto, StepIdle
<1>7. CASE PollWrite(a)
  <2>1. CASE Write(a, P(a), Resolved(RowOf(a), ctx[a].outcome), Idle)
    <3>1. ctx[a].at \in Asked
      BY <1>7 DEF PollWrite, At, Asked
    <3>2. Resolved(RowOf(a), ctx[a].outcome).overtaken = RowOf(a).overtaken
      BY <1>b DEF Resolved, Row
    <3> QED BY <1>a, <1>b, <2>1, <3>1, <3>2, ResolvedSourced, StepWriteIdle
  <2>2. CASE Write(a, P(a), [RowOf(a) EXCEPT !.status_check_count = Capped(ctx[a].checks)],
                   Idle)
    <3> DEFINE row == [RowOf(a) EXCEPT !.status_check_count = Capped(ctx[a].checks)]
    <3>1. /\ row.status # "ABSENT" /\ RowSourced(P(a), row, sub)
          /\ row.overtaken = RowOf(a).overtaken
      BY <1>b DEF Row, RowSourced
    <3>2. Write(a, P(a), row, Idle)
      BY <2>2
    <3> HIDE DEF row
    <3> QED BY <1>a, <1>b, <3>1, <3>2, StepWriteIdle
  <2> QED BY <1>7, <2>1, <2>2 DEF PollWrite
<1> QED BY <1>a, <1>1, <1>2, <1>3, <1>4, <1>5, <1>6, <1>7

LEMMA RecoverySound ==
    ASSUME Grounded, Typed', NEW w \in Workers, RecoveryStep(w) \/ ReconcileStep(w)
    PROVE  Sound(w)
<1>a. w \in Actors /\ ctx[w].at \notin {"idle", "cli_insert"} /\ sub' = sub
  BY DEF Actors, At, RecoveryStep, ReconcileStep, RecoverUnsubmitted, RecoverAsk,
         RecoverResolve, ReconcileAsk, ReconcileWrite
<1>b. /\ ctx[w] \in Local /\ ctx[w].post = P(w) /\ P(w) \in Posts /\ P(w) # None
      /\ RowOf(w) \in Row /\ RowOf(w) = post[P(w)] /\ RowOf(w).status # "ABSENT"
      /\ RowSourced(P(w), RowOf(w), sub) /\ LocalSourced(ctx[w], sub)
  BY <1>a, HereSourced
<1>c. /\ \A status \in {"PENDING", "UNKNOWN"} :
            LET row == [RowOf(w) EXCEPT !.status = status] IN
            /\ row.status # "ABSENT" /\ RowSourced(P(w), row, sub)
            /\ row.overtaken = RowOf(w).overtaken
      /\ \A n :
            LET row == [RowOf(w) EXCEPT !.status_check_count = n] IN
            /\ row.status # "ABSENT" /\ RowSourced(P(w), row, sub)
            /\ row.overtaken = RowOf(w).overtaken
  BY <1>b DEF Row, RowSourced
<1>d. ctx[w].at \in Asked =>
         LET row == Resolved(RowOf(w), ctx[w].outcome) IN
         /\ row.status # "ABSENT" /\ RowSourced(P(w), row, sub)
         /\ row.overtaken = RowOf(w).overtaken
  <2>1. Resolved(RowOf(w), ctx[w].outcome).overtaken = RowOf(w).overtaken
    BY <1>b DEF Resolved, Row
  <2> QED BY <1>b, <2>1, ResolvedSourced
<1>e. ASSUME NEW stage \in Asked, NEW outcome,
             outcome \in {StatusAnswer(ctx[w].id), "retryable", "terminal"},
             Goto(w, [ctx[w] EXCEPT !.at = stage, !.outcome = outcome])
      PROVE  Sound(w)
  <2> DEFINE next == [ctx[w] EXCEPT !.at = stage, !.outcome = outcome]
  <2>1. next.post = P(w) /\ next.id = ctx[w].id /\ next.outcome = outcome
    BY <1>b DEF Local
  <2>2. LocalSourced(next, sub) /\ Present(next, post[next.post])
    BY <1>b, <1>e, <2>1, StatusAnswerSourced DEF LocalSourced, Present
  <2>3. Goto(w, next)
    BY <1>e
  <2> HIDE DEF next
  <2> QED BY <1>a, <2>1, <2>2, <2>3, StepGoto
<1>1. CASE RecoverUnsubmitted(w)
  <2>1. LET row == RetryOrFail(RowOf(w), TRUE, ctx[w].retry_count) IN
        /\ row.status # "ABSENT" /\ RowSourced(P(w), row, sub)
        /\ row.overtaken = RowOf(w).overtaken
    BY <1>b DEF RetryOrFail, RowSourced, Row
  <2>2. \/ WriteIfUnchanged(w, [RowOf(w) EXCEPT !.status = "PENDING"])
        \/ WriteIfUnchanged(w, [RowOf(w) EXCEPT !.status = "UNKNOWN"])
        \/ WriteIfUnchanged(w, RetryOrFail(RowOf(w), TRUE, ctx[w].retry_count))
    BY <1>1, <1>b, PlatformPostAssumption DEF RecoverUnsubmitted, Row
  <2> QED BY <1>a, <1>b, <1>c, <2>1, <2>2, StepIfUnchanged
<1>2. CASE RecoverAsk(w)
  BY <1>2, <1>a, <1>e, StepIdle DEF RecoverAsk, Asked
<1>3. CASE RecoverResolve(w)
  <2>1. ctx[w].at \in Asked
    BY <1>3 DEF RecoverResolve, At, Asked
  <2> QED BY <1>3, <1>a, <1>b, <1>d, <2>1, StepIdle, StepIfUnchanged DEF RecoverResolve
<1>4. CASE ReconcileAsk(w)
  BY <1>4, <1>e DEF ReconcileAsk, Asked
<1>5. CASE ReconcileWrite(w)
  <2>1. ctx[w].at \in Asked
    BY <1>5 DEF ReconcileWrite, At, Asked
  <2>2. \/ \E n : WriteIfUnchanged(w, [RowOf(w) EXCEPT !.status_check_count = n])
        \/ WriteIfUnchanged(w, [RowOf(w) EXCEPT !.status = "UNKNOWN"])
        \/ WriteIfUnchanged(w, Resolved(RowOf(w), ctx[w].outcome))
    BY <1>5, PlatformPostAssumption DEF ReconcileWrite, Reconciled
  <2> QED BY <1>a, <1>b, <1>c, <1>d, <2>1, <2>2, StepIfUnchanged
<1> QED BY <1>1, <1>2, <1>3, <1>4, <1>5 DEF RecoveryStep, ReconcileStep

LEMMA CliSound ==
    ASSUME Grounded, Typed', NEW c \in Clis, CliInsert(c) \/ CliRequeue(c)
    PROVE  Sound(c)
<1>a. c \in Actors /\ ctx[c].at # "idle" /\ sub' = sub
  BY DEF Actors, At, CliInsert, CliRequeue
<1>b. P(c) \in Posts /\ P(c) # None /\ RowOf(c) \in Row /\ RowSourced(P(c), RowOf(c), sub)
  BY <1>a, RowOfType, PlatformPostAssumption DEF Grounded, Sourced, At, RowOf, P
<1>c. LET next == [Idle EXCEPT !.at = "cli_claim", !.post = P(c)] IN
      next.post = P(c) /\ LocalSourced(next, sub)
  BY DEF Idle, LocalSourced, Asked
<1>1. ASSUME NEW slot \in {"never", "later", "now"}, RowOf(c).status = "ABSENT",
             Write(c, P(c), [NoRow EXCEPT !.status = "PENDING", !.eligible = slot],
                   [Idle EXCEPT !.at = "cli_claim", !.post = P(c)])
      PROVE  Sound(c)
  <2> DEFINE row == [NoRow EXCEPT !.status = "PENDING", !.eligible = slot]
             next == [Idle EXCEPT !.at = "cli_claim", !.post = P(c)]
  <2>1. row.status # "ABSENT" /\ RowSourced(P(c), row, sub)
    BY DEF NoRow, RowSourced
  <2>2. Write(c, P(c), row, next) /\ next.post = P(c) /\ LocalSourced(next, sub)
    BY <1>1, <1>c
  <2>3. ~RowOf(c).overtaken
    BY <1>1, <1>b DEF RowSourced
  <2> HIDE DEF row, next
  <2> QED BY <1>a, <1>b, <2>1, <2>2, <2>3, StepWrite
<1>2. CASE CliRequeue(c)
  <2> DEFINE row == [RowOf(c) EXCEPT !.status = "PENDING", !.retry_count = 0]
             next == [Idle EXCEPT !.at = "cli_claim", !.post = P(c)]
  <2>1. /\ row.status # "ABSENT" /\ RowSourced(P(c), row, sub)
        /\ row.overtaken = RowOf(c).overtaken
    BY <1>b DEF Row, RowSourced
  <2>2. Write(c, P(c), row, next) /\ next.post = P(c) /\ LocalSourced(next, sub)
    BY <1>2, <1>c DEF CliRequeue
  <2> HIDE DEF row, next
  <2> QED BY <1>a, <1>b, <2>1, <2>2, StepWrite
<1>3. CASE CliInsert(c)
  BY <1>3, <1>a, <1>1, StepIdle DEF CliInsert
<1> QED BY <1>2, <1>3

LEMMA RetrySound ==
    ASSUME Grounded, Typed', NEW u \in Users, RetryPost(u)
    PROVE  Sound(u)
<1>a. u \in Actors /\ ctx[u].at = "retrying"
  BY DEF Actors, At, RetryPost
<1>b. /\ ctx[u] \in Local /\ ctx[u].post = P(u) /\ P(u) \in Posts /\ P(u) # None
      /\ RowOf(u) \in Row /\ RowOf(u) = post[P(u)] /\ RowOf(u).status # "ABSENT"
      /\ RowSourced(P(u), RowOf(u), sub) /\ LocalSourced(ctx[u], sub)
  BY <1>a, HereSourced
<1>1. CASE Goto(u, Idle) /\ sub' = sub
  BY <1>a, <1>1, StepIdle
<1>2. CASE ctx[u].fresh /\ WriteIfUnchanged(u, Recheck(RowOf(u))) /\ sub' = sub
  <2>1. LET row == Recheck(RowOf(u)) IN
        /\ row.status # "ABSENT" /\ RowSourced(P(u), row, sub)
        /\ row.overtaken = RowOf(u).overtaken
    BY <1>b DEF Recheck, Row, RowSourced
  <2> QED BY <1>a, <1>b, <1>2, <2>1, StepIfUnchanged
<1>3. ASSUME ctx[u].fresh, sub' = sub \/ Disown(P(u)), NEW early,
             WriteIfUnchanged(u, Resubmit(RowOf(u), early))
      PROVE  Sound(u)
  <2> DEFINE row == Resubmit(RowOf(u), early)
  <2>1. /\ row.status = "PENDING" /\ row.platform_post_id = None
        /\ RowOf(u).overtaken => row.overtaken
    BY <1>b DEF Resubmit, Row
  <2>2. Write(u, P(u), row, Idle)
    BY <1>3 DEF WriteIfUnchanged
  <2>3. /\ \A i \in Ids : sub'[i].post = sub[i].post /\ sub'[i].media = sub[i].media
        /\ \A i \in Ids : sub[i].post # P(u) => sub'[i] = sub[i]
    <3>1. \A i \in Ids : sub[i] \in Submission
      BY DEF Grounded, Typed, TypeOK
    <3> QED BY <1>3, <3>1 DEF Disown, Submission
  <2>4. Gains(sub')
    BY <2>3 DEF Gains, Grounded, UnusedIds
  <2>5. RowSourced(P(u), row, sub')
    BY <2>1 DEF RowSourced
  <2> HIDE DEF row
  <2>6. Grounded'
    BY <1>a, <1>b, <2>1, <2>2, <2>4, <2>5, SourcedWrite, IdleSourced DEF Idle
  <2>7. Confined(u)
    <3>1. \A b \in Actors : ctx[b] \in Local
      BY DEF Grounded, Typed, TypeOK
    <3> QED BY <1>a, <1>b, <2>1, <2>2, <2>3, <3>1
            DEF Confined, Write, Grounded, Typed, TypeOK, RowOf, P, Local, Idle
  <2> QED BY <2>4, <2>6, <2>7 DEF Sound
<1> QED BY <1>1, <1>2, <1>3 DEF RetryPost

LEMMA CrashSound ==
    ASSUME Grounded, Typed', NEW a \in Actors, Crash(a)
    PROVE  Sound(a)
BY StepIdle DEF Crash

\* A process that works on a post: everything it does from here on.
BusyStep(a) ==
    \/ a \in Workers /\ (RecoveryStep(a) \/ ReconcileStep(a))
    \/ a \in Workers \cup Clis /\ ExecuteStep(a)
    \/ a \in Clis /\ (CliInsert(a) \/ CliRequeue(a))
    \/ a \in Users /\ RetryPost(a)
    \/ Crash(a)

LEMMA BusySound ==
    ASSUME Grounded, Typed', NEW a \in Actors, BusyStep(a)
    PROVE  Sound(a)
BY SubmitSound, InitSound, UploadSound, HoldSound, RecoverySound, CliSound, RetrySound,
   CrashSound
DEF BusyStep, ExecuteStep

\* A process that takes a post up.
LEMMA StartGrounded ==
    ASSUME Grounded, Typed', NEW a \in Actors, NEW p \in Posts,
           \/ a \in Workers /\ WorkerStarts(a, p)
           \/ a \in Clis /\ CliStart(a, p)
           \/ a \in Users /\ ReadForRetry(a, p)
    PROVE  Grounded' /\ Gains(sub')
<1>a. post[p] \in Row /\ RowSourced(p, post[p], sub) /\ p # None
  BY PlatformPostAssumption DEF Grounded, Sourced, Typed, TypeOK
<1>b. sub' = sub /\ Gains(sub')
  BY GroundedGains DEF WorkerStarts, SelectDue, SelectStale, SelectReconcilable, CliStart,
     ReadForRetry
<1>c. ASSUME NEW next, Goto(a, next), next.post = p, next.at \notin Asked,
             next.id \in {None, post[p].platform_post_id}, Present(next, post[p])
      PROVE  Grounded' /\ Gains(sub')
  <2>1. LocalSourced(next, sub)
    BY <1>a, <1>c DEF LocalSourced, RowSourced
  <2> QED BY <1>b, <1>c, <2>1, SourcedGoto
<1>d. /\ PollRecord(p).post = p /\ PollRecord(p).at = "polling"
      /\ PollRecord(p).id = post[p].platform_post_id
      /\ [PollRecord(p) EXCEPT !.at = "reconciling", !.fresh = TRUE].post = p
      /\ [PollRecord(p) EXCEPT !.at = "reconciling", !.fresh = TRUE].at = "reconciling"
      /\ [PollRecord(p) EXCEPT !.at = "reconciling", !.fresh = TRUE].id
         = post[p].platform_post_id
  BY DEF PollRecord, Idle
<1>e. post[p].platform_post_id # None => post[p].status # "ABSENT"
  BY <1>a DEF RowSourced
<1>1. CASE WorkerStarts(a, p)
  <2>1. CASE SelectDue(a, p)
    <3> DEFINE next == [Idle EXCEPT !.at = "selected", !.post = p]
    <3>1. Goto(a, next) /\ post[p].status = "PENDING"
      BY <2>1 DEF SelectDue
    <3>2. next.at = "selected" /\ next.post = p /\ next.id = None
      BY DEF Idle
    <3> HIDE DEF next
    <3> QED BY <1>c, <3>1, <3>2 DEF Present, Asked
  <2>2. CASE SelectStale(a, p)
    <3> DEFINE next == [Idle EXCEPT !.at = "recovering", !.post = p, !.fresh = TRUE,
                              !.id = post[p].platform_post_id,
                              !.retry_count = post[p].retry_count]
    <3>1. Goto(a, next) /\ post[p].status = "PUBLISHING"
      BY <2>2 DEF SelectStale
    <3>2. next.at = "recovering" /\ next.post = p /\ next.id = post[p].platform_post_id
      BY DEF Idle
    <3> HIDE DEF next
    <3> QED BY <1>c, <3>1, <3>2 DEF Present, Asked
  <2>3. CASE SelectReconcilable(a, p)
    <3> DEFINE next == [PollRecord(p) EXCEPT !.at = "reconciling", !.fresh = TRUE]
    <3>1. Goto(a, next) /\ post[p].status = "PUBLISHING"
      BY <2>3 DEF SelectReconcilable
    <3>2. next.at = "reconciling" /\ next.post = p /\ next.id = post[p].platform_post_id
      BY <1>d
    <3> HIDE DEF next
    <3> QED BY <1>c, <3>1, <3>2 DEF Present, Asked
  <2> QED BY <1>1, <2>1, <2>2, <2>3 DEF WorkerStarts
<1>2. CASE CliStart(a, p)
  <2>1. CASE post[p].platform_post_id # None /\ Goto(a, PollRecord(p))
    BY <1>c, <1>d, <1>e, <2>1 DEF Present, Asked
  <2>2. CASE Goto(a, [Idle EXCEPT !.post = p,
                        !.at = CASE post[p].status = "ABSENT" -> "cli_insert"
                                 [] post[p].status = "FAILED" -> "cli_failed"
                                 [] OTHER -> "cli_claim"])
    <3> DEFINE stage == CASE post[p].status = "ABSENT" -> "cli_insert"
                          [] post[p].status = "FAILED" -> "cli_failed"
                          [] OTHER -> "cli_claim"
               next == [Idle EXCEPT !.post = p, !.at = stage]
    <3>1. next.at = stage /\ next.post = p /\ next.id = None
      BY DEF Idle
    <3>2. /\ stage \in {"cli_insert", "cli_failed", "cli_claim"}
          /\ post[p].status = "ABSENT" => stage = "cli_insert"
      OBVIOUS
    <3>3. Goto(a, next)
      BY <2>2
    <3> HIDE DEF next, stage
    <3> QED BY <1>c, <3>1, <3>2, <3>3 DEF Present, Asked
  <2> QED BY <1>2, <2>1, <2>2 DEF CliStart
<1>3. CASE ReadForRetry(a, p)
  <2> DEFINE next == [Idle EXCEPT !.at = "retrying", !.post = p, !.fresh = TRUE]
  <2>1. Goto(a, next) /\ post[p].status # "ABSENT"
    BY <1>3 DEF ReadForRetry
  <2>2. next.at = "retrying" /\ next.post = p /\ next.id = None
    BY DEF Idle
  <2> HIDE DEF next
  <2> QED BY <1>c, <2>1, <2>2 DEF Present, Asked
<1> QED BY <1>1, <1>2, <1>3

LEMMA DatabaseGrounded ==
    ASSUME Grounded, Typed', NEW p \in Posts, Materialize(p) \/ TimeArrives(p)
    PROVE  Grounded' /\ Gains(sub')
<1>a. post[p] \in Row /\ RowSourced(p, post[p], sub) /\ sub' = sub /\ ctx' = ctx
  BY DEF Grounded, Sourced, Typed, TypeOK, Materialize, TimeArrives
<1>1. \A q \in Posts : q # p => post'[q] = post[q]
  BY DEF Materialize, TimeArrives, Grounded, Typed, TypeOK
<1>2. /\ RowSourced(p, post'[p], sub) /\ post'[p].status # "ABSENT"
  <2>1. CASE Materialize(p)
    <3>1. post'[p] = [NoRow EXCEPT !.status = "PENDING", !.eligible = "later"]
      BY <2>1 DEF Materialize, Grounded, Typed, TypeOK
    <3> QED BY <3>1 DEF NoRow, RowSourced
  <2>2. CASE TimeArrives(p)
    <3>1. post'[p] = [post[p] EXCEPT !.eligible = "now"] /\ post[p].status = "PENDING"
      BY <2>2 DEF TimeArrives, Grounded, Typed, TypeOK
    <3> QED BY <1>a, <3>1 DEF RowSourced, Row
  <2> QED BY <2>1, <2>2
<1>3. Gains(sub')
  BY <1>a, GroundedGains
<1>4. \A q \in Posts : RowSourced(q, post'[q], sub')
  BY <1>a, <1>1, <1>2 DEF Grounded, Sourced
<1>5. \A a \in Actors : Present(ctx'[a], post'[ctx'[a].post])
  <2> SUFFICES ASSUME NEW a \in Actors PROVE Present(ctx[a], post'[ctx[a].post])
    BY <1>a
  <2>1. Present(ctx[a], post[ctx[a].post]) /\ Role(a, ctx[a]) /\ ctx[a] \in Local
    BY DEF Grounded, Sourced, RowOf, Typed, Roles, TypeOK
  <2>2. ctx[a].at # "idle" => ctx[a].post \in Posts
    BY <2>1 DEF Role, Local
  <2> QED BY <1>1, <1>2, <2>1, <2>2 DEF Present
<1> QED BY <1>a, <1>3, <1>4, <1>5 DEF Grounded, Sourced, RowOf, UnusedIds

LEMMA SettleGrounded ==
    ASSUME Grounded, Typed', NEW i \in Ids, TikTokSettles(i)
    PROVE  Grounded' /\ Gains(sub')
<1>1. post' = post /\ ctx' = ctx
  BY DEF TikTokSettles
<1>2. Gains(sub')
  <2>1. \A j \in Ids : sub[j] \in Submission
    BY DEF Grounded, Typed, TypeOK
  <2> QED BY <2>1 DEF TikTokSettles, Gains, Grounded, UnusedIds, Submission, Typed, TypeOK
<1> QED BY <1>1, <1>2, SourcesStay DEF Grounded, Sourced, RowOf, UnusedIds, Gains

\* Every step of the system is a step of a busy process, the start of one, or a
\* change of the database or of TikTok's side.
LEMMA NextCases ==
    ASSUME Next
    PROVE  \/ \E a \in Actors : BusyStep(a)
           \/ \E a \in Actors, p \in Posts :
                 \/ a \in Workers /\ WorkerStarts(a, p)
                 \/ a \in Clis /\ CliStart(a, p)
                 \/ a \in Users /\ ReadForRetry(a, p)
           \/ \E p \in Posts : Materialize(p) \/ TimeArrives(p)
           \/ \E i \in Ids : TikTokSettles(i)
BY DEF Next, Steps, BusyStep, CliStep, Actors

LEMMA NextGrounded ==
    ASSUME Grounded, Next
    PROVE  Grounded' /\ Gains(sub')
<1>1. Typed'
  BY NextTyped DEF Grounded
<1> QED BY <1>1, NextCases, BusySound, StartGrounded, DatabaseGrounded, SettleGrounded
        DEF Sound

LEMMA InitGrounded == Init => Grounded
<1> SUFFICES ASSUME Init PROVE Grounded
  OBVIOUS
<1> QED BY InitTyped
        DEF Init, Grounded, UnusedIds, Sourced, RowSourced, LocalSourced, Present, NoRow, Idle,
            RowOf, Asked

LEMMA AlwaysGrounded == Spec => []Grounded
<1>1. Grounded /\ [Next]_vars => Grounded'
  <2>1. CASE UNCHANGED vars
    BY <2>1 DEF vars, Grounded, Typed, TypeOK, Roles, UnusedIds, Sourced, RowOf
  <2>2. CASE Next
    BY <2>2, NextGrounded
  <2> QED BY <2>1, <2>2
<1> QED BY InitGrounded, <1>1, PTL DEF Spec

\* No row says PUBLISHED of a video TikTok made no post of, in any regime: with
\* executors that are overtaken, late unconditional writes, rows that turn stale
\* under a running executor and commands that overlap.
THEOREM PublicationsAreReal == Spec => []PublishedIsReal
<1>1. Grounded => PublishedIsReal
  BY DEF Grounded, Sourced, RowSourced, PublishedIsReal
<1> QED BY <1>1, AlwaysGrounded, PTL

-----------------------------------------------------------------------------
(***************************************************************************)
(* A submission interrupted without a usable checkpoint.                   *)
(***************************************************************************)

LEMMA GotoKeepsRows == \A a, next : Goto(a, next) => post' = post
BY DEF Goto

\* The steps of recovery and reconciliation never make such a row PENDING, and
\* neither does a step of another post.
LEMMA RecoveryParks ==
    ASSUME Grounded, NEW w \in Workers, RecoveryStep(w) \/ ReconcileStep(w),
           RowOf(w).submission_state = "SUBMITTING"
    PROVE  post'[P(w)].status = "PENDING" => RowOf(w).status = "PENDING"
<1>a. w \in Actors /\ ctx[w].at \notin {"idle", "cli_insert"}
  BY DEF Actors, At, RecoveryStep, ReconcileStep, RecoverUnsubmitted, RecoverAsk,
         RecoverResolve, ReconcileAsk, ReconcileWrite
<1>b. /\ P(w) \in Posts /\ RowOf(w) \in Row /\ RowOf(w) = post[P(w)]
  BY <1>a, HereSourced
<1>1. \A row : Write(w, P(w), row, Idle) => post'[P(w)] = row
  BY <1>b DEF Write, Grounded, Typed, TypeOK
<1>2. \A row : WriteIfUnchanged(w, row) => post'[P(w)] \in {row, RowOf(w)}
  BY <1>b, <1>1, GotoKeepsRows DEF WriteIfUnchanged
<1>3. CASE RecoverUnsubmitted(w)
  <2>1. WriteIfUnchanged(w, [RowOf(w) EXCEPT !.status = "UNKNOWN"])
    BY <1>3, PlatformPostAssumption DEF RecoverUnsubmitted
  <2>2. [RowOf(w) EXCEPT !.status = "UNKNOWN"].status # "PENDING"
    BY <1>b DEF Row
  <2> QED BY <1>2, <2>1, <2>2
<1>4. CASE RecoverAsk(w) \/ ReconcileAsk(w)
  BY <1>4, <1>b, GotoKeepsRows DEF RecoverAsk, ReconcileAsk
<1>5. CASE RecoverResolve(w)
  <2>1. Resolved(RowOf(w), ctx[w].outcome).status # "PENDING"
    BY <1>b DEF Resolved, Row
  <2> QED BY <1>2, <1>5, <1>b, <2>1, GotoKeepsRows DEF RecoverResolve
<1>6. CASE ReconcileWrite(w)
  <2>1. Reconciled(RowOf(w), ctx[w].outcome, ctx[w].checks).status = "PENDING"
        => RowOf(w).status = "PENDING"
    BY <1>b DEF Reconciled, Resolved, Row
  <2> QED BY <1>2, <1>6, <2>1 DEF ReconcileWrite
<1> QED BY <1>3, <1>4, <1>5, <1>6 DEF RecoveryStep, ReconcileStep

\* The executor that makes a row PENDING is still one when it does.
LEMMA ExecutorRequeues ==
    ASSUME Grounded, NEW a \in Workers \cup Clis, ExecuteStep(a),
           RowOf(a).status # "PENDING", post'[P(a)].status = "PENDING"
    PROVE  a \in Executors(P(a))
<1>a. a \in Actors /\ ctx[a].at \notin {"idle", "cli_insert"}
  BY DEF Actors, At, ExecuteStep, Claim, LoadMedia, Checkpoint, InitUpload, PersistId,
         UploadMedia, RereadAfterError, SettleError, ConfirmId, ReadForPoll, PollAsk,
         PollWrite
<1>b. P(a) \in Posts /\ RowOf(a) \in Row /\ RowOf(a) = post[P(a)] /\ ctx[a].post = P(a)
  BY <1>a, HereSourced
<1>1. \A row, next : Write(a, P(a), row, next) => post'[P(a)] = row
  BY <1>b DEF Write, Grounded, Typed, TypeOK
<1>2. ~Claim(a)
  <2>1. [RowOf(a) EXCEPT !.status = "PUBLISHING"].status # "PENDING"
    BY <1>b DEF Row
  <2> QED BY <1>b, <1>1, <2>1, GotoKeepsRows DEF Claim
<1>3. ~ReadForPoll(a) /\ ~PollAsk(a)
  BY <1>b, GotoKeepsRows DEF ReadForPoll, PollAsk
<1>4. ~PollWrite(a)
  <2>1. /\ Resolved(RowOf(a), ctx[a].outcome).status # "PENDING"
        /\ \A n : [RowOf(a) EXCEPT !.status_check_count = n].status # "PENDING"
    BY <1>b DEF Resolved, Row
  <2> QED BY <1>1, <2>1 DEF PollWrite
<1>5. ctx[a].at \in Executing
  BY <1>2, <1>3, <1>4
  DEF ExecuteStep, At, Executing, LoadMedia, Checkpoint, InitUpload, PersistId, UploadMedia,
      RereadAfterError, SettleError, ConfirmId
<1> QED BY <1>a, <1>b, <1>5 DEF Executors

\* Recovery and reconciliation never put an ambiguous submission back to PENDING,
\* in any regime: whoever does is its own executor or a person.
THEOREM AmbiguityWaits == Spec => AmbiguousCrashParks
<1>1. Grounded /\ [Next]_vars =>
         \A p \in Posts :
            /\ post[p].submission_state = "SUBMITTING"
            /\ post[p].status # "PENDING" /\ post'[p].status = "PENDING"
            => \/ Executors(p) # {}
               \/ \E a \in Users \cup Clis :
                     ctx[a].at \in {"retrying", "cli_failed"} /\ ctx[a].post = p
  <2> SUFFICES ASSUME Grounded, [Next]_vars, NEW p \in Posts,
                      post[p].submission_state = "SUBMITTING",
                      post[p].status # "PENDING", post'[p].status = "PENDING"
               PROVE  \/ Executors(p) # {}
                      \/ \E a \in Users \cup Clis :
                            ctx[a].at \in {"retrying", "cli_failed"} /\ ctx[a].post = p
    OBVIOUS
  <2>1. post[p].status # "ABSENT" /\ post' # post
    BY PlatformPostAssumption DEF Grounded, Sourced, RowSourced
  <2>2. Next
    BY <2>1 DEF vars
  <2>3. PICK a \in Actors : BusyStep(a)
    <3>1. ASSUME NEW q \in Posts, Materialize(q) \/ TimeArrives(q) PROVE FALSE
      <4>1. q = p /\ post[q].status \in {"ABSENT", "PENDING"}
        BY <3>1 DEF Materialize, TimeArrives, Grounded, Typed, TypeOK
      <4> QED BY <2>1, <4>1
    <3>2. ASSUME NEW a \in Actors, NEW q \in Posts,
                 \/ a \in Workers /\ WorkerStarts(a, q)
                 \/ a \in Clis /\ CliStart(a, q)
                 \/ a \in Users /\ ReadForRetry(a, q)
          PROVE  FALSE
      BY <2>1, <3>2, GotoKeepsRows
      DEF WorkerStarts, SelectDue, SelectStale, SelectReconcilable, CliStart, ReadForRetry
    <3>3. ASSUME NEW i \in Ids, TikTokSettles(i) PROVE FALSE
      BY <2>1, <3>3 DEF TikTokSettles
    <3> QED BY <2>2, <3>1, <3>2, <3>3, NextCases
  <2>4. p = P(a) /\ post[p] = RowOf(a) /\ ~At(a, "idle")
    <3>1. Typed'
      BY <2>2, NextTyped DEF Grounded
    <3>2. Confined(a)
      BY <2>3, <3>1, BusySound DEF Sound
    <3>3. p = P(a)
      BY <2>1, <3>2 DEF Confined
    <3>4. p # None /\ Role(a, ctx[a])
      BY PlatformPostAssumption DEF Grounded, Typed, Roles
    <3> QED BY <3>3, <3>4 DEF RowOf, P, At, Role
  <2>5. CASE a \in Workers /\ (RecoveryStep(a) \/ ReconcileStep(a))
    BY <2>4, <2>5, RecoveryParks
  <2>6. CASE a \in Workers \cup Clis /\ ExecuteStep(a)
    BY <2>4, <2>6, ExecutorRequeues
  <2>7. CASE a \in Clis /\ CliInsert(a)
    BY <2>1, <2>4, <2>7, GotoKeepsRows DEF CliInsert
  <2>8. CASE \/ a \in Clis /\ CliRequeue(a)
             \/ a \in Users /\ RetryPost(a)
    BY <2>4, <2>8 DEF CliRequeue, RetryPost, At, P
  <2>9. CASE Crash(a)
    BY <2>1, <2>9, GotoKeepsRows DEF Crash
  <2> QED BY <2>3, <2>5, <2>6, <2>7, <2>8, <2>9 DEF BusyStep
<1> QED BY <1>1, AlwaysGrounded, PTL DEF Spec, AmbiguousCrashParks

=============================================================================
