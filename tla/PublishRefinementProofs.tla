---------------------- MODULE PublishRefinementProofs ----------------------
(***************************************************************************)
(* What a step of PlatformPost may do, seen from the rows: the action      *)
(* properties, and that every step is a step of PublicationContract or a   *)
(* stutter.  Both rest on one classification of the steps (Stepped).       *)
(***************************************************************************)
EXTENDS PlatformPostProofs, PublishRefinement

-----------------------------------------------------------------------------
(***************************************************************************)
(* The ways one row changes, from old to new.                              *)
(***************************************************************************)

SameId(old, new) == new.platform_post_id = old.platform_post_id

\* A counter, a date or a checkpoint is written, or the row is scheduled,
\* claimed or released: its owner sees no difference.
Worked(old, new) ==
    /\ SameId(old, new)
    /\ \/ new.status = old.status
       \/ /\ old.status \in {"ABSENT", "PENDING", "PUBLISHING"}
          /\ new.status \in {"PENDING", "PUBLISHING"}

\* The id TikTok answered to the executor of p becomes durable.
Identified(p, old, new) ==
    /\ old.status = "PUBLISHING" /\ old.platform_post_id = None
    /\ new.status = "PUBLISHING"
    /\ \E a \in Actors : At(a, "initiated") /\ P(a) = p /\ new.platform_post_id = ctx[a].id

\* The budget is spent, or the error is final, before any id was issued.
GivenUp(old, new) ==
    /\ SameId(old, new) /\ old.platform_post_id = None
    /\ old.status = "PUBLISHING" /\ new.status = "FAILED"

\* TikTok's answer about the id of the row.
Settled(old, new) ==
    /\ SameId(old, new) /\ old.platform_post_id # None
    /\ \/ new.status = "PUBLISHED" /\ sub[old.platform_post_id].media = "published"
       \/ new.status = "FAILED" /\ sub[old.platform_post_id].media = "failed"

Parked(old, new) ==
    SameId(old, new) /\ old.status = "PUBLISHING" /\ new.status = "UNKNOWN"

\* The command puts a failed row back, the owner asks for another look.
Requeued(p, old, new) ==
    /\ SameId(old, new) /\ old.status = "FAILED" /\ new.status = "PENDING"
    /\ \E c \in Clis : P(c) = p /\ ctx'[c] # ctx[c]

ByOwner(p) == \E u \in Users : At(u, "retrying") /\ P(u) = p /\ ctx'[u] # ctx[u]

Rechecked(p, old, new) ==
    /\ SameId(old, new) /\ old.status = "UNKNOWN" /\ new.status = "PUBLISHING"
    /\ ByOwner(p)

\* The owner has it sent again.
Resubmitted(p, old, new) ==
    /\ old.status \in {"FAILED", "UNKNOWN"} /\ new.status = "PENDING"
    /\ new.platform_post_id = None
    /\ ByOwner(p)

Changed(p, old, new) ==
    \/ Worked(old, new) \/ Identified(p, old, new) \/ GivenUp(old, new)
    \/ Settled(old, new) \/ Parked(old, new)
    \/ Requeued(p, old, new) \/ Rechecked(p, old, new)

-----------------------------------------------------------------------------
(***************************************************************************)
(* The kinds of step.                                                      *)
(***************************************************************************)

OnlyRow(p) == post' = [post EXCEPT ![p] = post'[p]]

Quiet == post' = post /\ sub' = sub
Attempted == \E p \in Posts, i \in Ids :
    post' = post /\ sub[i].post = None /\ sub' = [sub EXCEPT ![i].post = p]
Sent == \E p \in Orderly, i \in Ids :
    /\ post' = post /\ post[p].platform_post_id = i
    /\ sub[i].media = "none" /\ sub' = [sub EXCEPT ![i].media = "sent"]
Written == \E p \in Posts :
    OnlyRow(p) /\ Changed(p, post[p], post'[p]) /\ sub' = sub
SentAgain == \E p \in Orderly :
    /\ OnlyRow(p) /\ Resubmitted(p, post[p], post'[p])
    /\ IF post[p].status = "UNKNOWN" THEN Disown(p) ELSE sub' = sub

\* No row becomes overtaken.
SameOrder == \A p \in Posts : post'[p].overtaken = post[p].overtaken

\* A process works on an overtaken post, or an owner overtakes it.
Overtaking(a) ==
    /\ P(a) # None /\ Sound(a) /\ post'[P(a)].overtaken
    /\ RowOf(a).overtaken \/ Resubmitted(P(a), RowOf(a), post'[P(a)])

StepKind ==
    \/ Quiet \/ Attempted \/ Sent \/ (\E i \in Ids : TikTokSettles(i))
    \/ Written \/ SentAgain

\* An executor that holds an id it was just answered was given a new one.
Fresh == \A b \in Actors : ctx'[b].at = "initiated" =>
    \/ ctx[b].at = "initiated" /\ ctx'[b].id = ctx[b].id /\ ctx'[b].post = ctx[b].post
    \/ sub[ctx'[b].id].post = None /\ ctx'[b].id \in Ids

Stepped == StepKind /\ Fresh

LEMMA GotoFresh ==
    ASSUME IInv, NEW a \in Actors, NEW next, Goto(a, next), next.at # "initiated"
    PROVE  Fresh
BY DEF Goto, Fresh, IInv, TypeOK

LEMMA WriteFresh ==
    ASSUME IInv, NEW a \in Actors, NEW p, NEW row, NEW next, Write(a, p, row, next),
           next.at # "initiated"
    PROVE  Fresh
<1> SUFFICES ASSUME NEW b \in Actors, b # a
             PROVE  /\ ctx'[b].at = ctx[b].at /\ ctx'[b].id = ctx[b].id
                    /\ ctx'[b].post = ctx[b].post
  BY DEF Fresh, Write
<1>1. /\ ctx'[b] = [ctx[b] EXCEPT !.fresh = ctx[b].fresh /\ ctx[b].post # p]
      /\ ctx[b] \in Local
  BY DEF Write, IInv, TypeOK
<1> QED BY <1>1 DEF Local

LEMMA GotoStepped ==
    ASSUME IInv, NEW a \in Actors, NEW next, Goto(a, next), next.at # "initiated", sub' = sub
    PROVE  Stepped
BY GotoFresh DEF Stepped, StepKind, Quiet, Goto

LEMMA IdleStepped ==
    ASSUME IInv, NEW a \in Actors, Goto(a, Idle), sub' = sub
    PROVE  Stepped
BY GotoStepped DEF Idle

LEMMA WriteStepped ==
    ASSUME IInv, NEW a \in Actors, NEW p \in Posts, NEW row, NEW next,
           Write(a, p, row, next), next.at # "initiated", sub' = sub,
           Changed(p, post[p], row)
    PROVE  Stepped
<1>1. post'[p] = row /\ OnlyRow(p)
  BY DEF Write, IInv, TypeOK, OnlyRow
<1> QED BY <1>1, WriteFresh DEF Stepped, StepKind, Written

LEMMA WriteIdleStepped ==
    ASSUME IInv, NEW a \in Actors, NEW p \in Posts, NEW row, Write(a, p, row, Idle),
           sub' = sub, Changed(p, post[p], row)
    PROVE  Stepped
BY WriteStepped DEF Idle

LEMMA WriteIfUnchangedStepped ==
    ASSUME IInv, NEW a \in Actors, P(a) \in Posts, NEW row, WriteIfUnchanged(a, row),
           sub' = sub, ctx[a].fresh => Changed(P(a), post[P(a)], row)
    PROVE  Stepped
BY IdleStepped, WriteIdleStepped DEF WriteIfUnchanged

-----------------------------------------------------------------------------
(***************************************************************************)
(* Every action is one of these kinds: one step per action.                *)
(***************************************************************************)

LEMMA RetryOrFailChange ==
    ASSUME NEW p \in Posts, NEW row \in Row, row.status = "PUBLISHING",
           row.platform_post_id = None, NEW retryable, NEW tries
    PROVE  Changed(p, row, RetryOrFail(row, retryable, tries))
BY DEF Changed, Worked, GivenUp, SameId, RetryOrFail, Row

LEMMA FailedChange ==
    ASSUME NEW p \in Posts, NEW row \in Row, row.status = "PUBLISHING",
           row.platform_post_id = None
    PROVE  Changed(p, row, [row EXCEPT !.status = "FAILED"])
BY DEF Changed, GivenUp, SameId, Row

LEMMA ResolvedChange ==
    ASSUME NEW p \in Posts, NEW row \in Row, NEW outcome \in {"PUBLISH_COMPLETE", "FAILED"},
           NEW l, l.outcome = outcome, row.platform_post_id = l.id, l.at \in Asked,
           Answered(l, sub)
    PROVE  Changed(p, row, Resolved(row, outcome))
<1>1. l.id # None
  BY DEF Answered
<1>2. Resolved(row, outcome).platform_post_id = row.platform_post_id
  BY DEF Resolved, Row
<1>3. CASE outcome = "PUBLISH_COMPLETE"
  <2>1. Resolved(row, outcome).status = "PUBLISHED" /\ sub[l.id].media = "published"
    BY <1>3 DEF Resolved, Row, Answered
  <2> QED BY <1>1, <1>2, <2>1 DEF Changed, Settled, SameId
<1>4. CASE outcome = "FAILED"
  <2>1. Resolved(row, outcome).status = "FAILED" /\ sub[l.id].media = "failed"
    BY <1>4 DEF Resolved, Row, Answered
  <2> QED BY <1>1, <1>2, <2>1 DEF Changed, Settled, SameId
<1> QED BY <1>3, <1>4

LEMMA DatabaseStepped ==
    ASSUME IInv, NEW p \in Posts, Materialize(p) \/ TimeArrives(p)
    PROVE  Stepped /\ SameOrder
<1>1. /\ post \in [Posts -> Row] /\ post[p] \in Row /\ sub' = sub /\ ctx' = ctx
      /\ RowSourced(p, post[p], sub)
  BY DEF IInv, TypeOK, Sourced, Materialize, TimeArrives
<1>2. Fresh
  BY <1>1 DEF Fresh
<1>3. CASE Materialize(p)
  <2>1. /\ post[p].status = "ABSENT"
        /\ post' = [post EXCEPT ![p] = [NoRow EXCEPT !.status = "PENDING",
                                                     !.eligible = "later"]]
    BY <1>3 DEF Materialize
  <2>2. /\ post'[p].status = "PENDING" /\ post'[p].platform_post_id = None
        /\ post'[p].overtaken = FALSE
    BY <1>1, <2>1 DEF NoRow
  <2>3. Changed(p, post[p], post'[p]) /\ post'[p].overtaken = post[p].overtaken
    BY <1>1, <2>1, <2>2 DEF Changed, Worked, SameId, RowSourced, Row
  <2> QED BY <1>1, <1>2, <2>1, <2>3 DEF Stepped, StepKind, Written, OnlyRow, SameOrder
<1>4. CASE TimeArrives(p)
  <2>1. post' = [post EXCEPT ![p].eligible = "now"]
    BY <1>4 DEF TimeArrives
  <2>2. Changed(p, post[p], post'[p]) /\ post'[p].overtaken = post[p].overtaken
    BY <1>1, <2>1 DEF Changed, Worked, SameId, Row
  <2> QED BY <1>1, <1>2, <2>1, <2>2 DEF Stepped, StepKind, Written, OnlyRow, SameOrder
<1> QED BY <1>3, <1>4

LEMMA SelectStepped ==
    ASSUME IInv, NEW w \in Workers, NEW p \in Posts, WorkerStarts(w, p)
    PROVE  Stepped
<1>1. w \in Actors /\ sub' = sub
  BY DEF Actors, WorkerStarts, SelectDue, SelectStale, SelectReconcilable
<1>2. PollRecord(p) \in Local
  BY PollRecordType DEF IInv, Typed
<1>3. CASE SelectDue(w, p)
  <2>1. [Idle EXCEPT !.at = "selected", !.post = p].at = "selected"
    BY DEF Idle
  <2> QED BY <1>1, <1>3, <2>1, GotoStepped DEF SelectDue
<1>4. CASE SelectStale(w, p)
  <2> DEFINE next == [Idle EXCEPT !.at = "recovering", !.post = p, !.fresh = TRUE,
                            !.id = post[p].platform_post_id,
                            !.retry_count = post[p].retry_count]
  <2>1. next.at = "recovering"
    BY DEF Idle
  <2>2. Goto(w, next)
    BY <1>4 DEF SelectStale
  <2> HIDE DEF next
  <2> QED BY <1>1, <2>1, <2>2, GotoStepped
<1>5. CASE SelectReconcilable(w, p)
  <2>1. [PollRecord(p) EXCEPT !.at = "reconciling", !.fresh = TRUE].at = "reconciling"
    BY <1>2 DEF Local
  <2> QED BY <1>1, <1>5, <2>1, GotoStepped DEF SelectReconcilable
<1> QED BY <1>3, <1>4, <1>5 DEF WorkerStarts

LEMMA ClaimStepped ==
    ASSUME IInv, NEW a \in Workers \cup Clis, Claim(a), ~RowOf(a).overtaken
    PROVE  Stepped
<1>1. a \in Actors /\ ~At(a, "idle") /\ sub' = sub
  BY DEF Actors, Claim, At
<1>2. P(a) \in Posts /\ RowOf(a) \in Row /\ RowOf(a) = post[P(a)]
  BY <1>1, Here
<1>3. ASSUME RowOf(a).status = "PENDING"
      PROVE  Changed(P(a), post[P(a)], [RowOf(a) EXCEPT !.status = "PUBLISHING"])
  BY <1>2, <1>3 DEF Changed, Worked, SameId, Row
<1>4. [Idle EXCEPT !.at = "claimed", !.post = P(a),
                   !.retry_count = RowOf(a).retry_count].at # "initiated"
  BY DEF Idle
<1> QED BY <1>1, <1>2, <1>3, <1>4, WriteStepped, IdleStepped DEF Claim

LEMMA SubmitStepped ==
    ASSUME IInv, Regime, NEW a \in Workers \cup Clis,
           LoadMedia(a) \/ Checkpoint(a) \/ InitUpload(a) \/ PersistId(a),
           ~RowOf(a).overtaken
    PROVE  Stepped
<1>a. a \in Actors /\ ctx[a].at \in {"claimed", "loaded", "submitting", "initiated"}
  BY DEF Actors, At, LoadMedia, Checkpoint, InitUpload, PersistId
<1>b. /\ ctx[a] \in Local /\ P(a) \in Posts /\ RowOf(a) \in Row /\ RowOf(a) = post[P(a)]
      /\ Fits(ctx[a], RowOf(a))
  BY <1>a, Here DEF At
<1>c. RowOf(a).status = "PUBLISHING" /\ RowOf(a).platform_post_id = None
  BY <1>a, <1>b DEF Fits, Unsubmitted
<1>1. CASE LoadMedia(a)
  <2>1. sub' = sub
    BY <1>1 DEF LoadMedia
  <2>2. [ctx[a] EXCEPT !.at = "loaded"].at # "initiated"
    BY <1>b DEF Local
  <2>3. \A retryable \in BOOLEAN :
           Changed(P(a), post[P(a)], RetryOrFail(RowOf(a), retryable, ctx[a].retry_count))
    BY <1>b, <1>c, RetryOrFailChange
  <2>4. Changed(P(a), post[P(a)], [RowOf(a) EXCEPT !.status = "FAILED"])
    BY <1>b, <1>c, FailedChange
  <2> QED BY <1>1, <1>a, <1>b, <2>1, <2>2, <2>3, <2>4, GotoStepped, WriteIdleStepped
          DEF LoadMedia
<1>2. CASE Checkpoint(a)
  <2>1. sub' = sub
    BY <1>2 DEF Checkpoint
  <2>2. [ctx[a] EXCEPT !.at = "submitting"].at # "initiated"
    BY <1>b DEF Local
  <2>3. Changed(P(a), post[P(a)], [RowOf(a) EXCEPT !.status = "FAILED"])
    BY <1>b, <1>c, FailedChange
  <2>4. \A state : Changed(P(a), post[P(a)], [RowOf(a) EXCEPT !.submission_state = state])
    BY <1>b DEF Changed, Worked, SameId, Row
  <2> QED BY <1>2, <1>a, <1>b, <2>1, <2>2, <2>3, <2>4, WriteStepped, WriteIdleStepped
          DEF Checkpoint
<1>3. CASE InitUpload(a)
  <2>1. \A kind : [ctx[a] EXCEPT !.at = "erred", !.outcome = kind].at # "initiated"
    BY <1>b DEF Local
  <2>2. CASE sub' = sub /\ \E kind \in {"retryable", "terminal"} :
                Goto(a, [ctx[a] EXCEPT !.at = "erred", !.outcome = kind])
    BY <1>a, <2>1, <2>2, GotoStepped
  <2>3. ASSUME NEW i \in Ids, sub[i].post = None, sub' = [sub EXCEPT ![i].post = P(a)],
               \/ Goto(a, [ctx[a] EXCEPT !.at = "initiated", !.id = i])
               \/ \E kind \in {"retryable", "terminal"} :
                     Goto(a, [ctx[a] EXCEPT !.at = "erred", !.outcome = kind])
        PROVE  Stepped
    <3>1. Attempted
      BY <1>b, <2>3 DEF Attempted, Goto
    <3>2. CASE Goto(a, [ctx[a] EXCEPT !.at = "initiated", !.id = i])
      <4>1. ctx'[a].id = i /\ \A b \in Actors : b # a => ctx'[b] = ctx[b]
        BY <1>a, <1>b, <3>2 DEF Goto, Local, IInv, TypeOK
      <4>2. Fresh
        BY <2>3, <4>1 DEF Fresh
      <4> QED BY <3>1, <4>2 DEF Stepped, StepKind
    <3>3. CASE \E kind \in {"retryable", "terminal"} :
                  Goto(a, [ctx[a] EXCEPT !.at = "erred", !.outcome = kind])
      <4>1. Fresh
        BY <1>a, <2>1, <3>3, GotoFresh
      <4> QED BY <3>1, <4>1 DEF Stepped, StepKind
    <3> QED BY <2>3, <3>2, <3>3
  <2> QED BY <1>3, <2>2, <2>3 DEF InitUpload
<1>4. CASE PersistId(a)
  <2> DEFINE row == WithId(RowOf(a), ctx[a].id)
  <2>1. /\ ctx[a].at = "initiated" /\ sub' = sub
        /\ Write(a, P(a), row, [ctx[a] EXCEPT !.at = "uploading"])
    BY <1>4 DEF PersistId, At, Regime
  <2>2. [ctx[a] EXCEPT !.at = "uploading"].at # "initiated"
    BY <1>b DEF Local
  <2>3. row.status = "PUBLISHING" /\ row.platform_post_id = ctx[a].id
    BY <1>b DEF WithId, Row
  <2> HIDE DEF row
  <2>4. Changed(P(a), post[P(a)], row)
    BY <1>a, <1>b, <1>c, <2>1, <2>3 DEF Changed, Identified, At
  <2> QED BY <1>a, <1>b, <2>1, <2>2, <2>4, WriteStepped
<1> QED BY <1>1, <1>2, <1>3, <1>4

LEMMA HoldStepped ==
    ASSUME IInv, Regime, NEW a \in Workers \cup Clis,
           \/ UploadMedia(a) \/ RereadAfterError(a) \/ SettleError(a) \/ ConfirmId(a)
           \/ ReadForPoll(a) \/ PollAsk(a) \/ PollWrite(a),
           ~RowOf(a).overtaken
    PROVE  Stepped
<1>a. a \in Actors /\ ~At(a, "idle")
  BY DEF Actors, At, UploadMedia, RereadAfterError, SettleError, ConfirmId, ReadForPoll,
         PollAsk, PollWrite
<1>b. /\ ctx[a] \in Local /\ P(a) \in Posts /\ RowOf(a) \in Row /\ RowOf(a) = post[P(a)]
      /\ Fits(ctx[a], RowOf(a)) /\ Answered(ctx[a], sub)
  BY <1>a, Here
<1>c. \A stage : [ctx[a] EXCEPT !.at = stage].at = stage
  BY <1>b DEF Local
<1>d. \A stage, outcome : [ctx[a] EXCEPT !.at = stage, !.outcome = outcome].at = stage
  BY <1>b DEF Local
<1>1. CASE UploadMedia(a)
  <2>1. /\ ctx[a].id # None /\ ctx[a].id \in Ids /\ post[P(a)].platform_post_id = ctx[a].id
    BY <1>1, <1>b DEF UploadMedia, At, Fits, Holding, Local
  <2>2. PICK sent \in BOOLEAN :
          /\ sub' = IF sent /\ sub[ctx[a].id].media = "none"
                    THEN [sub EXCEPT ![ctx[a].id].media = "sent"] ELSE sub
          /\ \/ sent /\ Goto(a, [ctx[a] EXCEPT !.at = "uploaded"])
             \/ \E kind \in {"retryable", "terminal"} :
                   Goto(a, [ctx[a] EXCEPT !.at = "erred", !.outcome = kind])
    BY <1>1 DEF UploadMedia
  <2>3. Fresh
    <3>1. CASE Goto(a, [ctx[a] EXCEPT !.at = "uploaded"])
      BY <1>a, <1>c, <3>1, GotoFresh
    <3>2. ASSUME NEW kind, Goto(a, [ctx[a] EXCEPT !.at = "erred", !.outcome = kind])
          PROVE  Fresh
      BY <1>a, <1>d, <3>2, GotoFresh
    <3> QED BY <2>2, <3>1, <3>2
  <2>4. Quiet \/ Sent
    BY <1>b, <2>1, <2>2 DEF Quiet, Sent, Goto, Orderly
  <2> QED BY <2>3, <2>4 DEF Stepped, StepKind
<1>2. CASE RereadAfterError(a)
  BY <1>2, <1>a, <1>c, GotoStepped DEF RereadAfterError
<1>3. CASE SettleError(a)
  <2>1. sub' = sub
    BY <1>3 DEF SettleError
  <2>2. CASE At(a, "erred_id") /\ Write(a, P(a), RowOf(a), Idle)
    <3>1. Changed(P(a), post[P(a)], RowOf(a))
      BY <1>b DEF Changed, Worked, SameId
    <3> QED BY <1>a, <1>b, <2>1, <2>2, <3>1, WriteIdleStepped
  <2>3. CASE /\ At(a, "erred_no_id")
             /\ Write(a, P(a), RetryOrFail(RowOf(a), ctx[a].outcome = "retryable",
                                           ctx[a].retry_count), Idle)
    <3>1. RowOf(a).status = "PUBLISHING" /\ RowOf(a).platform_post_id = None
      BY <1>b, <2>3 DEF At, Fits, Unsubmitted
    <3>2. Changed(P(a), post[P(a)], RetryOrFail(RowOf(a), ctx[a].outcome = "retryable",
                                                ctx[a].retry_count))
      BY <1>b, <3>1, RetryOrFailChange
    <3> QED BY <1>a, <1>b, <2>1, <2>3, <3>2, WriteIdleStepped
  <2> QED BY <1>3, <2>2, <2>3 DEF SettleError
<1>4. CASE ConfirmId(a)
  <2>1. RowOf(a).platform_post_id # None
    BY <1>4, <1>b DEF ConfirmId, At, Fits, Holding
  <2>2. Goto(a, [ctx[a] EXCEPT !.at = "submitted"]) /\ sub' = sub
    BY <1>4, <2>1 DEF ConfirmId, Regime
  <2> QED BY <1>a, <1>c, <2>2, GotoStepped
<1>5. CASE ReadForPoll(a)
  <2>1. PollRecord(P(a)).at = "polling"
    BY <1>b, PollRecordType DEF IInv, Typed
  <2> QED BY <1>5, <1>a, <2>1, GotoStepped DEF ReadForPoll
<1>6. CASE PollAsk(a)
  BY <1>6, <1>a, <1>d, GotoStepped, IdleStepped DEF PollAsk
<1>7. CASE PollWrite(a)
  <2>1. /\ ctx[a].at = "polled" /\ sub' = sub
        /\ RowOf(a).platform_post_id = ctx[a].id
        /\ ctx[a].outcome \in {"PROCESSING", "PUBLISH_COMPLETE", "FAILED"}
    BY <1>7, <1>b DEF PollWrite, At, Fits, Holding, Polling, Answered, Asked, Local, Outcome
  <2>2. \A n : Changed(P(a), post[P(a)], [RowOf(a) EXCEPT !.status_check_count = n])
    BY <1>b DEF Changed, Worked, SameId, Row
  <2>3. ctx[a].outcome # "PROCESSING" =>
           Changed(P(a), post[P(a)], Resolved(RowOf(a), ctx[a].outcome))
    BY <1>b, <2>1, ResolvedChange DEF Asked
  <2> QED BY <1>7, <1>a, <1>b, <2>1, <2>2, <2>3, WriteIdleStepped DEF PollWrite
<1> QED BY <1>1, <1>2, <1>3, <1>4, <1>5, <1>6, <1>7

LEMMA RecoveryStepped ==
    ASSUME IInv, NEW w \in Workers, RecoveryStep(w) \/ ReconcileStep(w),
           ~RowOf(w).overtaken
    PROVE  Stepped
<1>a. /\ w \in Actors /\ sub' = sub /\ ~At(w, "idle")
      /\ ctx[w].at \in Recovering \cup Reconciling
  BY DEF Actors, At, RecoveryStep, ReconcileStep, RecoverUnsubmitted, RecoverAsk,
         RecoverResolve, ReconcileAsk, ReconcileWrite, Recovering, Reconciling
<1>b. /\ ctx[w] \in Local /\ P(w) \in Posts /\ RowOf(w) \in Row /\ RowOf(w) = post[P(w)]
      /\ Fits(ctx[w], RowOf(w)) /\ Answered(ctx[w], sub)
  BY <1>a, Here
<1>c. ctx[w].fresh => /\ RowOf(w).status = "PUBLISHING"
                      /\ RowOf(w).platform_post_id = ctx[w].id
  BY <1>a, <1>b DEF Fits
<1>d. \A stage, outcome : [ctx[w] EXCEPT !.at = stage, !.outcome = outcome].at = stage
  BY <1>b DEF Local
<1>e. ctx[w].fresh => Changed(P(w), post[P(w)], [RowOf(w) EXCEPT !.status = "UNKNOWN"])
  BY <1>b, <1>c DEF Changed, Parked, SameId, Row
<1>1. CASE RecoverUnsubmitted(w)
  <2> DEFINE row == CASE RowOf(w).submission_state = None ->
                             [RowOf(w) EXCEPT !.status = "PENDING"]
                      [] RowOf(w).submission_state = "AWAITING_PLATFORM_ID" ->
                             RetryOrFail(RowOf(w), TRUE, ctx[w].retry_count)
                      [] OTHER -> [RowOf(w) EXCEPT !.status = "UNKNOWN"]
  <2>1. ctx[w].id = None /\ WriteIfUnchanged(w, row)
    BY <1>1 DEF RecoverUnsubmitted
  <2>2. ctx[w].fresh => Changed(P(w), post[P(w)], row)
    <3> SUFFICES ASSUME ctx[w].fresh PROVE Changed(P(w), post[P(w)], row)
      OBVIOUS
    <3>1. Changed(P(w), post[P(w)], [RowOf(w) EXCEPT !.status = "PENDING"])
      BY <1>b, <1>c DEF Changed, Worked, SameId, Row
    <3>2. Changed(P(w), post[P(w)], RetryOrFail(RowOf(w), TRUE, ctx[w].retry_count))
      BY <1>b, <1>c, <2>1, RetryOrFailChange
    <3> QED BY <1>e, <3>1, <3>2
  <2> HIDE DEF row
  <2> QED BY <1>a, <1>b, <2>1, <2>2, WriteIfUnchangedStepped
<1>2. CASE RecoverAsk(w)
  <2>1. CASE Goto(w, Idle)
    BY <1>a, <2>1, IdleStepped
  <2>2. ASSUME NEW answer, Goto(w, [ctx[w] EXCEPT !.at = "recovery_polled", !.outcome = answer])
        PROVE  Stepped
    BY <1>a, <1>d, <2>2, GotoStepped
  <2> QED BY <1>2, <2>1, <2>2 DEF RecoverAsk
<1>3. CASE RecoverResolve(w)
  <2>1. /\ ctx[w].at = "recovery_polled"
        /\ ctx[w].outcome \in {"PROCESSING", "PUBLISH_COMPLETE", "FAILED"}
    BY <1>3, <1>b DEF RecoverResolve, At, Answered, Asked, Local, Outcome
  <2>2. ctx[w].fresh /\ ctx[w].outcome # "PROCESSING" =>
           Changed(P(w), post[P(w)], Resolved(RowOf(w), ctx[w].outcome))
    BY <1>b, <1>c, <2>1, ResolvedChange DEF Asked
  <2> QED BY <1>3, <1>a, <1>b, <2>2, IdleStepped, WriteIfUnchangedStepped
          DEF RecoverResolve
<1>4. CASE ReconcileAsk(w)
  <2>1. PICK answer : Goto(w, [ctx[w] EXCEPT !.at = "reconcile_polled", !.outcome = answer])
    BY <1>4 DEF ReconcileAsk
  <2> QED BY <1>a, <1>d, <2>1, GotoStepped
<1>5. CASE ReconcileWrite(w)
  <2> DEFINE row == Reconciled(RowOf(w), ctx[w].outcome, ctx[w].checks)
  <2>1. /\ ctx[w].at = "reconcile_polled" /\ WriteIfUnchanged(w, row)
        /\ ctx[w].outcome \in Outcome \ {None}
    BY <1>5, <1>b DEF ReconcileWrite, At, Answered, Asked, Local
  <2>2. ctx[w].fresh => Changed(P(w), post[P(w)], row)
    <3> SUFFICES ASSUME ctx[w].fresh PROVE Changed(P(w), post[P(w)], row)
      OBVIOUS
    <3>1. CASE ctx[w].outcome \in {"PUBLISH_COMPLETE", "FAILED"}
      <4>1. row = Resolved(RowOf(w), ctx[w].outcome)
        BY <3>1 DEF Reconciled
      <4> QED BY <1>b, <1>c, <2>1, <3>1, <4>1, ResolvedChange DEF Asked
    <3>2. CASE ctx[w].outcome \in {"PROCESSING", "retryable", "terminal"}
      <4>1. \A n : Changed(P(w), post[P(w)], [RowOf(w) EXCEPT !.status_check_count = n])
        BY <1>b DEF Changed, Worked, SameId, Row
      <4> QED BY <1>e, <3>2, <4>1 DEF Reconciled
    <3> QED BY <2>1, <3>1, <3>2 DEF Outcome
  <2> HIDE DEF row
  <2> QED BY <1>a, <1>b, <2>1, <2>2, WriteIfUnchangedStepped
<1> QED BY <1>1, <1>2, <1>3, <1>4, <1>5 DEF RecoveryStep, ReconcileStep

LEMMA CliStartStepped ==
    ASSUME IInv, NEW c \in Clis, NEW p \in Posts, CliStart(c, p)
    PROVE  Stepped
<1>a. c \in Actors /\ sub' = sub
  BY DEF Actors, CliStart
<1>1. PollRecord(p).at = "polling"
  BY PollRecordType DEF IInv, Typed
<1>2. CASE Goto(c, PollRecord(p))
  BY <1>a, <1>1, <1>2, GotoStepped
<1> DEFINE stage == CASE post[p].status = "ABSENT" -> "cli_insert"
                      [] post[p].status = "FAILED" -> "cli_failed"
                      [] OTHER -> "cli_claim"
<1>3. CASE Goto(c, [Idle EXCEPT !.post = p, !.at = stage])
  <2>1. stage # "initiated"
    OBVIOUS
  <2> HIDE DEF stage
  <2>2. [Idle EXCEPT !.post = p, !.at = stage].at = stage
    BY DEF Idle
  <2> QED BY <1>a, <1>3, <2>1, <2>2, GotoStepped
<1> QED BY <1>2, <1>3 DEF CliStart

LEMMA CliStepped ==
    ASSUME IInv, NEW c \in Clis, CliInsert(c) \/ CliRequeue(c), ~RowOf(c).overtaken
    PROVE  Stepped
<1>a. c \in Actors /\ sub' = sub
  BY DEF Actors, CliInsert, CliRequeue
<1>b. \A p : [Idle EXCEPT !.at = "cli_claim", !.post = p].at # "initiated"
  BY DEF Idle
<1>1. CASE CliInsert(c)
  <2>1. /\ P(c) \in Posts /\ RowOf(c) = post[P(c)] /\ RowConsistent(P(c), RowOf(c), sub)
    BY <1>a, <1>1, Here DEF CliInsert, At
  <2>2. ASSUME NEW slot, RowOf(c).status = "ABSENT"
        PROVE  Changed(P(c), post[P(c)], [NoRow EXCEPT !.status = "PENDING", !.eligible = slot])
    BY <2>1, <2>2 DEF Changed, Worked, SameId, NoRow, RowConsistent
  <2> QED BY <1>1, <1>a, <1>b, <2>1, <2>2, IdleStepped, WriteStepped DEF CliInsert
<1>2. CASE CliRequeue(c)
  <2> DEFINE row == [RowOf(c) EXCEPT !.status = "PENDING", !.retry_count = 0]
             next == [Idle EXCEPT !.at = "cli_claim", !.post = P(c)]
  <2>1. /\ ctx[c].at = "cli_failed" /\ P(c) \in Posts /\ RowOf(c) = post[P(c)]
        /\ RowOf(c) \in Row /\ Fits(ctx[c], RowOf(c))
    BY <1>a, <1>2, Here DEF CliRequeue, At
  <2>2. /\ row.status = "PENDING" /\ row.platform_post_id = RowOf(c).platform_post_id
        /\ RowOf(c).status = "FAILED"
    BY <2>1 DEF Fits, Row
  <2>3. Write(c, P(c), row, next) /\ next.at = "cli_claim"
    BY <1>2 DEF CliRequeue, Idle
  <2> HIDE DEF row, next
  <2>4. ctx'[c] # ctx[c]
    <3>1. ctx'[c] = next
      BY <1>a, <2>3 DEF Write
    <3> QED BY <2>1, <2>3, <3>1
  <2>5. Changed(P(c), post[P(c)], row)
    BY <2>1, <2>2, <2>4 DEF Changed, Requeued, SameId
  <2> QED BY <1>a, <2>1, <2>3, <2>5, WriteStepped
<1> QED BY <1>1, <1>2

LEMMA ReadForRetryStepped ==
    ASSUME IInv, NEW u \in Users, NEW p \in Posts, ReadForRetry(u, p)
    PROVE  Stepped
<1>1. [Idle EXCEPT !.at = "retrying", !.post = p, !.fresh = TRUE].at # "initiated"
  BY DEF Idle
<1> QED BY <1>1, GotoStepped DEF ReadForRetry, Actors

\* An owner's retry may overtake the post, but only to have it sent again.
LEMMA RetryStepped ==
    ASSUME IInv, Grounded', NEW u \in Users, RetryPost(u), ~RowOf(u).overtaken
    PROVE  Stepped /\ (post'[P(u)].overtaken => Resubmitted(P(u), RowOf(u), post'[P(u)]))
<1>a. u \in Actors /\ ctx[u].at = "retrying"
  BY DEF Actors, RetryPost, At
<1>b. /\ ctx[u] \in Local /\ P(u) \in Posts /\ RowOf(u) = post[P(u)] /\ RowOf(u) \in Row
      /\ Fits(ctx[u], RowOf(u))
  BY <1>a, Here DEF At
<1>c. ctx[u].fresh => RowOf(u).status \in {"FAILED", "UNKNOWN"}
  BY <1>a, <1>b DEF Fits
<1>1. ASSUME NEW row, Write(u, P(u), row, Idle)
      PROVE  ByOwner(P(u)) /\ post'[P(u)] = row /\ OnlyRow(P(u)) /\ Fresh
  <2>1. ctx'[u].at = "idle"
    BY <1>a, <1>1 DEF Write, Idle
  <2>2. ByOwner(P(u))
    BY <1>a, <2>1 DEF ByOwner, At
  <2>3. post'[P(u)] = row /\ OnlyRow(P(u))
    BY <1>b, <1>1 DEF Write, IInv, TypeOK, OnlyRow
  <2>4. Fresh
    BY <1>a, <1>1, WriteFresh DEF Idle
  <2> QED BY <2>2, <2>3, <2>4
<1>2. CASE Goto(u, Idle) /\ sub' = sub
  BY <1>a, <1>b, <1>2, IdleStepped DEF Goto
<1>3. CASE /\ ctx[u].fresh /\ RowOf(u).status # "FAILED"
           /\ Write(u, P(u), Recheck(RowOf(u)), Idle) /\ sub' = sub
  <2>1. Rechecked(P(u), post[P(u)], Recheck(RowOf(u)))
    BY <1>b, <1>c, <1>1, <1>3 DEF Rechecked, Recheck, SameId, Row
  <2>2. ~Recheck(RowOf(u)).overtaken
    BY <1>b DEF Recheck, Row
  <2> QED BY <1>a, <1>b, <1>1, <1>3, <2>1, <2>2, WriteIdleStepped DEF Changed
<1>4. ASSUME ctx[u].fresh, NEW early, Write(u, P(u), Resubmit(RowOf(u), early), Idle),
             IF RowOf(u).status = "UNKNOWN" THEN Disown(P(u)) ELSE sub' = sub
      PROVE  Stepped /\ Resubmitted(P(u), RowOf(u), post'[P(u)])
  <2>1. /\ Resubmit(RowOf(u), early).status = "PENDING"
        /\ Resubmit(RowOf(u), early).platform_post_id = None
    BY <1>b DEF Resubmit, Row
  <2>2. Resubmitted(P(u), RowOf(u), post'[P(u)])
    BY <1>b, <1>c, <1>1, <1>4, <2>1 DEF Resubmitted
  <2>3. SentAgain
    BY <1>b, <1>1, <1>4, <2>2 DEF SentAgain, Orderly
  <2> QED BY <1>1, <1>4, <2>2, <2>3 DEF Stepped, StepKind
<1> QED BY <1>2, <1>3, <1>4 DEF RetryPost, WriteIfUnchanged, MayResubmit

LEMMA SettleStepped ==
    ASSUME IInv, NEW i \in Ids, TikTokSettles(i)
    PROVE  Stepped /\ SameOrder
BY DEF TikTokSettles, Stepped, StepKind, Fresh, SameOrder

LEMMA KeptOrder ==
    ASSUME NEW a, Confined(a), RowOf(a) = post[P(a)], ~RowOf(a).overtaken,
           ~post'[P(a)].overtaken, post \in [Posts -> Row], post' \in [Posts -> Row]
    PROVE  SameOrder
BY DEF Confined, SameOrder, Row

LEMMA BusyStepped ==
    ASSUME Regime, IInv, Grounded', NEW a \in Actors, BusyStep(a)
    PROVE  (Stepped /\ SameOrder) \/ Overtaking(a)
<1>1. CASE Crash(a)
  BY <1>1, IdleStepped DEF Crash, Goto, SameOrder
<1>2. CASE ~Crash(a)
  <2>1. P(a) # None /\ P(a) \in Posts /\ RowOf(a) = post[P(a)]
    <3>1. ~At(a, "idle")
      BY <1>2
      DEF BusyStep, At, RecoveryStep, ReconcileStep, RecoverUnsubmitted, RecoverAsk,
          RecoverResolve, ReconcileAsk, ReconcileWrite, ExecuteStep, Claim, LoadMedia,
          Checkpoint, InitUpload, PersistId, UploadMedia, RereadAfterError, SettleError,
          ConfirmId, ReadForPoll, PollAsk, PollWrite, CliInsert, CliRequeue, RetryPost
    <3> QED BY <3>1 DEF IInv, Roles, Role, At, P, RowOf, TypeOK, Local
  <2>2. Sound(a) /\ Confined(a)
    BY BusySound, IInvGrounded DEF Grounded, Sound
  <2>3. CASE RowOf(a).overtaken
    BY <2>1, <2>2, <2>3 DEF Overtaking, Confined
  <2>4. CASE ~RowOf(a).overtaken /\ a \in Users /\ RetryPost(a)
    <3>1. Stepped /\ (post'[P(a)].overtaken => Resubmitted(P(a), RowOf(a), post'[P(a)]))
      BY <2>4, RetryStepped
    <3>2. CASE post'[P(a)].overtaken
      BY <2>1, <2>2, <3>1, <3>2 DEF Overtaking
    <3>3. CASE ~post'[P(a)].overtaken
      BY <2>1, <2>2, <2>4, <3>1, <3>3, KeptOrder DEF IInv, TypeOK, Grounded, Typed
    <3> QED BY <3>2, <3>3
  <2>5. CASE ~RowOf(a).overtaken /\ ~(a \in Users /\ RetryPost(a))
    <3>1. a \notin Users
      BY <1>2, <2>5, PlatformPostAssumption DEF BusyStep
    <3>2. ~post'[P(a)].overtaken
      BY <2>1, <2>5, <3>1, BusyKeepsOrder DEF IInv, Typed
    <3>3. Stepped
      <4>1. CASE a \in Workers \cup Clis /\ ExecuteStep(a)
        BY <2>5, <4>1, ClaimStepped, SubmitStepped, HoldStepped DEF ExecuteStep
      <4> QED BY <1>2, <2>5, <4>1, RecoveryStepped, CliStepped DEF BusyStep
    <3> QED BY <2>1, <2>2, <2>5, <3>2, <3>3, KeptOrder DEF IInv, TypeOK, Grounded, Typed
  <2> QED BY <2>3, <2>4, <2>5
<1> QED BY <1>1, <1>2

\* The classification is complete.
LEMMA EveryStep ==
    ASSUME Regime, IInv, [Next]_vars
    PROVE  (Stepped /\ SameOrder) \/ \E a \in Actors : Overtaking(a)
<1>1. CASE UNCHANGED vars
  BY <1>1 DEF vars, Stepped, StepKind, Quiet, Fresh, SameOrder
<1>2. CASE Next
  <2>1. Grounded'
    BY <1>2, IInvGrounded, NextGrounded
  <2>2. ASSUME NEW a \in Actors, NEW p \in Posts,
               \/ a \in Workers /\ WorkerStarts(a, p)
               \/ a \in Clis /\ CliStart(a, p)
               \/ a \in Users /\ ReadForRetry(a, p)
        PROVE  Stepped /\ SameOrder
    <3>1. post' = post
      BY <2>2 DEF WorkerStarts, SelectDue, SelectStale, SelectReconcilable, CliStart,
                  ReadForRetry, Goto
    <3> QED BY <2>2, <3>1, SelectStepped, CliStartStepped, ReadForRetryStepped DEF SameOrder
  <2> QED BY <1>2, <2>1, <2>2, NextCases, BusyStepped, DatabaseStepped, SettleStepped
<1> QED BY <1>1, <1>2

-----------------------------------------------------------------------------
(***************************************************************************)
(* The action properties.                                                  *)
(***************************************************************************)

\* What a step does to the row of a post that was not overtaken.
LEMMA EveryRow ==
    ASSUME Regime, IInv, [Next]_vars, NEW p \in Orderly
    PROVE  \/ post'[p] = post[p]
           \/ Changed(p, post[p], post'[p]) /\ sub' = sub
           \/ Resubmitted(p, post[p], post'[p])
<1>1. CASE StepKind
  <2>1. \A q : OnlyRow(q) => q = p \/ post'[p] = post[p]
    BY DEF OnlyRow, IInv, TypeOK, Orderly
  <2> QED BY <1>1, <2>1
          DEF StepKind, Quiet, Attempted, Sent, TikTokSettles, Written, SentAgain
<1>2. ASSUME NEW a \in Actors, Overtaking(a)
      PROVE  post'[p] = post[p] \/ Resubmitted(p, post[p], post'[p])
  BY <1>2 DEF Overtaking, Sound, Confined, RowOf, P, Orderly
<1> QED BY <1>1, <1>2, EveryStep DEF Stepped

\* A parked or failed row goes back to work only by the hand of a person,
\* whatever the worker loop, crash recovery and reconciliation do.
THEOREM ReleaseIsPersonal ==
    ASSUME Regime
    PROVE  Spec => OnlyPersonsRelease
<1> DEFINE Released(p) ==
        /\ post[p].status \in {"UNKNOWN", "FAILED"}
        /\ post'[p].status \in {"PENDING", "PUBLISHING"}
        => \E a \in Users \cup Clis : ctx[a].post = p /\ ctx'[a] # ctx[a]
<1>1. IInv /\ [Next]_vars => [\A p \in Orderly : Released(p)]_vars
  <2> SUFFICES ASSUME IInv, [Next]_vars, NEW p \in Orderly PROVE Released(p)
    OBVIOUS
  <2> QED BY EveryRow
          DEF Changed, Worked, Identified, GivenUp, Settled, Parked, Requeued, Rechecked,
              Resubmitted, ByOwner, P
<1> QED BY <1>1, InvariantHolds, PTL DEF Spec, OnlyPersonsRelease

\* update_platform_post, update_platform_post_if_unchanged: of a post that was never
\* overtaken PUBLISHED is final, and no process but a person's resubmission gives up
\* the id of a submission; a late write of an executor could do both to an overtaken one.
THEOREM PublicationIsFinal ==
    ASSUME Regime
    PROVE  Spec => PublishedIsFinal
<1> DEFINE Kept(p) ==
        /\ post[p].status = "PUBLISHED" =>
              /\ post'[p].status = "PUBLISHED"
              /\ post'[p].platform_post_id = post[p].platform_post_id
        /\ post[p].platform_post_id \notin {None, post'[p].platform_post_id} =>
              \E u \in Users : At(u, "retrying") /\ ctx[u].post = p
<1>1. IInv /\ [Next]_vars => [\A p \in Orderly : Kept(p)]_vars
  <2> SUFFICES ASSUME IInv, [Next]_vars, NEW p \in Orderly PROVE Kept(p)
    OBVIOUS
  <2>1. RowConsistent(p, post[p], sub)
    BY DEF IInv, RowsConsistent
  <2> QED BY <2>1, EveryRow
          DEF Changed, Worked, Identified, GivenUp, Settled, Parked, Requeued, Rechecked,
              Resubmitted, ByOwner, P, SameId, RowConsistent
<1> QED BY <1>1, InvariantHolds, PTL DEF Spec, PublishedIsFinal

-----------------------------------------------------------------------------
(***************************************************************************)
(* The refinement.  IInv alone does not tell whether the id of a row was   *)
(* ever disowned; if it were, a published row would have no submission     *)
(* that counts.                                                            *)
(***************************************************************************)

\* The owner disowns what was submitted for a parked row, and the row lets go
\* of its id in the same step; nobody holds a disowned id.
IdsStand ==
    /\ \A i \in Ids : sub[i].post = None => ~sub[i].disowned
    /\ \A p \in Orderly : post[p].platform_post_id # None
                            => ~sub[post[p].platform_post_id].disowned
    /\ \A a \in Actors : Orderliness(a) /\ At(a, "initiated")
                            => ~sub[ctx[a].id].disowned

LEMMA InitStands == Init => IdsStand
BY DEF Init, IdsStand, NoRow, Idle, At, Orderly

\* Nobody has an id in hand while the owner of the post disowns its ids.
LEMMA NobodyInitiated ==
    ASSUME IInv, NEW p \in Orderly, post[p].status \in {"FAILED", "UNKNOWN"},
           NEW a \in Actors, At(a, "initiated")
    PROVE  P(a) # p
BY Here DEF At, Fits, Unsubmitted, Orderly, RowOf, P

\* Who works on an orderly post after the step did so before it.
LEMMA StaysOrderly ==
    ASSUME Grounded', NEW a \in Actors, Orderliness(a)', ctx'[a].post = ctx[a].post,
           ctx[a].at # "idle", \A p \in Posts : ~post'[p].overtaken => p \in Orderly
    PROVE  Orderliness(a)
<1>1. ctx'[a].post \in Posts /\ ~post'[ctx'[a].post].overtaken
  BY PlatformPostAssumption
  DEF Orderliness, RowOf, Grounded, Typed, TypeOK, Roles, Role, Local
<1> QED BY <1>1 DEF Orderliness, Orderly, RowOf

LEMMA OrderlyApart ==
    ASSUME Grounded', NEW a \in Actors, Confined(a), P(a) # None, post'[P(a)].overtaken,
           NEW b \in Actors, Orderliness(b)'
    PROVE  Orderliness(b) /\ ctx'[b] = ctx[b] /\ ctx[b].post # P(a)
<1>1. ctx'[b].post \in Posts /\ ~post'[ctx'[b].post].overtaken
  BY PlatformPostAssumption
  DEF Orderliness, RowOf, Grounded, Typed, TypeOK, Roles, Role, Local
<1>2. b # a /\ ctx'[b].post # P(a)
  BY <1>1, PlatformPostAssumption DEF Confined
<1>3. ctx'[b] = ctx[b] /\ post'[ctx[b].post] = post[ctx[b].post]
  BY <1>1, <1>2 DEF Confined
<1> QED BY <1>2, <1>3 DEF Orderliness, RowOf

\* A step that changes no flag of an id that is in use.
LEMMA SameFlagsStand ==
    ASSUME IInv, Grounded', IdsStand, StepKind, Fresh, SameOrder,
           \A i \in Ids : sub'[i].disowned = sub[i].disowned,
           \A i \in Ids : sub[i].post # None => sub'[i].post # None,
           \A p \in Posts : post'[p] = post[p] \/ Changed(p, post[p], post'[p])
    PROVE  IdsStand'
<1>1. \A i \in Ids : sub'[i].post = None => ~sub'[i].disowned
  BY DEF IdsStand
<1>0. \A p \in Posts : ~post'[p].overtaken => p \in Orderly
  BY DEF SameOrder, Orderly
<1>2. ASSUME NEW p \in Posts, ~post'[p].overtaken, post'[p].platform_post_id # None
      PROVE  ~sub'[post'[p].platform_post_id].disowned
  <2>1. post[p] \in Row /\ p \in Orderly
    BY <1>0, <1>2 DEF IInv, TypeOK
  <2>2. CASE post'[p].platform_post_id = post[p].platform_post_id
    BY <1>2, <2>1, <2>2 DEF IdsStand, Row
  <2>3. CASE Identified(p, post[p], post'[p])
    <3>1. PICK a \in Actors :
             At(a, "initiated") /\ P(a) = p /\ post'[p].platform_post_id = ctx[a].id
      BY <2>3 DEF Identified
    <3>2. ctx[a].id \in Ids /\ Orderliness(a)
      BY <1>2, <2>1, <3>1 DEF IInv, TypeOK, Local, Orderliness, Orderly, RowOf, P, At
    <3> QED BY <3>1, <3>2 DEF IdsStand
  <2>4. \/ post'[p].platform_post_id = post[p].platform_post_id
        \/ Identified(p, post[p], post'[p])
    BY DEF Changed, Worked, GivenUp, Settled, Parked, Requeued, Rechecked, SameId
  <2> QED BY <2>2, <2>3, <2>4
<1>3. ASSUME NEW a \in Actors, Orderliness(a)', ctx'[a].at = "initiated"
      PROVE  ~sub'[ctx'[a].id].disowned
  <2>1. CASE ctx[a].at = "initiated" /\ ctx'[a].id = ctx[a].id /\ ctx'[a].post = ctx[a].post
    <3>1. Orderliness(a)
      BY <1>0, <1>3, <2>1, StaysOrderly
    <3>2. ctx[a].id \in Ids
      BY <2>1, <3>1, Here DEF At, Answered, Local, Orderliness
    <3> QED BY <2>1, <3>1, <3>2 DEF IdsStand, At
  <2>2. CASE sub[ctx'[a].id].post = None /\ ctx'[a].id \in Ids
    BY <2>2 DEF IdsStand
  <2> QED BY <1>3, <2>1, <2>2 DEF Fresh
<1> QED BY <1>1, <1>2, <1>3 DEF IdsStand, At, Orderly

\* A process that works on an overtaken post gives no other post an id.
LEMMA OvertakingStands ==
    ASSUME IInv, IdsStand, NEW a \in Actors, Overtaking(a)
    PROVE  IdsStand'
<1>1. /\ P(a) # None /\ Grounded' /\ Gains(sub') /\ Confined(a) /\ post'[P(a)].overtaken
  BY DEF Overtaking, Sound
<1>2. \A i \in Ids : sub'[i].post # P(a) => sub'[i] = sub[i]
  BY <1>1 DEF Confined, Gains
<1>3. \A i \in Ids : sub'[i].post = None => ~sub'[i].disowned
  BY <1>1, <1>2 DEF IdsStand
<1>4. ASSUME NEW q \in Posts, ~post'[q].overtaken, post'[q].platform_post_id # None
      PROVE  ~sub'[post'[q].platform_post_id].disowned
  <2>1. q # P(a) /\ post'[q] = post[q] /\ q \in Orderly
    BY <1>1, <1>4 DEF Confined, Orderly
  <2>2. post[q].platform_post_id \in Ids /\ sub[post[q].platform_post_id].post = q
    BY <1>4, <2>1 DEF IInv, RowsConsistent, RowConsistent, TypeOK, Row
  <2>3. sub'[post[q].platform_post_id] = sub[post[q].platform_post_id]
    BY <1>1, <2>1, <2>2, PlatformPostAssumption DEF Confined
  <2> QED BY <1>4, <2>1, <2>3 DEF IdsStand
<1>5. ASSUME NEW b \in Actors, Orderliness(b)', ctx'[b].at = "initiated"
      PROVE  ~sub'[ctx'[b].id].disowned
  <2>1. Orderliness(b) /\ ctx'[b] = ctx[b] /\ ctx[b].post # P(a)
    BY <1>1, <1>5, OrderlyApart
  <2>2. ctx[b].id \in Ids /\ sub[ctx[b].id].post = ctx[b].post /\ ctx[b].post # None
    BY <1>5, <2>1, Here DEF At, Answered, Local, Orderliness
  <2>3. sub'[ctx[b].id] = sub[ctx[b].id]
    BY <1>1, <2>1, <2>2 DEF Confined
  <2> QED BY <1>5, <2>1, <2>3 DEF IdsStand, At
<1> QED BY <1>3, <1>4, <1>5 DEF IdsStand, At, Orderly

LEMMA KindStands ==
    ASSUME IInv, Grounded', IdsStand, Stepped, SameOrder
    PROVE  IdsStand'
<1>0. \A p \in Posts : ~post'[p].overtaken => p \in Orderly
  BY DEF SameOrder, Orderly
<1>1. StepKind /\ Fresh
  BY DEF Stepped
<1>2. \A i \in Ids : sub[i] \in Submission
  BY DEF IInv, TypeOK
<1>3. sub \in [Ids -> Submission] /\ post \in [Posts -> Row]
  BY DEF IInv, TypeOK
<1>4. CASE Quiet \/ Written
  <2>1. sub' = sub
    BY <1>4 DEF Quiet, Written
  <2>2. \A p \in Posts : post'[p] = post[p] \/ Changed(p, post[p], post'[p])
    BY <1>3, <1>4 DEF Quiet, Written, OnlyRow
  <2> QED BY <1>1, <2>1, <2>2, SameFlagsStand
<1>5. CASE Attempted \/ Sent \/ \E i \in Ids : TikTokSettles(i)
  <2>1. post' = post
    BY <1>5 DEF Attempted, Sent, TikTokSettles
  <2>2. \A i \in Ids : /\ sub'[i].disowned = sub[i].disowned
                       /\ sub[i].post # None => sub'[i].post # None
    BY <1>2, <1>3, <1>5, PlatformPostAssumption
    DEF Attempted, Sent, TikTokSettles, Submission
  <2> QED BY <1>1, <2>1, <2>2, SameFlagsStand
<1>6. ASSUME NEW p \in Posts, OnlyRow(p), Resubmitted(p, post[p], post'[p]),
             IF post[p].status = "UNKNOWN" THEN Disown(p) ELSE sub' = sub
      PROVE  IdsStand'
  <2>1. \A i \in Ids : /\ sub'[i].post = sub[i].post
                       /\ sub[i].post # p => sub'[i] = sub[i]
    BY <1>2, <1>6 DEF Disown, Submission
  <2>2. \A i \in Ids : sub'[i].post = None => ~sub'[i].disowned
    BY <2>1, PlatformPostAssumption DEF IdsStand
  <2>3. ASSUME NEW q \in Posts, ~post'[q].overtaken, post'[q].platform_post_id # None
        PROVE  ~sub'[post'[q].platform_post_id].disowned
    <3>1. q # p /\ post'[q] = post[q]
      BY <1>3, <1>6, <2>3 DEF Resubmitted, OnlyRow
    <3>2. post[q].platform_post_id \in Ids /\ sub[post[q].platform_post_id].post = q
      BY <1>0, <1>3, <2>3, <3>1 DEF IInv, RowsConsistent, RowConsistent, Row
    <3> QED BY <1>0, <2>1, <2>3, <3>1, <3>2 DEF IdsStand
  <2>4. ASSUME NEW a \in Actors, Orderliness(a)', ctx'[a].at = "initiated"
        PROVE  ~sub'[ctx'[a].id].disowned
    <3>1. CASE ctx[a].at = "initiated" /\ ctx'[a].id = ctx[a].id /\ ctx'[a].post = ctx[a].post
      <4>0. Orderliness(a)
        BY <1>0, <2>4, <3>1, StaysOrderly
      <4>1. ctx[a].id \in Ids /\ sub[ctx[a].id].post = P(a)
        BY <3>1, <4>0, Here DEF At, Answered, Local, Orderliness
      <4>2. P(a) # p
        <5>1. P(a) \in Orderly
          BY <4>0, <4>1, Here DEF Orderliness, Orderly, RowOf, At, P
        <5> QED BY <1>6, <3>1, <5>1, NobodyInitiated DEF Resubmitted, At
      <4> QED BY <2>1, <3>1, <4>0, <4>1, <4>2 DEF IdsStand, At
    <3>2. CASE sub[ctx'[a].id].post = None /\ ctx'[a].id \in Ids
      BY <2>1, <3>2, PlatformPostAssumption DEF IdsStand
    <3> QED BY <1>1, <2>4, <3>1, <3>2 DEF Fresh
  <2> QED BY <2>2, <2>3, <2>4 DEF IdsStand, At, Orderly
<1>7. CASE SentAgain
  <2>1. Orderly \subseteq Posts
    BY DEF Orderly
  <2> QED BY <1>6, <1>7, <2>1 DEF SentAgain
<1> QED BY <1>1, <1>4, <1>5, <1>7 DEF StepKind

LEMMA StepStands ==
    ASSUME Regime, IInv, IdsStand, [Next]_vars
    PROVE  IdsStand'
<1>1. Grounded'
  <2>1. CASE Next
    BY <2>1, IInvGrounded, NextGrounded
  <2>2. CASE UNCHANGED vars
    BY <2>2, IInvGrounded
    DEF vars, Grounded, Typed, TypeOK, Roles, UnusedIds, Sourced, RowOf
  <2> QED BY <2>1, <2>2
<1> QED BY <1>1, EveryStep, KindStands, OvertakingStands

LEMMA AlwaysStand ==
    ASSUME Regime
    PROVE  Spec => [](IInv /\ IdsStand)
<1>1. IInv /\ IdsStand /\ [Next]_vars => IInv' /\ IdsStand'
  BY NextSafe, StepStands
<1> QED BY <1>1, InitSafe, InitStands, PTL DEF Spec

\* Unchanged means unchanged for the owner and the platform.
Unseen == UNCHANGED Contract!contractVars

LEMMA SameSubCounts ==
    ASSUME sub' = sub, SameOrder
    PROVE  OpenNow' = OpenNow /\ PostedNow' = PostedNow
BY DEF OpenNow, PostedNow, Counting, SameOrder

LEMMA SamePostShows ==
    ASSUME post' = post
    PROVE  ShownNow' = ShownNow
BY DEF ShownNow

LEMMA OneRowShows ==
    ASSUME IInv, NEW p \in Posts, OnlyRow(p)
    PROVE  ShownNow' = [ShownNow EXCEPT ![p] = ShownStatus(post'[p])]
<1>1. \A q \in Posts : q # p => post'[q] = post[q]
  BY DEF OnlyRow, IInv, TypeOK
<1> QED BY <1>1 DEF ShownNow

\* What counts for p is the submission its row points at.
LEMMA CountingIsTracked ==
    ASSUME IInv, NEW p \in Posts
    PROVE  /\ \A i \in Counting(p, "sent") : i = post[p].platform_post_id
           /\ \A i \in Counting(p, "published") : i = post[p].platform_post_id
           /\ Counting(p, "sent") = {} \/ Counting(p, "published") = {}
BY DEF Counting, IInv, RowsConsistent, RowConsistent, Orderly

LEMMA AttemptUnseen ==
    ASSUME IInv, Attempted
    PROVE  Unseen
<1>1. PICK p \in Posts, i \in Ids :
         post' = post /\ sub[i].post = None /\ sub' = [sub EXCEPT ![i].post = p]
  BY DEF Attempted
<1>2. /\ sub'[i].media = "none" /\ sub[i].media = "none"
      /\ \A j \in Ids : j # i => sub'[j] = sub[j]
  BY <1>1 DEF IInv, TypeOK, UnusedIds, Submission
<1>3. \A q, m : m \in {"sent", "published"} => Counting(q, m)' = Counting(q, m)
  BY <1>1, <1>2 DEF Counting
<1>4. OpenNow' = OpenNow /\ PostedNow' = PostedNow
  BY <1>3 DEF OpenNow, PostedNow
<1> QED BY <1>1, <1>4, SamePostShows DEF Unseen, Contract!contractVars

LEMMA SendSubmits ==
    ASSUME IInv, IdsStand, Sent
    PROVE  \E p \in Posts, i \in Ids : Contract!Submit(p, i)
<1>1. PICK p \in Orderly, i \in Ids :
         /\ post' = post /\ post[p].platform_post_id = i
         /\ sub[i].media = "none" /\ sub' = [sub EXCEPT ![i].media = "sent"]
  BY DEF Sent
<1>2. /\ i # None /\ RowConsistent(p, post[p], sub) /\ post[p] \in Row
      /\ sub[i] \in Submission /\ p \in Posts /\ ~post[p].overtaken
  BY <1>1, PlatformPostAssumption DEF IInv, RowsConsistent, TypeOK, Orderly
<1>3. sub[i].post = p /\ ~sub[i].disowned
  BY <1>1, <1>2 DEF RowConsistent, IdsStand
<1>4. post[p].status \in {"PUBLISHING", "UNKNOWN"}
  BY <1>1, <1>2 DEF RowConsistent, Row
<1>5. ShownNow[p] \in {"waiting", "unknown"}
  BY <1>2, <1>4 DEF ShownNow, ShownStatus
<1>6. Counting(p, "sent") = {} /\ Counting(p, "published") = {}
  BY <1>1, <1>2, CountingIsTracked DEF Counting
<1>7. /\ sub'[i].post = p /\ ~sub'[i].disowned /\ sub'[i].media = "sent"
      /\ \A j \in Ids : j # i => sub'[j] = sub[j]
  BY <1>1, <1>2, <1>3 DEF Submission, IInv, TypeOK
<1>8. /\ Counting(p, "sent")' = {i} /\ Counting(p, "published")' = {}
  BY <1>1, <1>2, <1>6, <1>7 DEF Counting
<1>9. \A q, m : q # p => Counting(q, m)' = Counting(q, m)
  BY <1>1, <1>3, <1>7 DEF Counting
<1>10. OpenNow' = [OpenNow EXCEPT ![p] = {i}]
  BY <1>8, <1>9 DEF OpenNow
<1>11. PostedNow' = PostedNow
  BY <1>6, <1>8, <1>9 DEF PostedNow
<1>12. OpenNow[p] = {} /\ PostedNow[p] = {}
  BY <1>2, <1>6 DEF OpenNow, PostedNow
<1> QED BY <1>1, <1>2, <1>5, <1>10, <1>11, <1>12, SamePostShows DEF Contract!Submit

LEMMA SettlingAcceptsOrRefuses ==
    ASSUME IInv, NEW i \in Ids, TikTokSettles(i)
    PROVE  Unseen \/ \E p \in Posts : Contract!Accept(p) \/ Contract!Refuse(p)
<1>0. PICK p \in Posts : p = sub[i].post
  BY DEF TikTokSettles, IInv, TypeOK, Submission
<1>1. post' = post /\ sub[i] \in Submission /\ sub \in [Ids -> Submission]
  BY DEF TikTokSettles, IInv, TypeOK
<1>2. /\ sub'[i].post = p /\ sub'[i].disowned = sub[i].disowned
      /\ \A j \in Ids : j # i => sub'[j] = sub[j]
      /\ \/ sub[i].media = "sent" /\ sub'[i].media = "published"
         \/ sub[i].media \in {"none", "sent"} /\ sub'[i].media = "failed"
  BY <1>0, <1>1 DEF TikTokSettles, Submission
<1>3. ShownNow' = ShownNow
  BY <1>1, SamePostShows
<1>4. CASE sub[i].disowned \/ sub[i].media = "none" \/ post[p].overtaken
  <2>1. \A q, m : m \in {"sent", "published"} => Counting(q, m)' = Counting(q, m)
    BY <1>0, <1>1, <1>2, <1>4 DEF Counting
  <2>2. OpenNow' = OpenNow /\ PostedNow' = PostedNow
    BY <2>1 DEF OpenNow, PostedNow
  <2> QED BY <1>3, <2>2 DEF Unseen, Contract!contractVars
<1>5. CASE ~sub[i].disowned /\ sub[i].media = "sent" /\ ~post[p].overtaken
  <2>1. i \in Counting(p, "sent")
    BY <1>0, <1>5 DEF Counting
  <2>2. Counting(p, "sent") = {i} /\ Counting(p, "published") = {}
    BY <2>1, CountingIsTracked
  <2>3. \A q, m : q # p => Counting(q, m)' = Counting(q, m)
    BY <1>0, <1>1, <1>2 DEF Counting
  <2>4. Counting(p, "sent")' = {}
    BY <1>1, <1>2, <2>2 DEF Counting
  <2>5. OpenNow[p] = {i} /\ PostedNow[p] = {}
    BY <2>2 DEF OpenNow, PostedNow
  <2>6. OpenNow' = [OpenNow EXCEPT ![p] = {}]
    BY <2>3, <2>4 DEF OpenNow
  <2>7. CASE sub'[i].media = "published"
    <3>1. Counting(p, "published")' = {i}
      BY <1>1, <1>2, <1>5, <2>2, <2>7 DEF Counting
    <3>2. PostedNow' = [PostedNow EXCEPT ![p] = {i}]
      BY <2>3, <3>1 DEF PostedNow
    <3> QED BY <1>3, <2>5, <2>6, <3>2 DEF Contract!Accept
  <2>8. CASE sub'[i].media = "failed"
    <3>1. Counting(p, "published")' = Counting(p, "published")
      BY <1>1, <1>2, <1>5, <2>2, <2>8 DEF Counting
    <3>2. PostedNow' = PostedNow
      BY <2>3, <3>1 DEF PostedNow
    <3> QED BY <1>3, <2>5, <2>6, <3>2 DEF Contract!Refuse
  <2> QED BY <1>2, <2>7, <2>8
<1> QED BY <1>2, <1>4, <1>5

\* A write that sub does not notice is a report, a parking, a reopening, or
\* nothing the owner sees.
LEMMA WriteReports ==
    ASSUME IInv, IdsStand, SameOrder, NEW p \in Posts, OnlyRow(p), sub' = sub,
           Changed(p, post[p], post'[p])
    PROVE  \/ Unseen
           \/ Contract!ReportPublished(p) \/ Contract!ReportFailed(p)
           \/ Contract!Park(p) \/ Contract!Reopen(p)
<1>1. /\ ShownNow' = [ShownNow EXCEPT ![p] = ShownStatus(post'[p])]
      /\ OpenNow' = OpenNow /\ PostedNow' = PostedNow
  BY OneRowShows, SameSubCounts
<1>2. /\ ShownNow[p] = ShownStatus(post[p]) /\ OpenNow[p] = Counting(p, "sent")
      /\ PostedNow[p] = Counting(p, "published")
  BY DEF ShownNow, OpenNow, PostedNow
<1>3. post[p] \in Row /\ post'[p].overtaken = post[p].overtaken
  BY DEF IInv, TypeOK, SameOrder
<1>4. ASSUME ShownStatus(post'[p]) = ShownStatus(post[p])
      PROVE  Unseen
  <2>1. ShownNow' = ShownNow
    BY <1>1, <1>2, <1>4 DEF ShownNow
  <2> QED BY <1>1, <2>1 DEF Unseen, Contract!contractVars
<1>a. CASE post[p].overtaken
  BY <1>3, <1>4, <1>a DEF ShownStatus
<1> SUFFICES ASSUME ~post[p].overtaken, ~Unseen
             PROVE  \/ Contract!ReportPublished(p) \/ Contract!ReportFailed(p)
                    \/ Contract!Park(p) \/ Contract!Reopen(p)
  BY <1>a
<1>b. RowConsistent(p, post[p], sub) /\ p \in Orderly /\ ~post'[p].overtaken
  BY <1>3 DEF IInv, RowsConsistent, Orderly
<1>5. CASE Worked(post[p], post'[p]) \/ Identified(p, post[p], post'[p])
  BY <1>b, <1>4, <1>5 DEF Worked, Identified, ShownStatus
<1>6. CASE GivenUp(post[p], post'[p])
  <2>1. ShownNow[p] = "waiting" /\ ShownStatus(post'[p]) = "failed"
    BY <1>b, <1>2, <1>6 DEF GivenUp, ShownStatus
  <2>2. Counting(p, "sent") = {} /\ Counting(p, "published") = {}
    BY <1>6, CountingIsTracked, PlatformPostAssumption DEF GivenUp, Counting
  <2> QED BY <1>1, <1>2, <2>1, <2>2 DEF Contract!ReportFailed, Contract!Show
<1>7. CASE Settled(post[p], post'[p])
  <2> DEFINE i == post[p].platform_post_id
  <2>1. i \in Ids /\ sub[i].post = p /\ ~sub[i].disowned
    BY <1>3, <1>b, <1>7 DEF Settled, RowConsistent, IdsStand, Row
  <2>2. CASE post'[p].status = "PUBLISHED" /\ sub[i].media = "published"
    <3>1. post[p].status \in {"PUBLISHING", "UNKNOWN", "PUBLISHED"}
      BY <1>3, <1>b, <2>1, <2>2, PlatformPostAssumption DEF RowConsistent, Row
    <3>2. CASE post[p].status = "PUBLISHED"
      BY <1>b, <1>4, <2>2, <3>2 DEF ShownStatus
    <3>3. CASE post[p].status \in {"PUBLISHING", "UNKNOWN"}
      <4>1. /\ ShownNow[p] \in {"waiting", "unknown"}
            /\ ShownStatus(post'[p]) = "published"
        BY <1>b, <1>2, <2>2, <3>3 DEF ShownStatus
      <4>2. PostedNow[p] # {}
        BY <1>b, <1>2, <2>1, <2>2 DEF Counting, Orderly
      <4> QED BY <1>1, <4>1, <4>2 DEF Contract!ReportPublished, Contract!Show
    <3> QED BY <3>1, <3>2, <3>3
  <2>3. CASE post'[p].status = "FAILED" /\ sub[i].media = "failed"
    <3>1. post[p].status \in {"PUBLISHING", "UNKNOWN", "FAILED"}
      BY <1>3, <1>b, <2>1, <2>3, PlatformPostAssumption DEF RowConsistent, Row
    <3>2. CASE post[p].status = "FAILED"
      BY <1>b, <1>4, <2>3, <3>2 DEF ShownStatus
    <3>3. CASE post[p].status \in {"PUBLISHING", "UNKNOWN"}
      <4>1. /\ ShownNow[p] \in {"waiting", "unknown"}
            /\ ShownStatus(post'[p]) = "failed"
        BY <1>b, <1>2, <2>3, <3>3 DEF ShownStatus
      <4>2. OpenNow[p] = {} /\ PostedNow[p] = {}
        BY <1>2, <2>3, CountingIsTracked DEF Counting
      <4> QED BY <1>1, <4>1, <4>2 DEF Contract!ReportFailed, Contract!Show
    <3> QED BY <3>1, <3>2, <3>3
  <2> QED BY <1>7, <2>2, <2>3 DEF Settled
<1>8. CASE Parked(post[p], post'[p])
  BY <1>b, <1>1, <1>2, <1>8 DEF Parked, ShownStatus, Contract!Park, Contract!Show
<1>9. CASE Requeued(p, post[p], post'[p]) \/ Rechecked(p, post[p], post'[p])
  BY <1>b, <1>1, <1>2, <1>9 DEF Requeued, Rechecked, ShownStatus, Contract!Reopen, Contract!Show
<1> QED BY <1>5, <1>6, <1>7, <1>8, <1>9 DEF Changed

LEMMA SendAgainReopens ==
    ASSUME IInv, SentAgain, SameOrder
    PROVE  \E p \in Posts : Contract!Reopen(p)
<1>1. PICK p \in Orderly :
         /\ OnlyRow(p) /\ Resubmitted(p, post[p], post'[p])
         /\ IF post[p].status = "UNKNOWN" THEN Disown(p) ELSE sub' = sub
  BY DEF SentAgain
<1>2. /\ ShownNow' = [ShownNow EXCEPT ![p] = "waiting"]
      /\ ShownNow[p] = ShownStatus(post[p])
      /\ p \in Posts /\ ~post[p].overtaken /\ ~post'[p].overtaken
  <2>1. p \in Posts /\ ~post[p].overtaken /\ ~post'[p].overtaken
    BY DEF Orderly, SameOrder
  <2> QED BY <1>1, <2>1, OneRowShows DEF Resubmitted, ShownStatus, ShownNow
<1>3. CASE post[p].status = "FAILED"
  <2>1. OpenNow' = OpenNow /\ PostedNow' = PostedNow
    BY <1>1, <1>3, SameSubCounts
  <2> QED BY <1>2, <1>3, <2>1 DEF ShownStatus, Contract!Reopen, Contract!Show
<1>4. CASE post[p].status = "UNKNOWN"
  <2>1. \A i \in Ids : sub'[i] = IF sub[i].post = p THEN [sub[i] EXCEPT !.disowned = TRUE]
                                 ELSE sub[i]
    BY <1>1, <1>4 DEF Disown
  <2>2. \A i \in Ids : /\ sub'[i].post = sub[i].post
                       /\ sub[i].post = p => sub'[i].disowned
                       /\ sub[i].post # p => sub'[i] = sub[i]
    BY <2>1 DEF IInv, TypeOK, Submission
  <2>3. \A m : Counting(p, m)' = {}
    BY <2>2 DEF Counting
  <2>4. \A q \in Posts : \A m : q # p => Counting(q, m)' = Counting(q, m)
    BY <2>2 DEF Counting, SameOrder
  <2>5. /\ OpenNow' = [OpenNow EXCEPT ![p] = {}]
        /\ PostedNow' = [PostedNow EXCEPT ![p] = {}]
    BY <2>3, <2>4 DEF OpenNow, PostedNow
  <2> QED BY <1>2, <1>4, <2>5 DEF ShownStatus, Contract!Reopen, Contract!Show
<1> QED BY <1>1, <1>3, <1>4 DEF Resubmitted

\* An owner's early retry gives the promises up, and nothing is seen of the
\* post from then on.
LEMMA OvertakingForfeits ==
    ASSUME IInv, NEW a \in Actors, Overtaking(a)
    PROVE  Unseen \/ \E p \in Posts : Contract!Forfeit(p)
<1>1. /\ P(a) # None /\ Gains(sub') /\ Confined(a) /\ post'[P(a)].overtaken
  BY DEF Overtaking, Sound
<1>2. PICK p \in Posts : p = P(a) /\ RowOf(a) = post[p]
  BY <1>1 DEF IInv, TypeOK, Local, P, RowOf
<1>3. \A q \in Posts : q # p => post'[q] = post[q]
  BY <1>1, <1>2 DEF Confined
<1>4. \A q \in Posts : \A m : q # p => Counting(q, m)' = Counting(q, m)
  <2> SUFFICES ASSUME NEW q \in Posts, NEW m, q # p, NEW i \in Ids
               PROVE  (i \in Counting(q, m))' <=> i \in Counting(q, m)
    BY DEF Counting
  <2>1. sub[i].post = q \/ sub'[i].post = q => sub'[i] = sub[i]
    BY <1>1, <1>2, PlatformPostAssumption DEF Confined, Gains
  <2> QED BY <1>3, <2>1 DEF Counting
<1>5. \A m : Counting(p, m)' = {}
  BY <1>1, <1>2 DEF Counting
<1>6. /\ OpenNow' = [OpenNow EXCEPT ![p] = {}]
      /\ PostedNow' = [PostedNow EXCEPT ![p] = {}]
      /\ ShownNow' = [ShownNow EXCEPT ![p] = "void"]
  <2>1. ShownStatus(post'[p]) = "void"
    BY <1>1, <1>2 DEF ShownStatus
  <2> QED BY <1>3, <1>4, <1>5, <2>1 DEF OpenNow, PostedNow, ShownNow
<1>7. CASE post[p].overtaken
  <2>1. /\ \A m : Counting(p, m) = {}
        /\ ShownStatus(post[p]) = "void"
    BY <1>7 DEF Counting, ShownStatus
  <2>2. OpenNow[p] = {} /\ PostedNow[p] = {} /\ ShownNow[p] = "void"
    BY <2>1 DEF OpenNow, PostedNow, ShownNow
  <2>3. OpenNow' = OpenNow
    BY <1>6, <2>2 DEF OpenNow
  <2>4. PostedNow' = PostedNow
    BY <1>6, <2>2 DEF PostedNow
  <2>5. ShownNow' = ShownNow
    BY <1>6, <2>2 DEF ShownNow
  <2> QED BY <2>3, <2>4, <2>5 DEF Unseen, Contract!contractVars
<1>8. CASE ~post[p].overtaken
  <2>1. post[p].status \in {"FAILED", "UNKNOWN"}
    BY <1>2, <1>8 DEF Overtaking, Resubmitted
  <2>2. ShownNow[p] \in {"failed", "unknown"}
    BY <1>2, <1>8, <2>1 DEF ShownNow, ShownStatus
  <2> QED BY <1>2, <1>6, <2>2 DEF Contract!Forfeit, Contract!Show
<1> QED BY <1>7, <1>8

\* Every step of the pipeline is a step of the contract, or invisible.
LEMMA KindRefines ==
    ASSUME IInv, IdsStand, StepKind, SameOrder
    PROVE  [Contract!ContractNext]_(Contract!contractVars)
<1>1. StepKind
  OBVIOUS
<1>2. CASE Quiet
  BY <1>2, SameSubCounts, SamePostShows DEF Quiet, Contract!contractVars
<1>3. CASE Attempted
  BY <1>3, AttemptUnseen DEF Unseen
<1>4. CASE Sent
  BY <1>4, SendSubmits DEF Contract!ContractNext
<1>5. CASE \E i \in Ids : TikTokSettles(i)
  BY <1>5, SettlingAcceptsOrRefuses DEF Unseen, Contract!ContractNext
<1>6. CASE Written
  BY <1>6, WriteReports DEF Written, Unseen, Contract!ContractNext
<1>7. CASE SentAgain
  BY <1>7, SendAgainReopens DEF Contract!ContractNext
<1> QED BY <1>1, <1>2, <1>3, <1>4, <1>5, <1>6, <1>7 DEF StepKind

LEMMA StepRefines ==
    ASSUME Regime, IInv, IdsStand, [Next]_vars
    PROVE  [Contract!ContractNext]_(Contract!contractVars)
<1>1. ASSUME NEW a \in Actors, Overtaking(a)
      PROVE  [Contract!ContractNext]_(Contract!contractVars)
  BY <1>1, OvertakingForfeits DEF Unseen, Contract!ContractNext
<1> QED BY <1>1, EveryStep, KindRefines DEF Stepped

LEMMA InitRefines == Init => Contract!ContractInit
BY DEF Init, NoRow, ShownNow, ShownStatus, OpenNow, PostedNow, Counting,
       Contract!ContractInit

\* The pipeline implements its contract: whatever the processes, crashes,
\* ambiguous errors and retries do, owner and platform see steps of it only.
THEOREM PipelineImplementsContract ==
    ASSUME Regime
    PROVE  Spec => ImplementsContract
<1>1. IInv /\ IdsStand /\ [Next]_vars => [Contract!ContractNext]_(Contract!contractVars)
  BY StepRefines
<1> QED BY <1>1, InitRefines, AlwaysStand, PTL
        DEF Spec, ImplementsContract, Contract!ContractSpec

-----------------------------------------------------------------------------
(***************************************************************************)
(* What the contract itself promises, and the pipeline inherits.           *)
(***************************************************************************)

LEMMA ContractInvHolds == Contract!ContractSpec => []Contract!ContractInv
<1> USE DEF Contract!ContractInv, Contract!ContractOnce
<1>1. Contract!ContractInit => Contract!ContractInv
  BY DEF Contract!ContractInit
<1>2. Contract!ContractInv /\ [Contract!ContractNext]_(Contract!contractVars)
         => Contract!ContractInv'
  <2> SUFFICES ASSUME Contract!ContractInv,
                      [Contract!ContractNext]_(Contract!contractVars)
               PROVE  Contract!ContractInv'
    OBVIOUS
  <2>1. CASE UNCHANGED Contract!contractVars
    BY <2>1 DEF Contract!contractVars
  <2>2. ASSUME NEW p \in Posts, NEW i \in Ids, Contract!Submit(p, i)
        PROVE  Contract!ContractInv'
    BY <2>2 DEF Contract!Submit
  <2>3. ASSUME NEW p \in Posts, Contract!Accept(p)
        PROVE  Contract!ContractInv'
    BY <2>3 DEF Contract!Accept
  <2>4. ASSUME NEW p \in Posts, Contract!Refuse(p)
        PROVE  Contract!ContractInv'
    BY <2>4 DEF Contract!Refuse
  <2>5. ASSUME NEW p \in Posts, Contract!Reopen(p)
        PROVE  Contract!ContractInv'
    BY <2>5 DEF Contract!Reopen
  <2>6. ASSUME NEW p \in Posts,
               \/ Contract!Park(p) \/ Contract!ReportPublished(p)
               \/ Contract!ReportFailed(p)
        PROVE  Contract!ContractInv'
    BY <2>6 DEF Contract!Park, Contract!ReportPublished, Contract!ReportFailed
  <2>7. ASSUME NEW p \in Posts, Contract!Forfeit(p)
        PROVE  Contract!ContractInv'
    BY <2>7 DEF Contract!Forfeit
  <2> QED BY <2>1, <2>2, <2>3, <2>4, <2>5, <2>6, <2>7 DEF Contract!ContractNext
<1> QED BY <1>1, <1>2, PTL DEF Contract!ContractSpec

\* The owner's and the platform's view of the pipeline: one video, one post,
\* by the contract alone.
THEOREM OwnerSeesOnePost ==
    ASSUME Regime
    PROVE  Spec => []Contract!ContractOnce
<1>1. Contract!ContractInv => Contract!ContractOnce
  BY DEF Contract!ContractInv
<1> QED BY <1>1, PipelineImplementsContract, ContractInvHolds, PTL DEF ImplementsContract
=============================================================================
