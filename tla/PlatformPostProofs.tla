------------------------- MODULE PlatformPostProofs -------------------------
(***************************************************************************)
(* Proofs about PlatformPost within Regime, for every number of posts,     *)
(* processes and ids and every retry and status check budget.              *)
(***************************************************************************)
EXTENDS UnconditionalProofs

-----------------------------------------------------------------------------
(***************************************************************************)
(* The inductive invariant.  What a step of process a has to show for it   *)
(* is stated once, in GotoSafe and WriteSafe.                              *)
(***************************************************************************)

\* Process a may enter the local state l: no other process stands in the way.
MayEnter(a, l) ==
    \A b \in Actors : b # a /\ ctx[b].post = l.post /\ l.post # None
        => Exclusive(a, l, b, ctx[b]) /\ Exclusive(b, ctx[b], a, l)

\* The other processes on p do not depend on what row changes.
Undisturbed(a, p, row) ==
    \A b \in Actors : b # a /\ ctx[b].post = p =>
        \/ ctx[b].at \notin Executing \cup Polling \cup {"cli_failed"}
        \/ row.platform_post_id # None /\ row.platform_post_id = post[p].platform_post_id

LEMMA SameSubGains == IInv => Gains(sub)
BY DEF IInv, UnusedIds, Gains

LEMMA IInvGrounded == IInv => Grounded
BY DEF IInv, Grounded, Typed

LEMMA AnsweredStays ==
    ASSUME IInv, Gains(sub'), NEW b \in Actors, Orderliness(b)
    PROVE  Answered(ctx[b], sub')
<1>1. Answered(ctx[b], sub) /\ Role(b, ctx[b]) /\ ctx[b] \in Local
  BY DEF IInv, AnswersHold, Roles, TypeOK
<1> QED BY <1>1 DEF Answered, Role, Gains, Local

LEMMA IdleSafe ==
    /\ \A s : Answered(Idle, s)
    /\ \A a \in Actors : MayEnter(a, Idle)
BY DEF Answered, Idle, Asked, Reconciling, MayEnter

LEMMA GotoSafe ==
    ASSUME IInv, Grounded', NEW a \in Actors, NEW next \in Local, Goto(a, next),
           Gains(sub'), RowsConsistent',
           next.at # "idle" => Fits(next, post[next.post]),
           Answered(next, sub'), MayEnter(a, next)
    PROVE  IInv'
<1>1. /\ ctx'[a] = next /\ post' = post
      /\ \A b \in Actors : b # a => ctx'[b] = ctx[b]
  BY DEF Goto, IInv, TypeOK
<1>2. StagesFit'
  BY <1>1 DEF StagesFit, Orderliness, RowOf, IInv
<1>3. AnswersHold'
  BY <1>1, AnsweredStays DEF AnswersHold, Orderliness, RowOf
<1>4. NobodyCollides'
  <2> SUFFICES ASSUME NEW b \in Actors, NEW c \in Actors, b # c,
                      ctx'[b].post = ctx'[c].post, Orderliness(b)'
               PROVE  Exclusive(b, ctx'[b], c, ctx'[c])
    BY DEF NobodyCollides
  <2>1. ctx'[b].post # None
    BY DEF Orderliness, Grounded, Typed, Roles, Role
  <2>2. CASE b # a /\ c # a
    BY <1>1, <2>2 DEF IInv, NobodyCollides, Orderliness, RowOf
  <2>3. CASE b = a \/ c = a
    BY <1>1, <2>1, <2>3 DEF MayEnter
  <2> QED BY <2>2, <2>3
<1> QED BY <1>2, <1>3, <1>4 DEF IInv, Grounded, Typed

LEMMA WriteSafe ==
    ASSUME IInv, Grounded', NEW a \in Actors, NEW p \in Posts, NEW row \in Row,
           NEW next \in Local, Write(a, p, row, next), ~post[p].overtaken,
           Gains(sub'), RowsConsistent',
           next.at # "idle" => next.post = p /\ Fits(next, row),
           Answered(next, sub'), MayEnter(a, next), Undisturbed(a, p, row)
    PROVE  IInv'
<1>1. /\ ctx'[a] = next /\ post'[p] = row
      /\ \A q \in Posts : q # p => post'[q] = post[q]
  BY DEF Write, IInv, TypeOK
<1>2. \A b \in Actors : b # a =>
         /\ ctx'[b] = [ctx[b] EXCEPT !.fresh = ctx[b].fresh /\ ctx[b].post # p]
         /\ ctx[b] \in Local
  BY DEF Write, IInv, TypeOK
<1>3. \A b \in Actors : b # a =>
         /\ ctx'[b].at = ctx[b].at /\ ctx'[b].post = ctx[b].post /\ ctx'[b].id = ctx[b].id
         /\ ctx'[b].outcome = ctx[b].outcome
         /\ ctx'[b].fresh => ctx[b].fresh /\ ctx[b].post # p
  BY <1>2 DEF Local
<1>4. \A b \in Actors : b # a /\ Orderliness(b)' => Orderliness(b)
  <2> SUFFICES ASSUME NEW b \in Actors, b # a, Orderliness(b)' PROVE Orderliness(b)
    OBVIOUS
  <2>1. ctx[b].at # "idle" /\ Role(b, ctx[b]) /\ ctx[b] \in Local
    BY <1>3 DEF Orderliness, IInv, Roles, TypeOK
  <2>2. ctx[b].post \in Posts
    BY <2>1 DEF Role, Local
  <2> QED BY <1>1, <1>3, <2>1, <2>2 DEF Orderliness, RowOf
<1>5. StagesFit'
  <2> SUFFICES ASSUME NEW b \in Actors, Orderliness(b)'
               PROVE  Fits(ctx'[b], post'[ctx'[b].post])
    BY DEF StagesFit, RowOf
  <2>1. CASE b = a
    BY <1>1, <2>1 DEF Orderliness
  <2>2. CASE b # a /\ ctx[b].post # p
    <3>0. Orderliness(b)
      BY <1>4, <2>2
    <3>1. Fits(ctx[b], post[ctx[b].post]) /\ ctx[b].post \in Posts
      BY <3>0 DEF IInv, StagesFit, Orderliness, RowOf, TypeOK, Roles, Role, Local
    <3>2. post'[ctx'[b].post] = post[ctx[b].post]
      BY <1>1, <1>3, <2>2, <3>1
    <3> QED BY <1>3, <2>2, <3>1, <3>2 DEF Fits
  <2>3. CASE b # a /\ ctx[b].post = p
    <3>0. Orderliness(b)
      BY <1>4, <2>3
    <3>1. Fits(ctx[b], post[p]) /\ ~ctx'[b].fresh
      BY <1>3, <2>3, <3>0 DEF IInv, StagesFit, RowOf
    <3>2. CASE ctx[b].at \notin Executing \cup Polling \cup {"cli_failed"}
      BY <1>3, <2>3, <3>1, <3>2 DEF Fits, Unsubmitted, Holding, Executing, Polling
    <3>3. CASE /\ ctx[b].at \in Executing \cup Polling \cup {"cli_failed"}
               /\ row.platform_post_id # None
               /\ row.platform_post_id = post[p].platform_post_id
      <4>1. Fits(ctx'[b], row)
        BY <1>3, <2>3, <3>1, <3>3 DEF Fits, Unsubmitted, Holding, Executing, Polling,
           Recovering, Reconciling
      <4> QED BY <4>1, <1>1, <1>3, <2>3
    <3> QED BY <2>3, <3>2, <3>3 DEF Undisturbed
  <2> QED BY <2>1, <2>2, <2>3
<1>6. AnswersHold'
  <2> SUFFICES ASSUME NEW b \in Actors, Orderliness(b)' PROVE Answered(ctx'[b], sub')
    BY DEF AnswersHold
  <2>1. CASE b = a
    BY <1>1, <2>1
  <2>2. CASE b # a
    BY <1>3, <1>4, <2>2, AnsweredStays DEF Answered
  <2> QED BY <2>1, <2>2
<1>7. NobodyCollides'
  <2> SUFFICES ASSUME NEW b \in Actors, NEW c \in Actors, b # c,
                      ctx'[b].post = ctx'[c].post, Orderliness(b)'
               PROVE  Exclusive(b, ctx'[b], c, ctx'[c])
    BY DEF NobodyCollides
  <2>0. ctx'[b].post # None
    BY DEF Orderliness, Grounded, Typed, Roles, Role
  <2>1. CASE b # a /\ c # a
    <3>1. Exclusive(b, ctx[b], c, ctx[c])
      BY <1>3, <1>4, <2>1 DEF IInv, NobodyCollides
    <3> QED BY <1>3, <2>1, <3>1 DEF Exclusive
  <2>2. CASE b = a
    <3>1. Exclusive(a, next, c, ctx[c])
      BY <1>1, <1>3, <2>0, <2>2 DEF MayEnter
    <3> QED BY <1>1, <1>3, <2>2, <3>1 DEF Exclusive
  <2>3. CASE c = a
    <3>1. Exclusive(b, ctx[b], a, next)
      BY <1>1, <1>3, <2>0, <2>3 DEF MayEnter
    <3> QED BY <1>1, <1>3, <2>3, <3>1 DEF Exclusive
  <2> QED BY <2>1, <2>2, <2>3
<1> QED BY <1>5, <1>6, <1>7 DEF IInv, Grounded, Typed

\* The two common cases: nothing happens on TikTok's side.
LEMMA QuietGotoSafe ==
    ASSUME IInv, Grounded', NEW a \in Actors, NEW next \in Local, Goto(a, next), sub' = sub,
           next.at # "idle" => Fits(next, post[next.post]),
           Answered(next, sub), MayEnter(a, next)
    PROVE  IInv'
<1>1. RowsConsistent'
  BY DEF IInv, RowsConsistent, Orderly, Goto
<1>2. Gains(sub') /\ Answered(next, sub')
  BY SameSubGains
<1> QED BY <1>1, <1>2, GotoSafe

LEMMA QuietWriteSafe ==
    ASSUME IInv, Grounded', NEW a \in Actors, NEW p \in Posts, NEW row \in Row,
           NEW next \in Local, Write(a, p, row, next), sub' = sub,
           ~post[p].overtaken, RowConsistent(p, row, sub),
           next.at # "idle" => next.post = p /\ Fits(next, row),
           Answered(next, sub), MayEnter(a, next), Undisturbed(a, p, row)
    PROVE  IInv'
<1>1. RowsConsistent'
  <2> SUFFICES ASSUME NEW q \in Posts, ~post'[q].overtaken
               PROVE  RowConsistent(q, post'[q], sub')
    BY DEF RowsConsistent, Orderly
  <2>1. CASE q = p
    BY <2>1 DEF Write, IInv, TypeOK
  <2>2. CASE q # p
    <3>1. post'[q] = post[q]
      BY <2>2 DEF Write, IInv, TypeOK
    <3> QED BY <3>1 DEF IInv, RowsConsistent, Orderly
  <2> QED BY <2>1, <2>2
<1>2. Gains(sub') /\ Answered(next, sub')
  BY SameSubGains
<1> QED BY <1>1, <1>2, WriteSafe

LEMMA QuietIdle ==
    ASSUME IInv, Grounded', NEW a \in Actors, Goto(a, Idle), sub' = sub
    PROVE  IInv'
BY IdleType, IdleSafe, QuietGotoSafe DEF Idle

LEMMA WriteIdle ==
    ASSUME IInv, Grounded', NEW a \in Actors, NEW p \in Posts, NEW row \in Row,
           Write(a, p, row, Idle), sub' = sub, ~post[p].overtaken,
           RowConsistent(p, row, sub), Undisturbed(a, p, row)
    PROVE  IInv'
BY IdleType, IdleSafe, QuietWriteSafe DEF Idle

\* The compare-and-swap: what has to hold if it succeeds.
LEMMA WriteIfUnchangedSafe ==
    ASSUME IInv, Grounded', NEW a \in Actors, P(a) \in Posts, NEW row \in Row,
           WriteIfUnchanged(a, row), sub' = sub, ~post[P(a)].overtaken,
           ctx[a].fresh => RowConsistent(P(a), row, sub) /\ Undisturbed(a, P(a), row)
    PROVE  IInv'
BY QuietIdle, WriteIdle DEF WriteIfUnchanged

\* A process moves on within its part of the work.
LEMMA MayMoveOn ==
    ASSUME IInv, NEW a \in Actors, ~RowOf(a).overtaken,
           NEW l \in Local, l.post = ctx[a].post,
           l.at \in Executing => ctx[a].at \in Executing, l.at # "recovering"
    PROVE  MayEnter(a, l)
<1> SUFFICES ASSUME NEW b \in Actors, b # a, ctx[b].post = l.post, l.post # None
             PROVE  Exclusive(a, l, b, ctx[b]) /\ Exclusive(b, ctx[b], a, l)
  BY DEF MayEnter
<1>1. Orderliness(a) /\ Orderliness(b)
  BY DEF IInv, Roles, Role, Orderliness, RowOf
<1>2. Exclusive(a, ctx[a], b, ctx[b]) /\ Exclusive(b, ctx[b], a, ctx[a])
  BY <1>1 DEF IInv, NobodyCollides
<1> QED BY <1>2 DEF Exclusive

\* An executor whose submission has no id yet has the row to itself, and so has
\* whoever finds the row without one.
LEMMA UnsubmittedAlone ==
    ASSUME IInv, NEW a \in Actors, NEW p \in Posts, ctx[a].post = p,
           ~post[p].overtaken, post[p].platform_post_id = None,
           \/ ctx[a].at \in Executing
           \/ post[p].status \in {"PENDING", "ABSENT"}
           \/ ctx[a].at = "recovering" /\ ctx[a].fresh
           \/ ctx[a].at = "retrying" /\ ctx[a].fresh
           \/ ctx[a].at = "cli_failed"
    PROVE  \A row : Undisturbed(a, p, row)
<1> SUFFICES ASSUME NEW b \in Actors, b # a, ctx[b].post = p,
                    ctx[b].at \in Executing \cup Polling \cup {"cli_failed"}
             PROVE  FALSE
  BY DEF Undisturbed
<1>0. Orderliness(a) /\ Orderliness(b)
  BY PlatformPostAssumption DEF IInv, Roles, Role, Orderliness, RowOf
<1>1. /\ Fits(ctx[b], post[p]) /\ Role(b, ctx[b])
      /\ Fits(ctx[a], post[p]) /\ Role(a, ctx[a])
  BY <1>0 DEF IInv, StagesFit, RowOf, Roles
<1>2. Exclusive(a, ctx[a], b, ctx[b]) /\ Exclusive(b, ctx[b], a, ctx[a])
  BY <1>0 DEF IInv, NobodyCollides
<1>3. ctx[b].at \notin Polling /\ ctx[b].at \notin {"erred_id", "submitted", "uploading", "uploaded"}
  BY <1>1 DEF Fits, Holding, Polling
<1>4. CASE ctx[b].at = "cli_failed"
  <2>1. b \in Clis /\ post[p].status = "FAILED"
    BY <1>1, <1>4 DEF Role, Fits
  <2>2. CASE ctx[a].at \in Executing
    BY <1>1, <2>1, <2>2 DEF Fits, Executing, Unsubmitted, Holding
  <2>3. CASE ctx[a].at \in {"retrying", "cli_failed"}
    BY <1>1, <1>2, <2>1, <2>3 DEF Exclusive, Role
  <2>4. CASE ctx[a].at = "recovering" /\ ctx[a].fresh
    BY <1>1, <2>1, <2>4 DEF Fits, Recovering
  <2> QED BY <2>1, <2>2, <2>3, <2>4
<1>5. CASE ctx[b].at \in Executing
  <2>1. post[p].status = "PUBLISHING"
    BY <1>1, <1>3, <1>5 DEF Fits, Executing, Unsubmitted
  <2> QED BY <1>1, <1>2, <1>5, <2>1 DEF Exclusive, Fits
<1> QED BY <1>3, <1>4, <1>5

\* What is known of a busy process, its row and its submissions.
LEMMA Here ==
    ASSUME IInv, NEW a \in Actors, ~At(a, "idle"), ~RowOf(a).overtaken
    PROVE  /\ ctx[a] \in Local /\ ctx[a].post = P(a) /\ P(a) \in Posts /\ P(a) # None
           /\ RowOf(a) \in Row /\ RowOf(a) = post[P(a)] /\ ~post[P(a)].overtaken
           /\ Fits(ctx[a], RowOf(a)) /\ Answered(ctx[a], sub)
           /\ RowConsistent(P(a), RowOf(a), sub)
<1>1. ctx[a] \in Local /\ P(a) \in Posts /\ P(a) # None /\ RowOf(a) \in Row
  BY RowOfType DEF IInv, Typed, TypeOK, Roles, Role, At, P
<1> QED BY <1>1 DEF IInv, At, P, RowOf, StagesFit, AnswersHold, RowsConsistent, Orderly,
                    Orderliness

LEMMA RetryOrFailConsistent ==
    ASSUME NEW p \in Posts, NEW row \in Row, RowConsistent(p, row, sub),
           row.platform_post_id = None, NEW retryable, NEW tries
    PROVE  RowConsistent(p, RetryOrFail(row, retryable, tries), sub)
BY DEF RowConsistent, RetryOrFail, Row

\* An answer of TikTok, written to the row it is about.
LEMMA ResolvedConsistent ==
    ASSUME NEW p \in Posts, NEW row \in Row, RowConsistent(p, row, sub),
           NEW l, NEW outcome \in {"PUBLISH_COMPLETE", "FAILED"}, l.outcome = outcome,
           row.platform_post_id = l.id, l.at \in Asked, Answered(l, sub)
    PROVE  /\ RowConsistent(p, Resolved(row, outcome), sub)
           /\ Resolved(row, outcome).platform_post_id = row.platform_post_id
<1>1. Resolved(row, outcome) \in Row
  BY ResolvedType
<1> QED BY <1>1 DEF RowConsistent, Resolved, Answered, Asked, Row

LEMMA StatusAnswerHolds ==
    ASSUME NEW i, i # None
    PROVE  /\ StatusAnswer(i) = "PUBLISH_COMPLETE" => sub[i].media = "published"
           /\ StatusAnswer(i) = "FAILED" => sub[i].media = "failed"
           /\ StatusAnswer(i) \notin {None, "retryable", "terminal"}
BY StatusAnswerType, PlatformPostAssumption DEF StatusAnswer

\* Writing a row that keeps its id disturbs nobody.
LEMMA SameIdUndisturbed ==
    ASSUME NEW a, NEW p, NEW row, row.platform_post_id = post[p].platform_post_id,
           row.platform_post_id # None
    PROVE  Undisturbed(a, p, row)
BY DEF Undisturbed

LEMMA ClaimSafe ==
    ASSUME IInv, Grounded', NEW a \in Workers \cup Clis, Claim(a), ~RowOf(a).overtaken
    PROVE  IInv'
<1>a. a \in Actors /\ ~At(a, "idle") /\ sub' = sub
  BY DEF Actors, Claim, At
<1> DEFINE next == [Idle EXCEPT !.at = "claimed", !.post = P(a),
                                !.retry_count = RowOf(a).retry_count]
           row == [RowOf(a) EXCEPT !.status = "PUBLISHING"]
<1>b. /\ ctx[a] \in Local /\ ctx[a].post = P(a) /\ P(a) \in Posts /\ P(a) # None
      /\ RowOf(a) \in Row /\ RowOf(a) = post[P(a)] /\ ~post[P(a)].overtaken
      /\ RowConsistent(P(a), RowOf(a), sub)
  BY <1>a, Here
<1>1. CASE RowOf(a).status = "PENDING" /\ Write(a, P(a), row, next)
  <2>1. /\ row \in Row /\ row.status = "PUBLISHING"
        /\ row.platform_post_id = None /\ row.submission_state = None
    BY <1>1, <1>b DEF Row, RowConsistent
  <2>2. /\ next \in Local /\ next.at = "claimed" /\ next.post = P(a) /\ next.id = None
        /\ ~next.fresh
    BY <1>b, IdleType DEF Idle, Local, Stage, Executing, Row
  <2>3. RowConsistent(P(a), row, sub)
    BY <1>1, <1>b, <2>1 DEF RowConsistent, Row
  <2>4. Fits(next, row) /\ Answered(next, sub)
    BY <2>1, <2>2 DEF Fits, Answered, Unsubmitted, Holding, Polling, Asked, Recovering,
                      Reconciling
  <2>5. Undisturbed(a, P(a), row)
    BY <1>1, <1>a, <1>b, UnsubmittedAlone DEF RowConsistent
  <2>6. MayEnter(a, next)
    <3> SUFFICES ASSUME NEW b \in Actors, b # a, ctx[b].post = next.post
                 PROVE  Exclusive(a, next, b, ctx[b]) /\ Exclusive(b, ctx[b], a, next)
      BY DEF MayEnter
    <3>1. ctx[b].at \notin Executing \cup Polling
      <4>1. \/ ctx[b].at \notin Executing \cup Polling \cup {"cli_failed"}
            \/ row.platform_post_id # None
        BY <1>b, <2>2, <2>5 DEF Undisturbed
      <4> QED BY <4>1, <2>1
    <3>0. Orderliness(a) /\ Orderliness(b)
      BY <1>a, <1>b, <2>2 DEF IInv, Roles, Role, Orderliness, RowOf
    <3>2. Exclusive(a, ctx[a], b, ctx[b]) /\ Exclusive(b, ctx[b], a, ctx[a])
      BY <1>a, <1>b, <2>2, <3>0 DEF IInv, NobodyCollides
    <3>3. ctx[b].at = "recovering" => ~ctx[b].fresh
      BY <1>1, <1>b, <2>2, <3>0 DEF IInv, StagesFit, RowOf, Fits, Recovering
    <3> QED BY <2>2, <3>1, <3>2, <3>3 DEF Exclusive, Executing, Polling
  <2> HIDE DEF next, row
  <2> QED BY <1>a, <1>b, <1>1, <2>1, <2>2, <2>3, <2>4, <2>5, <2>6, QuietWriteSafe
<1>2. CASE Goto(a, Idle)
  BY <1>a, <1>2, QuietIdle
<1> QED BY <1>1, <1>2 DEF Claim

\* From the claim to the durable id: the row has no id.
LEMMA SubmitSafe ==
    ASSUME IInv, Grounded', Regime, NEW a \in Workers \cup Clis,
           LoadMedia(a) \/ Checkpoint(a) \/ InitUpload(a) \/ PersistId(a),
           ~RowOf(a).overtaken
    PROVE  IInv'
<1>a. a \in Actors /\ ctx[a].at \in {"claimed", "loaded", "submitting", "initiated"}
  BY DEF Actors, At, LoadMedia, Checkpoint, InitUpload, PersistId
<1>b. /\ ctx[a] \in Local /\ ctx[a].post = P(a) /\ P(a) \in Posts /\ P(a) # None
      /\ RowOf(a) \in Row /\ RowOf(a) = post[P(a)] /\ ~post[P(a)].overtaken
      /\ Fits(ctx[a], RowOf(a)) /\ Answered(ctx[a], sub)
      /\ RowConsistent(P(a), RowOf(a), sub)
  BY <1>a, Here DEF At
<1>c. RowOf(a).status = "PUBLISHING" /\ RowOf(a).platform_post_id = None
  BY <1>a, <1>b DEF Fits, Unsubmitted
<1>d. \A row : Undisturbed(a, P(a), row)
  BY <1>a, <1>b, <1>c, UnsubmittedAlone DEF Executing
<1>e. \A l \in Local : l.post = ctx[a].post /\ l.at \in Executing => MayEnter(a, l)
  BY <1>a, MayMoveOn DEF Executing
<1>1. CASE LoadMedia(a)
  <2>1. ctx[a].at = "claimed" /\ sub' = sub
    BY <1>1 DEF LoadMedia, At
  <2>2. CASE Goto(a, [ctx[a] EXCEPT !.at = "loaded"])
    <3> DEFINE next == [ctx[a] EXCEPT !.at = "loaded"]
    <3>1. /\ next \in Local /\ next.at = "loaded" /\ next.post = P(a)
          /\ next.id = ctx[a].id /\ next.fresh = ctx[a].fresh
      BY <1>b DEF Local, Stage, Executing
    <3>2. Fits(next, RowOf(a)) /\ Answered(next, sub)
      BY <1>b, <2>1, <3>1 DEF Fits, Answered, Unsubmitted, Holding, Polling, Asked,
                              Recovering, Reconciling
    <3>3. Goto(a, next)
      BY <2>2
    <3> HIDE DEF next
    <3> QED BY <1>a, <1>b, <1>e, <2>1, <3>1, <3>2, <3>3, QuietGotoSafe DEF Executing
  <2>3. CASE Write(a, P(a), [RowOf(a) EXCEPT !.status = "FAILED"], Idle)
    <3>1. /\ [RowOf(a) EXCEPT !.status = "FAILED"] \in Row
          /\ RowConsistent(P(a), [RowOf(a) EXCEPT !.status = "FAILED"], sub)
      BY <1>b, <1>c, <2>1 DEF Row, RowConsistent, Fits
    <3> QED BY <1>a, <1>b, <1>d, <2>1, <2>3, <3>1, WriteIdle
  <2>4. ASSUME NEW retryable \in BOOLEAN,
               Write(a, P(a), RetryOrFail(RowOf(a), retryable, ctx[a].retry_count), Idle)
        PROVE  IInv'
    <3>1. /\ RetryOrFail(RowOf(a), retryable, ctx[a].retry_count) \in Row
          /\ RowConsistent(P(a), RetryOrFail(RowOf(a), retryable, ctx[a].retry_count), sub)
      BY <1>b, <1>c, RetryOrFailType, RetryOrFailConsistent DEF Local
    <3> QED BY <1>a, <1>b, <1>d, <2>1, <2>4, <3>1, WriteIdle
  <2> QED BY <1>1, <2>2, <2>3, <2>4 DEF LoadMedia
<1>2. CASE Checkpoint(a)
  <2>1. ctx[a].at = "loaded" /\ sub' = sub
    BY <1>2 DEF Checkpoint, At
  <2>2. CASE Write(a, P(a), [RowOf(a) EXCEPT !.status = "FAILED"], Idle)
    <3>1. /\ [RowOf(a) EXCEPT !.status = "FAILED"] \in Row
          /\ RowConsistent(P(a), [RowOf(a) EXCEPT !.status = "FAILED"], sub)
      BY <1>b, <1>c, <2>1 DEF Row, RowConsistent, Fits
    <3> QED BY <1>a, <1>b, <1>d, <2>1, <2>2, <3>1, WriteIdle
  <2>3. CASE Write(a, P(a), [RowOf(a) EXCEPT !.submission_state = "AWAITING_PLATFORM_ID"],
                   [ctx[a] EXCEPT !.at = "submitting"])
    <3> DEFINE next == [ctx[a] EXCEPT !.at = "submitting"]
               row == [RowOf(a) EXCEPT !.submission_state = "AWAITING_PLATFORM_ID"]
    <3>1. /\ next \in Local /\ next.at = "submitting" /\ next.post = P(a)
          /\ next.id = ctx[a].id /\ next.fresh = ctx[a].fresh
      BY <1>b DEF Local, Stage, Executing
    <3>2. /\ row \in Row /\ row.status = "PUBLISHING" /\ row.platform_post_id = None
          /\ RowConsistent(P(a), row, sub)
      BY <1>b, <1>c DEF Row, RowConsistent
    <3>3. Fits(next, row) /\ Answered(next, sub)
      BY <1>b, <2>1, <3>1, <3>2 DEF Fits, Answered, Unsubmitted, Holding, Polling, Asked,
                                    Recovering, Reconciling
    <3>4. Write(a, P(a), row, next)
      BY <2>3
    <3> HIDE DEF next, row
    <3> QED BY <1>a, <1>b, <1>d, <1>e, <2>1, <3>1, <3>2, <3>3, <3>4, QuietWriteSafe
            DEF Executing
  <2> QED BY <1>2, <2>2, <2>3 DEF Checkpoint, Regime
<1>3. CASE InitUpload(a)
  <2>1. ctx[a].at = "submitting" /\ ctx[a].id = None
    BY <1>3, <1>b DEF InitUpload, At, Answered
  <2>2. \A kind \in {"retryable", "terminal"} :
           LET next == [ctx[a] EXCEPT !.at = "erred", !.outcome = kind] IN
           /\ next \in Local /\ next.at = "erred" /\ next.post = P(a)
           /\ next.id = None /\ next.fresh = ctx[a].fresh
    BY <1>b, <2>1 DEF Local, Stage, Executing, Outcome
  <2>3. ASSUME NEW next \in Local, next.at = "erred", next.post = P(a), next.id = None
        PROVE  /\ Fits(next, RowOf(a)) /\ MayEnter(a, next)
               /\ \A s : Answered(next, s)
    BY <1>a, <1>b, <1>c, <1>e, <2>3
    DEF Fits, Answered, Unsubmitted, Holding, Executing, Polling, Asked, Recovering,
        Reconciling
  <2>4. ASSUME NEW kind \in {"retryable", "terminal"},
               Goto(a, [ctx[a] EXCEPT !.at = "erred", !.outcome = kind]), sub' = sub
        PROVE  IInv'
    <3> DEFINE next == [ctx[a] EXCEPT !.at = "erred", !.outcome = kind]
    <3>1. next \in Local /\ next.at = "erred" /\ next.post = P(a) /\ next.id = None
      BY <2>2
    <3>2. Goto(a, next)
      BY <2>4
    <3> HIDE DEF next
    <3> QED BY <1>a, <1>b, <2>3, <2>4, <3>1, <3>2, QuietGotoSafe
  <2>5. ASSUME NEW i \in Ids, sub[i].post = None, sub' = [sub EXCEPT ![i].post = P(a)],
               \/ Goto(a, [ctx[a] EXCEPT !.at = "initiated", !.id = i])
               \/ \E kind \in {"retryable", "terminal"} :
                     Goto(a, [ctx[a] EXCEPT !.at = "erred", !.outcome = kind])
        PROVE  IInv'
    <3>1. /\ sub'[i].post = P(a) /\ sub'[i].media = "none"
          /\ \A j \in Ids : j # i => sub'[j] = sub[j]
      <4>1. sub[i] \in Submission /\ sub[i].media = "none"
        BY <2>5 DEF IInv, TypeOK, UnusedIds
      <4> QED BY <4>1, <2>5 DEF Submission, IInv, TypeOK
    <3>2. Gains(sub')
      BY <1>b, <2>5, <3>1 DEF Gains, IInv, UnusedIds
    <3>3. post' = post
      BY <2>5 DEF Goto
    <3>4. RowsConsistent'
      <4> SUFFICES ASSUME NEW q \in Orderly PROVE RowConsistent(q, post[q], sub')
        BY <3>3 DEF RowsConsistent, Orderly
      <4>1. RowConsistent(q, post[q], sub) /\ post[q] \in Row /\ q # None
        BY PlatformPostAssumption DEF IInv, RowsConsistent, Orderly, TypeOK
      <4>2. post[q].platform_post_id # i
        BY <2>5, <4>1, PlatformPostAssumption DEF RowConsistent
      <4> QED BY <3>1, <4>1, <4>2 DEF RowConsistent, Row
    <3>5. CASE Goto(a, [ctx[a] EXCEPT !.at = "initiated", !.id = i])
      <4> DEFINE next == [ctx[a] EXCEPT !.at = "initiated", !.id = i]
      <4>1. /\ next \in Local /\ next.at = "initiated" /\ next.post = P(a)
            /\ next.id = i /\ i # None
        BY <1>b, PlatformPostAssumption DEF Local, Stage, Executing
      <4>2. Fits(next, RowOf(a)) /\ Answered(next, sub')
        BY <1>c, <3>1, <4>1 DEF Fits, Answered, Unsubmitted, Holding, Polling, Asked,
                                Recovering, Reconciling
      <4>3. Goto(a, next)
        BY <3>5
      <4> HIDE DEF next
      <4> QED BY <1>a, <1>b, <1>e, <3>2, <3>4, <4>1, <4>2, <4>3, GotoSafe DEF Executing
    <3>6. ASSUME NEW kind \in {"retryable", "terminal"},
                 Goto(a, [ctx[a] EXCEPT !.at = "erred", !.outcome = kind])
          PROVE  IInv'
      <4> DEFINE next == [ctx[a] EXCEPT !.at = "erred", !.outcome = kind]
      <4>1. next \in Local /\ next.at = "erred" /\ next.post = P(a) /\ next.id = None
        BY <2>2
      <4>2. Goto(a, next)
        BY <3>6
      <4> HIDE DEF next
      <4> QED BY <1>a, <1>b, <2>3, <3>2, <3>4, <4>1, <4>2, GotoSafe
    <3> QED BY <2>5, <3>5, <3>6
  <2> QED BY <1>3, <2>4, <2>5 DEF InitUpload
<1>4. CASE PersistId(a)
  <2> DEFINE next == [ctx[a] EXCEPT !.at = "uploading"]
             row == WithId(RowOf(a), ctx[a].id)
  <2>1. /\ ctx[a].at = "initiated" /\ sub' = sub /\ Write(a, P(a), row, next)
        /\ ctx[a].id # None /\ sub[ctx[a].id].post = P(a)
    BY <1>4, <1>b DEF PersistId, At, Regime, Answered
  <2>2. /\ next \in Local /\ next.at = "uploading" /\ next.post = P(a)
        /\ next.id = ctx[a].id
    BY <1>b DEF Local, Stage, Executing
  <2>3. /\ row \in Row /\ row.status = "PUBLISHING" /\ row.platform_post_id = ctx[a].id
        /\ row.submission_state = None
    BY <1>b, WithIdType DEF WithId, Row, Local
  <2>4. RowConsistent(P(a), row, sub)
    BY <1>b, <1>c, <2>1, <2>3, PlatformPostAssumption DEF RowConsistent
  <2>5. Fits(next, row) /\ Answered(next, sub)
    BY <2>1, <2>2, <2>3 DEF Fits, Answered, Unsubmitted, Holding, Polling, Asked,
                            Recovering, Reconciling
  <2> HIDE DEF next, row
  <2> QED BY <1>a, <1>b, <1>d, <1>e, <2>1, <2>2, <2>3, <2>4, <2>5, QuietWriteSafe
          DEF Executing
<1> QED BY <1>1, <1>2, <1>3, <1>4

\* From the durable id to the end of the inline status check.
LEMMA HoldSafe ==
    ASSUME IInv, Grounded', Regime, NEW a \in Workers \cup Clis,
           \/ UploadMedia(a) \/ RereadAfterError(a) \/ SettleError(a) \/ ConfirmId(a)
           \/ ReadForPoll(a) \/ PollAsk(a) \/ PollWrite(a),
           ~RowOf(a).overtaken
    PROVE  IInv'
<1>a. a \in Actors /\ ~At(a, "idle") /\ ctx[a].at \in Executing \cup Polling
  BY DEF Actors, At, UploadMedia, RereadAfterError, SettleError, ConfirmId, ReadForPoll,
         PollAsk, PollWrite, Executing, Polling
<1>b. /\ ctx[a] \in Local /\ ctx[a].post = P(a) /\ P(a) \in Posts /\ P(a) # None
      /\ RowOf(a) \in Row /\ RowOf(a) = post[P(a)] /\ ~post[P(a)].overtaken
      /\ Fits(ctx[a], RowOf(a)) /\ Answered(ctx[a], sub)
      /\ RowConsistent(P(a), RowOf(a), sub)
  BY <1>a, Here
<1>c. \A l \in Local : l.post = ctx[a].post /\ l.at \in Polling => MayEnter(a, l)
  BY <1>a, MayMoveOn DEF Executing, Polling
<1>d. \A l \in Local :
         l.post = ctx[a].post /\ l.at \in Executing /\ ctx[a].at \in Executing
         => MayEnter(a, l)
  BY <1>a, MayMoveOn DEF Executing, Polling
<1>1. CASE UploadMedia(a)
  <2>1. /\ ctx[a].at = "uploading" /\ ctx[a].id # None /\ ctx[a].id \in Ids
        /\ RowOf(a).platform_post_id = ctx[a].id /\ sub[ctx[a].id].post = P(a)
    BY <1>1, <1>b DEF UploadMedia, At, Fits, Holding, RowConsistent, Local
  <2>2. PICK sent \in BOOLEAN :
          /\ sub' = IF sent /\ sub[ctx[a].id].media = "none"
                    THEN [sub EXCEPT ![ctx[a].id].media = "sent"] ELSE sub
          /\ \/ sent /\ Goto(a, [ctx[a] EXCEPT !.at = "uploaded"])
             \/ \E kind \in {"retryable", "terminal"} :
                   Goto(a, [ctx[a] EXCEPT !.at = "erred", !.outcome = kind])
    BY <1>1 DEF UploadMedia
  <2>3. \A i \in Ids : /\ sub'[i].post = sub[i].post /\ sub'[i].disowned = sub[i].disowned
                       /\ sub[i].media # "none" => sub'[i].media = sub[i].media
                       /\ i # ctx[a].id => sub'[i].media = sub[i].media
    <3>1. \A i \in Ids : sub[i] \in Submission
      BY DEF IInv, TypeOK
    <3> QED BY <2>1, <2>2, <3>1 DEF Submission, IInv, TypeOK
  <2>4. Gains(sub')
    BY <1>b, <2>1, <2>3 DEF Gains, IInv, UnusedIds
  <2>5. post' = post
    BY <2>2 DEF Goto
  <2>6. RowsConsistent'
    <3> SUFFICES ASSUME NEW q \in Orderly PROVE RowConsistent(q, post[q], sub')
      BY <2>5 DEF RowsConsistent, Orderly
    <3>1. RowConsistent(q, post[q], sub) /\ post[q] \in Row
      BY DEF IInv, RowsConsistent, Orderly, TypeOK
    <3>2. CASE q = P(a)
      BY <1>b, <2>1, <2>3, <3>1, <3>2 DEF RowConsistent, Row
    <3>3. CASE q # P(a)
      BY <2>1, <2>3, <3>1, <3>3 DEF RowConsistent, Row
    <3> QED BY <3>2, <3>3
  <2>7. ASSUME NEW next \in Local, next.at \in {"uploaded", "erred"}, next.post = P(a),
               next.id = ctx[a].id, Goto(a, next)
        PROVE  IInv'
    <3>1. Fits(next, RowOf(a)) /\ Answered(next, sub')
      BY <2>1, <2>7 DEF Fits, Answered, Unsubmitted, Holding, Polling, Asked,
                        Recovering, Reconciling
    <3> QED BY <1>a, <1>b, <1>d, <2>1, <2>4, <2>6, <2>7, <3>1, GotoSafe DEF Executing
  <2>8. CASE Goto(a, [ctx[a] EXCEPT !.at = "uploaded"])
    <3> DEFINE next == [ctx[a] EXCEPT !.at = "uploaded"]
    <3>1. next \in Local /\ next.at = "uploaded" /\ next.post = P(a) /\ next.id = ctx[a].id
      BY <1>b DEF Local, Stage, Executing
    <3>2. Goto(a, next)
      BY <2>8
    <3> HIDE DEF next
    <3> QED BY <2>7, <3>1, <3>2
  <2>9. ASSUME NEW kind \in {"retryable", "terminal"},
               Goto(a, [ctx[a] EXCEPT !.at = "erred", !.outcome = kind])
        PROVE  IInv'
    <3> DEFINE next == [ctx[a] EXCEPT !.at = "erred", !.outcome = kind]
    <3>1. next \in Local /\ next.at = "erred" /\ next.post = P(a) /\ next.id = ctx[a].id
      BY <1>b DEF Local, Stage, Executing, Outcome
    <3>2. Goto(a, next)
      BY <2>9
    <3> HIDE DEF next
    <3> QED BY <2>7, <3>1, <3>2
  <2> QED BY <2>2, <2>8, <2>9
<1>2. CASE RereadAfterError(a)
  <2> DEFINE stage == IF RowOf(a).platform_post_id # None THEN "erred_id" ELSE "erred_no_id"
             next == [ctx[a] EXCEPT !.at = stage]
  <2>1. ctx[a].at = "erred" /\ sub' = sub /\ Goto(a, next)
    BY <1>2 DEF RereadAfterError, At
  <2>2. /\ next \in Local /\ next.at = stage /\ next.post = P(a) /\ stage \in Executing
    BY <1>b DEF Local, Stage, Executing
  <2>3. Fits(next, RowOf(a)) /\ Answered(next, sub)
    BY <1>b, <2>1, <2>2 DEF Fits, Answered, Unsubmitted, Holding, Polling, Asked,
                            Recovering, Reconciling
  <2> HIDE DEF stage, next
  <2> QED BY <1>a, <1>b, <1>d, <2>1, <2>2, <2>3, QuietGotoSafe DEF Executing
<1>3. CASE SettleError(a)
  <2>1. sub' = sub
    BY <1>3 DEF SettleError
  <2>2. CASE At(a, "erred_id") /\ Write(a, P(a), RowOf(a), Idle)
    <3>1. Undisturbed(a, P(a), RowOf(a))
      BY <1>b, <2>2, SameIdUndisturbed DEF At, Fits
    <3> QED BY <1>a, <1>b, <2>1, <2>2, <3>1, WriteIdle
  <2>3. CASE /\ At(a, "erred_no_id")
             /\ Write(a, P(a), RetryOrFail(RowOf(a), ctx[a].outcome = "retryable",
                                           ctx[a].retry_count), Idle)
    <3> DEFINE row == RetryOrFail(RowOf(a), ctx[a].outcome = "retryable",
                                  ctx[a].retry_count)
    <3>1. RowOf(a).platform_post_id = None /\ ctx[a].at \in Executing
      BY <1>b, <2>3 DEF At, Fits, Unsubmitted, Executing
    <3>2. row \in Row
      <4>1. (ctx[a].outcome = "retryable") \in BOOLEAN /\ ctx[a].retry_count \in 0..MaxRetries
        BY <1>b DEF Local
      <4> QED BY <1>b, <4>1, RetryOrFailType
    <3>3. RowConsistent(P(a), row, sub)
      BY <1>b, <3>1, RetryOrFailConsistent
    <3>4. Undisturbed(a, P(a), row)
      BY <1>a, <1>b, <3>1, UnsubmittedAlone
    <3> HIDE DEF row
    <3>5. Write(a, P(a), row, Idle)
      BY <2>3 DEF row
    <3> QED BY <1>a, <1>b, <2>1, <3>2, <3>3, <3>4, <3>5, WriteIdle
  <2> QED BY <1>3, <2>2, <2>3 DEF SettleError
<1>4. CASE ConfirmId(a)
  <2> DEFINE next == [ctx[a] EXCEPT !.at = "submitted"]
  <2>1. /\ ctx[a].at = "uploaded" /\ sub' = sub
        /\ RowOf(a).platform_post_id # None
    BY <1>4, <1>b DEF ConfirmId, At, Fits, Holding
  <2>2. Goto(a, next)
    BY <1>4, <2>1 DEF ConfirmId, Regime
  <2>3. /\ next \in Local /\ next.at = "submitted" /\ next.post = P(a)
    BY <1>b DEF Local, Stage, Executing
  <2>4. Fits(next, RowOf(a)) /\ Answered(next, sub)
    BY <2>1, <2>3 DEF Fits, Answered, Unsubmitted, Holding, Polling, Asked,
                      Recovering, Reconciling
  <2> HIDE DEF next
  <2> QED BY <1>a, <1>b, <1>d, <2>1, <2>2, <2>3, <2>4, QuietGotoSafe DEF Executing
<1>5. CASE ReadForPoll(a)
  <2>1. /\ ctx[a].at = "submitted" /\ sub' = sub /\ Goto(a, PollRecord(P(a)))
        /\ RowOf(a).platform_post_id # None
    BY <1>5, <1>b DEF ReadForPoll, At, Fits
  <2>2. /\ PollRecord(P(a)) \in Local /\ PollRecord(P(a)).at = "polling"
        /\ PollRecord(P(a)).post = P(a)
        /\ PollRecord(P(a)).id = RowOf(a).platform_post_id
    BY <1>b, PollRecordType DEF IInv, Typed
  <2>3. Fits(PollRecord(P(a)), RowOf(a)) /\ Answered(PollRecord(P(a)), sub)
    BY <2>1, <2>2 DEF Fits, Answered, Unsubmitted, Holding, Polling, Asked,
                      Recovering, Reconciling
  <2> QED BY <1>a, <1>b, <1>c, <2>1, <2>2, <2>3, QuietGotoSafe DEF Polling
<1>6. CASE PollAsk(a)
  <2> DEFINE next == [ctx[a] EXCEPT !.at = "polled", !.outcome = StatusAnswer(ctx[a].id)]
  <2>1. ctx[a].at = "polling" /\ sub' = sub /\ ctx[a].id # None
    BY <1>6, <1>b DEF PollAsk, At, Fits, Holding, Polling
  <2>2. CASE Goto(a, next)
    <3>1. /\ next \in Local /\ next.at = "polled" /\ next.post = P(a)
          /\ next.id = ctx[a].id /\ next.outcome = StatusAnswer(ctx[a].id)
      BY <1>b, StatusAnswerType DEF Local, Stage, Polling, Outcome
    <3>2. Fits(next, RowOf(a))
      BY <1>b, <2>1, <3>1 DEF Fits, Unsubmitted, Holding, Polling, Recovering, Reconciling
    <3>3. Answered(next, sub)
      BY <2>1, <3>1, StatusAnswerHolds DEF Answered, Asked, Reconciling
    <3> HIDE DEF next
    <3> QED BY <1>a, <1>b, <1>c, <2>1, <2>2, <3>1, <3>2, <3>3, QuietGotoSafe DEF Polling
  <2>3. CASE Goto(a, Idle)
    BY <1>a, <2>1, <2>3, QuietIdle
  <2> QED BY <1>6, <2>2, <2>3 DEF PollAsk
<1>7. CASE PollWrite(a)
  <2>1. /\ ctx[a].at = "polled" /\ sub' = sub /\ ctx[a].id # None
        /\ RowOf(a).platform_post_id = ctx[a].id
        /\ ctx[a].outcome \in {"PROCESSING", "PUBLISH_COMPLETE", "FAILED"}
    BY <1>7, <1>b DEF PollWrite, At, Fits, Holding, Polling, Answered, Asked, Local, Outcome
  <2>2. CASE ctx[a].outcome = "PROCESSING"
    <3> DEFINE row == [RowOf(a) EXCEPT !.status_check_count = Capped(ctx[a].checks)]
    <3>1. row \in Row /\ RowConsistent(P(a), row, sub)
          /\ row.platform_post_id = RowOf(a).platform_post_id
      BY <1>b, CappedType DEF Row, RowConsistent, Local
    <3>2. Write(a, P(a), row, Idle)
      BY <1>7, <2>2 DEF PollWrite
    <3>3. Undisturbed(a, P(a), row)
      BY <1>b, <2>1, <3>1, SameIdUndisturbed
    <3> HIDE DEF row
    <3> QED BY <1>a, <1>b, <2>1, <3>1, <3>2, <3>3, WriteIdle
  <2>3. CASE ctx[a].outcome # "PROCESSING"
    <3> DEFINE row == Resolved(RowOf(a), ctx[a].outcome)
    <3>1. /\ row \in Row /\ RowConsistent(P(a), row, sub)
          /\ row.platform_post_id = RowOf(a).platform_post_id
      BY <1>b, <2>1, <2>3, ResolvedType, ResolvedConsistent DEF Asked
    <3>2. Write(a, P(a), row, Idle)
      BY <1>7, <2>3 DEF PollWrite
    <3>3. Undisturbed(a, P(a), row)
      BY <1>b, <2>1, <3>1, SameIdUndisturbed
    <3> HIDE DEF row
    <3> QED BY <1>a, <1>b, <2>1, <3>1, <3>2, <3>3, WriteIdle
  <2> QED BY <2>2, <2>3
<1> QED BY <1>1, <1>2, <1>3, <1>4, <1>5, <1>6, <1>7

LEMMA DatabaseSafe ==
    ASSUME IInv, Grounded', NEW p \in Posts, Materialize(p) \/ TimeArrives(p)
    PROVE  IInv'
<1>1. /\ sub' = sub /\ ctx' = ctx /\ post[p] \in Row /\ p # None
      /\ \A q \in Posts : q # p => post'[q] = post[q]
  BY PlatformPostAssumption DEF Materialize, TimeArrives, IInv, TypeOK
<1>2. /\ post[p].status \in {"ABSENT", "PENDING"} /\ post'[p].status = "PENDING"
      /\ post'[p].overtaken = post[p].overtaken
      /\ post'[p].platform_post_id = post[p].platform_post_id
      /\ post'[p].submission_state = post[p].submission_state
  <2>1. RowSourced(p, post[p], sub) /\ post \in [Posts -> Row]
    BY DEF IInv, Sourced, TypeOK
  <2>2. CASE Materialize(p)
    <3>1. post'[p] = [NoRow EXCEPT !.status = "PENDING", !.eligible = "later"]
      BY <2>1, <2>2 DEF Materialize
    <3>2. /\ post[p].status = "ABSENT" /\ ~post[p].overtaken
          /\ post[p].platform_post_id = None /\ post[p].submission_state = None
      BY <2>1, <2>2 DEF Materialize, RowSourced
    <3> QED BY <1>1, <3>1, <3>2 DEF NoRow, Row
  <2>3. CASE TimeArrives(p)
    <3>1. post'[p] = [post[p] EXCEPT !.eligible = "now"]
      BY <2>1, <2>3 DEF TimeArrives
    <3>2. post[p].status = "PENDING"
      BY <2>3 DEF TimeArrives
    <3> QED BY <1>1, <3>1, <3>2 DEF Row
  <2> QED BY <2>2, <2>3
<1>3. ASSUME ~post[p].overtaken
      PROVE  post[p].platform_post_id = None /\ post[p].submission_state = None
  BY <1>2, <1>3 DEF IInv, RowsConsistent, Orderly, RowConsistent
<1>4. \A a \in Actors : Orderliness(a)' => Orderliness(a) /\ ctx[a].post \in Posts
  <2> SUFFICES ASSUME NEW a \in Actors, Orderliness(a)'
               PROVE  Orderliness(a) /\ ctx[a].post \in Posts
    OBVIOUS
  <2>1. ctx[a].at # "idle" /\ Role(a, ctx[a]) /\ ctx[a] \in Local
    BY <1>1 DEF Orderliness, IInv, Roles, TypeOK
  <2>2. ctx[a].post \in Posts
    BY <2>1 DEF Role, Local
  <2> QED BY <1>1, <1>2, <2>1, <2>2 DEF Orderliness, RowOf
<1>5. StagesFit'
  <2> SUFFICES ASSUME NEW a \in Actors, Orderliness(a)'
               PROVE  Fits(ctx[a], post'[ctx[a].post])
    BY <1>1 DEF StagesFit, RowOf
  <2>1. Fits(ctx[a], post[ctx[a].post]) /\ Orderliness(a)
    BY <1>4 DEF IInv, StagesFit, RowOf
  <2>2. CASE ctx[a].post = p
    <3>1. post[p].platform_post_id = None
      BY <1>3, <2>1, <2>2 DEF Orderliness, RowOf
    <3> QED BY <1>2, <2>1, <2>2, <3>1 DEF Fits
  <2>3. CASE ctx[a].post # p
    BY <1>1, <1>4, <2>1, <2>3
  <2> QED BY <2>2, <2>3
<1>6. RowsConsistent'
  <2> SUFFICES ASSUME NEW q \in Posts, ~post'[q].overtaken
               PROVE  RowConsistent(q, post'[q], sub)
    BY <1>1 DEF RowsConsistent, Orderly
  <2>1. CASE q = p
    <3>1. RowConsistent(p, post[p], sub)
      BY <1>2, <2>1 DEF IInv, RowsConsistent, Orderly
    <3> QED BY <1>2, <2>1, <3>1 DEF RowConsistent
  <2>2. CASE q # p
    BY <1>1, <2>2 DEF IInv, RowsConsistent, Orderly
  <2> QED BY <2>1, <2>2
<1>7. AnswersHold' /\ NobodyCollides'
  BY <1>1, <1>4 DEF IInv, AnswersHold, NobodyCollides
<1> QED BY <1>5, <1>6, <1>7 DEF IInv, Grounded, Typed

LEMMA SelectSafe ==
    ASSUME IInv, Grounded', Regime, NEW w \in Workers, NEW p \in Posts, WorkerStarts(w, p)
    PROVE  IInv'
<1>a. /\ w \in Actors /\ w \notin Clis /\ p # None /\ sub' = sub /\ post[p] \in Row
  BY PlatformPostAssumption DEF Actors, WorkerStarts, SelectDue, SelectStale,
     SelectReconcilable, IInv, TypeOK
<1>b. \A l \in Local :
         /\ l.post = p
         /\ \/ l.at \in {"selected", "reconciling"}
            \/ l.at = "recovering" /\ Executors(p) = {}
         => MayEnter(w, l)
  <2> SUFFICES ASSUME NEW l \in Local, l.post = p,
                      \/ l.at \in {"selected", "reconciling"}
                      \/ l.at = "recovering" /\ Executors(p) = {},
                      NEW b \in Actors, b # w, ctx[b].post = p
               PROVE  Exclusive(w, l, b, ctx[b]) /\ Exclusive(b, ctx[b], w, l)
    BY DEF MayEnter
  <2>1. l.at = "recovering" => ctx[b].at \notin Executing
    BY DEF Executors
  <2>2. w \notin Clis \cup Users
    BY PlatformPostAssumption
  <2> QED BY <1>a, <2>1, <2>2 DEF Exclusive, Executing, Polling
<1>1. CASE SelectDue(w, p)
  <2> DEFINE next == [Idle EXCEPT !.at = "selected", !.post = p]
  <2>1. /\ next \in Local /\ next.at = "selected" /\ next.post = p
    BY IdleType DEF Idle, Local, Stage
  <2>2. Fits(next, post[p]) /\ Answered(next, sub)
    BY <2>1 DEF Fits, Answered, Unsubmitted, Holding, Polling, Asked, Recovering, Reconciling
  <2>3. Goto(w, next)
    BY <1>1 DEF SelectDue
  <2> HIDE DEF next
  <2> QED BY <1>a, <1>b, <2>1, <2>2, <2>3, QuietGotoSafe
<1>2. CASE SelectStale(w, p)
  <2> DEFINE next == [Idle EXCEPT !.at = "recovering", !.post = p, !.fresh = TRUE,
                            !.id = post[p].platform_post_id,
                            !.retry_count = post[p].retry_count]
  <2>1. /\ next \in Local /\ next.at = "recovering" /\ next.post = p
        /\ next.id = post[p].platform_post_id
    BY <1>a, IdleType DEF Idle, Local, Stage, Row
  <2>2. post[p].status = "PUBLISHING" /\ Executors(p) = {} /\ Goto(w, next)
    BY <1>2 DEF SelectStale, Regime
  <2>3. Fits(next, post[p]) /\ Answered(next, sub)
    BY <2>1, <2>2 DEF Fits, Answered, Unsubmitted, Holding, Polling, Asked, Recovering,
                      Reconciling
  <2> HIDE DEF next
  <2> QED BY <1>a, <1>b, <2>1, <2>2, <2>3, QuietGotoSafe
<1>3. CASE SelectReconcilable(w, p)
  <2> DEFINE next == [PollRecord(p) EXCEPT !.at = "reconciling", !.fresh = TRUE]
  <2>0. /\ PollRecord(p) \in Local /\ PollRecord(p).post = p
        /\ PollRecord(p).id = post[p].platform_post_id
    BY PollRecordType DEF IInv, Typed
  <2>1. /\ next \in Local /\ next.at = "reconciling" /\ next.post = p
        /\ next.id = post[p].platform_post_id
    BY <2>0 DEF Local, Stage
  <2>2. /\ post[p].status = "PUBLISHING" /\ post[p].platform_post_id # None
        /\ Goto(w, next)
    BY <1>3 DEF SelectReconcilable
  <2>3. Fits(next, post[p]) /\ Answered(next, sub)
    BY <2>1, <2>2 DEF Fits, Answered, Unsubmitted, Holding, Polling, Asked, Recovering,
                      Reconciling
  <2> HIDE DEF next
  <2> QED BY <1>a, <1>b, <2>1, <2>2, <2>3, QuietGotoSafe
<1> QED BY <1>1, <1>2, <1>3 DEF WorkerStarts

LEMMA RecoverySafe ==
    ASSUME IInv, Grounded', NEW w \in Workers, RecoveryStep(w) \/ ReconcileStep(w),
           ~RowOf(w).overtaken
    PROVE  IInv'
<1>a. /\ w \in Actors /\ sub' = sub /\ ~At(w, "idle")
      /\ ctx[w].at \in Recovering \cup Reconciling
  BY DEF Actors, At, RecoveryStep, ReconcileStep, RecoverUnsubmitted, RecoverAsk,
         RecoverResolve, ReconcileAsk, ReconcileWrite, Recovering, Reconciling
<1>b. /\ ctx[w] \in Local /\ ctx[w].post = P(w) /\ P(w) \in Posts /\ P(w) # None
      /\ RowOf(w) \in Row /\ RowOf(w) = post[P(w)] /\ ~post[P(w)].overtaken
      /\ Fits(ctx[w], RowOf(w)) /\ Answered(ctx[w], sub)
      /\ RowConsistent(P(w), RowOf(w), sub)
  BY <1>a, Here
<1>c. ctx[w].fresh => /\ RowOf(w).status = "PUBLISHING"
                      /\ RowOf(w).platform_post_id = ctx[w].id
  BY <1>a, <1>b DEF Fits
<1>1. CASE RecoverUnsubmitted(w)
  <2> DEFINE row == CASE RowOf(w).submission_state = None ->
                             [RowOf(w) EXCEPT !.status = "PENDING"]
                      [] RowOf(w).submission_state = "AWAITING_PLATFORM_ID" ->
                             RetryOrFail(RowOf(w), TRUE, ctx[w].retry_count)
                      [] OTHER -> [RowOf(w) EXCEPT !.status = "UNKNOWN"]
  <2>1. ctx[w].at = "recovering" /\ ctx[w].id = None /\ WriteIfUnchanged(w, row)
    BY <1>1 DEF RecoverUnsubmitted, At
  <2>2. CASE ~ctx[w].fresh
    BY <1>a, <2>1, <2>2, QuietIdle DEF WriteIfUnchanged
  <2>3. CASE ctx[w].fresh
    <3>1. RowOf(w).platform_post_id = None /\ RowOf(w).status = "PUBLISHING"
      BY <1>c, <2>1, <2>3
    <3>2. /\ [RowOf(w) EXCEPT !.status = "UNKNOWN"] \in Row
          /\ RowConsistent(P(w), [RowOf(w) EXCEPT !.status = "UNKNOWN"], sub)
      BY <1>b, <3>1 DEF Row, RowConsistent
    <3>3. RowOf(w).submission_state = None =>
             /\ [RowOf(w) EXCEPT !.status = "PENDING"] \in Row
             /\ RowConsistent(P(w), [RowOf(w) EXCEPT !.status = "PENDING"], sub)
      BY <1>b, <3>1 DEF Row, RowConsistent
    <3>4. /\ RetryOrFail(RowOf(w), TRUE, ctx[w].retry_count) \in Row
          /\ RowConsistent(P(w), RetryOrFail(RowOf(w), TRUE, ctx[w].retry_count), sub)
      BY <1>b, <3>1, RetryOrFailType, RetryOrFailConsistent DEF Local
    <3>5. row \in Row /\ RowConsistent(P(w), row, sub)
      BY <3>2, <3>3, <3>4
    <3>6. Undisturbed(w, P(w), row)
      BY <1>a, <1>b, <2>1, <2>3, <3>1, UnsubmittedAlone
    <3> HIDE DEF row
    <3> QED BY <1>a, <1>b, <2>1, <3>5, <3>6, WriteIfUnchangedSafe
  <2> QED BY <2>2, <2>3
<1>2. CASE RecoverAsk(w)
  <2> DEFINE next == [ctx[w] EXCEPT !.at = "recovery_polled",
                                    !.outcome = StatusAnswer(ctx[w].id)]
  <2>1. ctx[w].at = "recovering" /\ ctx[w].id # None
    BY <1>2 DEF RecoverAsk, At
  <2>2. CASE Goto(w, next)
    <3>1. /\ next \in Local /\ next.at = "recovery_polled" /\ next.post = P(w)
          /\ next.id = ctx[w].id /\ next.outcome = StatusAnswer(ctx[w].id)
          /\ next.fresh = ctx[w].fresh
      BY <1>b, StatusAnswerType DEF Local, Stage, Outcome
    <3>2. Fits(next, RowOf(w))
      BY <1>b, <2>1, <3>1 DEF Fits, Unsubmitted, Holding, Polling, Recovering, Reconciling
    <3>3. Answered(next, sub)
      BY <2>1, <3>1, StatusAnswerHolds DEF Answered, Asked, Reconciling
    <3>4. MayEnter(w, next)
      BY <1>a, <1>b, <3>1, MayMoveOn DEF Executing, Polling
    <3> HIDE DEF next
    <3> QED BY <1>a, <1>b, <2>2, <3>1, <3>2, <3>3, <3>4, QuietGotoSafe
  <2>3. CASE Goto(w, Idle)
    BY <1>a, <2>3, QuietIdle
  <2> QED BY <1>2, <2>2, <2>3 DEF RecoverAsk
<1>d. \A row \in Row :
         ctx[w].id # None /\ RowConsistent(P(w), row, sub)
         /\ row.platform_post_id = RowOf(w).platform_post_id /\ WriteIfUnchanged(w, row)
         => IInv'
  <2> SUFFICES ASSUME NEW row \in Row, ctx[w].id # None, RowConsistent(P(w), row, sub),
                      row.platform_post_id = RowOf(w).platform_post_id,
                      WriteIfUnchanged(w, row)
               PROVE  IInv'
    OBVIOUS
  <2>1. ctx[w].fresh => Undisturbed(w, P(w), row)
    BY <1>b, <1>c, SameIdUndisturbed
  <2> QED BY <1>a, <1>b, <2>1, WriteIfUnchangedSafe
<1>e. \A outcome \in {"PUBLISH_COMPLETE", "FAILED"} :
         ctx[w].at \in Asked /\ ctx[w].outcome = outcome /\ ctx[w].fresh =>
            /\ Resolved(RowOf(w), outcome) \in Row
            /\ RowConsistent(P(w), Resolved(RowOf(w), outcome), sub)
            /\ Resolved(RowOf(w), outcome).platform_post_id = RowOf(w).platform_post_id
  BY <1>b, <1>c, ResolvedType, ResolvedConsistent
<1>3. CASE RecoverResolve(w)
  <2>1. /\ ctx[w].at = "recovery_polled" /\ ctx[w].id # None
        /\ ctx[w].outcome \in {"PROCESSING", "PUBLISH_COMPLETE", "FAILED"}
    BY <1>3, <1>b DEF RecoverResolve, At, Answered, Asked, Local, Outcome
  <2>2. CASE Goto(w, Idle)
    BY <1>a, <2>2, QuietIdle
  <2>3. CASE /\ WriteIfUnchanged(w, Resolved(RowOf(w), ctx[w].outcome))
             /\ ctx[w].outcome # "PROCESSING" /\ ctx[w].fresh
    BY <1>d, <1>e, <2>1, <2>3 DEF Asked
  <2> QED BY <1>3, <2>2, <2>3 DEF RecoverResolve, WriteIfUnchanged
<1>4. CASE ReconcileAsk(w)
  <2>1. PICK answer \in {StatusAnswer(ctx[w].id), "retryable", "terminal"} :
           Goto(w, [ctx[w] EXCEPT !.at = "reconcile_polled", !.outcome = answer])
    BY <1>4 DEF ReconcileAsk
  <2> DEFINE next == [ctx[w] EXCEPT !.at = "reconcile_polled", !.outcome = answer]
  <2>2. ctx[w].at = "reconciling" /\ ctx[w].id # None
    BY <1>4, <1>b DEF ReconcileAsk, At, Answered, Reconciling
  <2>3. /\ answer \in Outcome /\ answer # None
        /\ answer = "PUBLISH_COMPLETE" => sub[ctx[w].id].media = "published"
        /\ answer = "FAILED" => sub[ctx[w].id].media = "failed"
    BY <2>2, StatusAnswerType, StatusAnswerHolds, PlatformPostAssumption DEF Outcome
  <2>4. /\ next \in Local /\ next.at = "reconcile_polled" /\ next.post = P(w)
        /\ next.id = ctx[w].id /\ next.outcome = answer /\ next.fresh = ctx[w].fresh
    BY <1>b, <2>3 DEF Local, Stage
  <2>5. Fits(next, RowOf(w))
    BY <1>b, <2>2, <2>4 DEF Fits, Unsubmitted, Holding, Polling, Recovering, Reconciling
  <2>6. Answered(next, sub)
    BY <2>2, <2>3, <2>4 DEF Answered, Asked, Reconciling
  <2>7. MayEnter(w, next)
    BY <1>a, <1>b, <2>4, MayMoveOn DEF Executing, Polling
  <2>8. Goto(w, next)
    BY <2>1
  <2> HIDE DEF next
  <2> QED BY <1>a, <1>b, <2>4, <2>5, <2>6, <2>7, <2>8, QuietGotoSafe
<1>5. CASE ReconcileWrite(w)
  <2> DEFINE row == Reconciled(RowOf(w), ctx[w].outcome, ctx[w].checks)
  <2>1. /\ ctx[w].at = "reconcile_polled" /\ ctx[w].id # None /\ WriteIfUnchanged(w, row)
        /\ ctx[w].outcome \in Outcome \ {None} /\ row \in Row
    BY <1>5, <1>b, ReconciledType
    DEF ReconcileWrite, At, Answered, Asked, Reconciling, Local
  <2>2. CASE ~ctx[w].fresh
    BY <1>a, <2>1, <2>2, QuietIdle DEF WriteIfUnchanged
  <2>3. CASE ctx[w].fresh
    <3>2. CASE ctx[w].outcome \in {"PUBLISH_COMPLETE", "FAILED"}
      <4>1. row = Resolved(RowOf(w), ctx[w].outcome)
        BY <3>2 DEF Reconciled
      <4> QED BY <1>d, <1>e, <2>1, <2>3, <3>2, <4>1 DEF Asked
    <3>3. CASE ctx[w].outcome \in {"PROCESSING", "retryable", "terminal"}
      <4>1. RowConsistent(P(w), row, sub)
            /\ row.platform_post_id = RowOf(w).platform_post_id
        BY <1>b, <1>c, <2>3, <3>3 DEF Reconciled, RowConsistent, Row
      <4> HIDE DEF row
      <4> QED BY <1>d, <2>1, <4>1
    <3> QED BY <2>1, <3>2, <3>3 DEF Outcome
  <2> QED BY <2>2, <2>3
<1> QED BY <1>1, <1>2, <1>3, <1>4, <1>5 DEF RecoveryStep, ReconcileStep

LEMMA CliStartSafe ==
    ASSUME IInv, Grounded', Regime, NEW c \in Clis, NEW p \in Posts, CliStart(c, p)
    PROVE  IInv'
<1>a. c \in Actors /\ c \notin Workers \cup Users /\ sub' = sub
  BY PlatformPostAssumption DEF Actors, CliStart
<1>1. p # None /\ post[p] \in Row /\ \A b \in Clis \cup Users : ctx[b].post # p
  BY PlatformPostAssumption DEF CliStart, Regime, IInv, TypeOK
<1>2. \A l \in Local :
         /\ l.post = p
         /\ l.at \in {"polling", "cli_insert", "cli_failed", "cli_claim"}
         => MayEnter(c, l)
  <2> SUFFICES ASSUME NEW l \in Local, l.post = p,
                      l.at \in {"polling", "cli_insert", "cli_failed", "cli_claim"},
                      NEW b \in Actors, b # c, ctx[b].post = p
               PROVE  Exclusive(c, l, b, ctx[b]) /\ Exclusive(b, ctx[b], c, l)
    BY DEF MayEnter
  <2>1. b \notin Clis \cup Users
    BY <1>1
  <2>2. ctx[b].at # "retrying"
    BY <2>1 DEF IInv, Roles, Role
  <2> QED BY <1>a, <2>1, <2>2 DEF Exclusive, Executing, Polling
<1>3. CASE post[p].platform_post_id # None /\ Goto(c, PollRecord(p))
  <2>1. /\ PollRecord(p) \in Local /\ PollRecord(p).at = "polling"
        /\ PollRecord(p).post = p /\ PollRecord(p).id = post[p].platform_post_id
    BY PollRecordType DEF IInv, Typed
  <2>2. Fits(PollRecord(p), post[p]) /\ Answered(PollRecord(p), sub)
    BY <1>3, <2>1 DEF Fits, Answered, Unsubmitted, Holding, Polling, Asked, Recovering,
                      Reconciling
  <2> QED BY <1>a, <1>2, <1>3, <2>1, <2>2, QuietGotoSafe
<1>4. CASE /\ post[p].platform_post_id = None
           /\ Goto(c, [Idle EXCEPT !.post = p,
                      !.at = CASE post[p].status = "ABSENT" -> "cli_insert"
                               [] post[p].status = "FAILED" -> "cli_failed"
                               [] OTHER -> "cli_claim"])
  <2> DEFINE stage == CASE post[p].status = "ABSENT" -> "cli_insert"
                        [] post[p].status = "FAILED" -> "cli_failed"
                        [] OTHER -> "cli_claim"
             next == [Idle EXCEPT !.post = p, !.at = stage]
  <2>1. /\ stage \in {"cli_insert", "cli_failed", "cli_claim"}
        /\ stage = "cli_failed" => post[p].status = "FAILED"
    OBVIOUS
  <2>2. Goto(c, next)
    BY <1>4
  <2> HIDE DEF stage
  <2>3. next \in Local /\ next.at = stage /\ next.post = p
    BY <2>1, IdleType DEF Idle, Local, Stage
  <2>4. Fits(next, post[p]) /\ Answered(next, sub)
    BY <1>4, <2>1, <2>3 DEF Fits, Answered, Unsubmitted, Holding, Polling, Asked,
                            Recovering, Reconciling
  <2> HIDE DEF next
  <2> QED BY <1>a, <1>2, <2>1, <2>2, <2>3, <2>4, QuietGotoSafe
<1> QED BY <1>3, <1>4 DEF CliStart

LEMMA CliSafe ==
    ASSUME IInv, Grounded', NEW c \in Clis, CliInsert(c) \/ CliRequeue(c),
           ~RowOf(c).overtaken
    PROVE  IInv'
<1>a. c \in Actors /\ c \notin Workers \cup Users /\ sub' = sub
  BY PlatformPostAssumption DEF Actors, CliInsert, CliRequeue
<1>b. ASSUME NEW row \in Row, NEW p \in Posts, ctx[c].post = p, ~At(c, "idle"),
             ~post[p].overtaken, row.status = "PENDING", row.platform_post_id = None,
             row.submission_state = None, post[p].platform_post_id = None,
             Undisturbed(c, p, row),
             Write(c, p, row, [Idle EXCEPT !.at = "cli_claim", !.post = p])
      PROVE  IInv'
  <2> DEFINE next == [Idle EXCEPT !.at = "cli_claim", !.post = p]
  <2>1. next \in Local /\ next.at = "cli_claim" /\ next.post = p
    BY IdleType DEF Idle, Local, Stage
  <2>2. Fits(next, row) /\ Answered(next, sub)
    BY <2>1 DEF Fits, Answered, Unsubmitted, Holding, Polling, Asked, Recovering,
                Reconciling
  <2>3. RowConsistent(p, row, sub)
    BY <1>b DEF IInv, RowsConsistent, Orderly, RowConsistent
  <2>4. MayEnter(c, next)
    BY <1>a, <1>b, <2>1, MayMoveOn DEF Executing, RowOf
  <2>5. Write(c, p, row, next)
    BY <1>b
  <2> HIDE DEF next
  <2> QED BY <1>a, <1>b, <2>1, <2>2, <2>3, <2>4, <2>5, QuietWriteSafe
<1>2. CASE CliInsert(c)
  <2>1. ctx[c].at = "cli_insert"
    BY <1>2 DEF CliInsert, At
  <2>2. /\ ctx[c].post = P(c) /\ P(c) \in Posts /\ RowOf(c) = post[P(c)]
        /\ ~post[P(c)].overtaken /\ RowConsistent(P(c), RowOf(c), sub)
    BY <1>a, <2>1, Here DEF At
  <2>3. CASE Goto(c, Idle)
    BY <1>a, <2>3, QuietIdle
  <2>4. ASSUME NEW slot \in {"never", "later", "now"}, RowOf(c).status = "ABSENT",
               Write(c, P(c), [NoRow EXCEPT !.status = "PENDING", !.eligible = slot],
                     [Idle EXCEPT !.at = "cli_claim", !.post = P(c)])
        PROVE  IInv'
    <3> DEFINE row == [NoRow EXCEPT !.status = "PENDING", !.eligible = slot]
    <3>1. /\ row \in Row /\ row.status = "PENDING" /\ row.platform_post_id = None
          /\ row.submission_state = None
      BY NoRowType DEF NoRow, Row
    <3>2. post[P(c)].platform_post_id = None
      BY <2>2, <2>4 DEF RowConsistent
    <3>3. Undisturbed(c, P(c), row)
      BY <1>a, <2>2, <2>4, <3>2, UnsubmittedAlone
    <3>4. Write(c, P(c), row, [Idle EXCEPT !.at = "cli_claim", !.post = P(c)])
      BY <2>4
    <3> HIDE DEF row
    <3> QED BY <1>b, <2>1, <2>2, <3>1, <3>2, <3>3, <3>4 DEF At
  <2> QED BY <1>2, <2>3, <2>4 DEF CliInsert
<1>3. CASE CliRequeue(c)
  <2>1. ctx[c].at = "cli_failed"
    BY <1>3 DEF CliRequeue, At
  <2>2. /\ ctx[c].post = P(c) /\ P(c) \in Posts /\ RowOf(c) = post[P(c)]
        /\ RowOf(c) \in Row /\ RowConsistent(P(c), RowOf(c), sub)
        /\ Fits(ctx[c], RowOf(c)) /\ ~post[P(c)].overtaken
    BY <1>a, <2>1, Here DEF At
  <2> DEFINE row == [RowOf(c) EXCEPT !.status = "PENDING", !.retry_count = 0]
  <2>3. /\ row \in Row /\ row.status = "PENDING" /\ row.platform_post_id = None
        /\ row.submission_state = None /\ post[P(c)].platform_post_id = None
    BY <2>1, <2>2, ZeroInRange DEF Fits, RowConsistent, Row
  <2>4. Undisturbed(c, P(c), row)
    BY <1>a, <2>1, <2>2, <2>3, UnsubmittedAlone
  <2>5. Write(c, P(c), row, [Idle EXCEPT !.at = "cli_claim", !.post = P(c)])
    BY <1>3 DEF CliRequeue
  <2> HIDE DEF row
  <2> QED BY <1>b, <2>1, <2>2, <2>3, <2>4, <2>5 DEF At
<1> QED BY <1>2, <1>3

LEMMA ReadForRetrySafe ==
    ASSUME IInv, Grounded', Regime, NEW u \in Users, NEW p \in Posts, ReadForRetry(u, p)
    PROVE  IInv'
<1> DEFINE next == [Idle EXCEPT !.at = "retrying", !.post = p, !.fresh = TRUE]
<1>a. u \in Actors /\ u \notin Workers \cup Clis
  BY PlatformPostAssumption DEF Actors
<1>1. next \in Local /\ next.at = "retrying" /\ next.post = p
  BY IdleType DEF Idle, Local, Stage
<1>2. /\ post[p].status \in {"FAILED", "UNKNOWN"} /\ Goto(u, next) /\ sub' = sub
      /\ \A c \in Clis : ctx[c].post # p
  BY DEF ReadForRetry, Regime
<1>3. Fits(next, post[p]) /\ Answered(next, sub)
  BY <1>1, <1>2 DEF Fits, Answered, Unsubmitted, Holding, Polling, Asked, Recovering,
                    Reconciling
<1>4. MayEnter(u, next)
  <2> SUFFICES ASSUME NEW b \in Actors, b # u, ctx[b].post = p
               PROVE  Exclusive(u, next, b, ctx[b]) /\ Exclusive(b, ctx[b], u, next)
    BY <1>1 DEF MayEnter
  <2>1. b \notin Clis
    BY <1>2
  <2> QED BY <1>a, <1>1, <2>1 DEF Exclusive, Executing
<1> HIDE DEF next
<1> QED BY <1>a, <1>1, <1>2, <1>3, <1>4, QuietGotoSafe

LEMMA RetrySafe ==
    ASSUME IInv, Grounded', NEW u \in Users, RetryPost(u), ~RowOf(u).overtaken,
           ~post'[P(u)].overtaken
    PROVE  IInv'
<1>a. u \in Actors /\ u \notin Workers \cup Clis /\ ctx[u].at = "retrying"
  BY PlatformPostAssumption DEF Actors, RetryPost, At
<1>b. /\ ctx[u] \in Local /\ ctx[u].post = P(u) /\ P(u) \in Posts
      /\ RowOf(u) = post[P(u)] /\ RowOf(u) \in Row /\ ~post[P(u)].overtaken
      /\ Fits(ctx[u], RowOf(u)) /\ RowConsistent(P(u), RowOf(u), sub)
  BY <1>a, Here DEF At
<1>c. ctx[u].fresh => RowOf(u).status \in {"FAILED", "UNKNOWN"}
  BY <1>a, <1>b DEF Fits
<1>1. CASE Goto(u, Idle) /\ sub' = sub
  BY <1>a, <1>1, QuietIdle
<1>2. CASE /\ ctx[u].fresh /\ Write(u, P(u), Recheck(RowOf(u)), Idle) /\ sub' = sub
           /\ RowOf(u).platform_post_id # None
  <2>1. /\ Recheck(RowOf(u)) \in Row /\ RowConsistent(P(u), Recheck(RowOf(u)), sub)
        /\ Recheck(RowOf(u)).platform_post_id = RowOf(u).platform_post_id
    BY <1>b, ZeroInRange DEF Recheck, Row, RowConsistent
  <2> QED BY <1>a, <1>b, <1>2, <2>1, WriteIdle, SameIdUndisturbed
<1>3. ASSUME ctx[u].fresh, NEW early, early = (Executors(P(u)) \cup Pollers(P(u)) # {}),
             Write(u, P(u), Resubmit(RowOf(u), early), Idle),
             IF RowOf(u).status = "UNKNOWN" THEN Disown(P(u)) ELSE sub' = sub
      PROVE  IInv'
  <2> DEFINE row == Resubmit(RowOf(u), early)
  <2>0. post'[P(u)] = row
    BY <1>b, <1>3 DEF Write, IInv, TypeOK
  <2>1. /\ row.status = "PENDING" /\ row.platform_post_id = None
        /\ row.submission_state = None /\ row \in Row /\ early = FALSE
    <3>1. early = FALSE
      <4>1. row.overtaken = (RowOf(u).overtaken \/ early)
        BY <1>b DEF Resubmit, Row
      <4> QED BY <1>3, <2>0, <4>1
    <3>2. Later(RowOf(u)) \in {"never", "later", "now"}
      BY LaterType
    <3> QED BY <1>b, <3>1, <3>2, ZeroInRange DEF Resubmit, Row
  <2>2. Undisturbed(u, P(u), row)
    <3> SUFFICES ASSUME NEW b \in Actors, b # u, ctx[b].post = P(u),
                        ctx[b].at \in Executing \cup Polling \cup {"cli_failed"}
                 PROVE  FALSE
      BY DEF Undisturbed
    <3>1. ctx[b].at = "cli_failed"
      BY <1>3, <2>1 DEF Executors, Pollers
    <3>2. Orderliness(b) /\ Role(b, ctx[b])
      BY <1>b, <3>1 DEF Orderliness, RowOf, IInv, Roles
    <3>3. Exclusive(b, ctx[b], u, ctx[u])
      BY <1>a, <1>b, <3>2 DEF IInv, NobodyCollides
    <3> QED BY <3>1, <3>2, <3>3 DEF Exclusive, Role
  <2>3. \A i \in Ids : /\ sub'[i].post = sub[i].post /\ sub'[i].media = sub[i].media
                       /\ ~sub'[i].disowned =>
                             /\ ~sub[i].disowned
                             /\ RowOf(u).status = "UNKNOWN" => sub[i].post # P(u)
    <3>1. \A i \in Ids : sub[i] \in Submission
      BY DEF IInv, TypeOK
    <3>2. CASE RowOf(u).status = "UNKNOWN"
      <4> SUFFICES ASSUME NEW i \in Ids
                   PROVE  /\ sub'[i].post = sub[i].post /\ sub'[i].media = sub[i].media
                          /\ ~sub'[i].disowned => ~sub[i].disowned /\ sub[i].post # P(u)
        BY <3>2
      <4>1. sub'[i] = IF sub[i].post = P(u) THEN [sub[i] EXCEPT !.disowned = TRUE]
                      ELSE sub[i]
        BY <1>3, <3>2 DEF Disown
      <4> QED BY <3>1, <4>1 DEF Submission
    <3>3. CASE RowOf(u).status # "UNKNOWN"
      BY <1>3, <3>3
    <3> QED BY <3>2, <3>3
  <2>4. Gains(sub')
    BY <2>3 DEF Gains, IInv, UnusedIds
  <2> HIDE DEF row
  <2>5. RowsConsistent'
    <3> SUFFICES ASSUME NEW q \in Posts, ~post'[q].overtaken
                 PROVE  RowConsistent(q, post'[q], sub')
      BY DEF RowsConsistent, Orderly
    <3>1. CASE q = P(u)
      <4>1. \A i \in Ids : ~(/\ sub'[i].post = q /\ ~sub'[i].disowned
                             /\ sub'[i].media \in {"sent", "published"})
        BY <1>b, <1>c, <1>3, <2>3, <3>1, PlatformPostAssumption DEF RowConsistent
      <4> QED BY <2>0, <2>1, <3>1, <4>1 DEF RowConsistent
    <3>2. CASE q # P(u)
      <4>1. post'[q] = post[q]
        BY <1>3, <3>2 DEF Write, IInv, TypeOK
      <4>2. RowConsistent(q, post[q], sub) /\ post[q] \in Row
        BY <4>1 DEF IInv, RowsConsistent, Orderly, TypeOK
      <4> QED BY <2>3, <3>2, <4>1, <4>2 DEF RowConsistent, Row
    <3> QED BY <3>1, <3>2
  <2>6. Write(u, P(u), row, Idle)
    BY <1>3 DEF row
  <2> QED BY <1>a, <1>b, <2>1, <2>2, <2>4, <2>5, <2>6, WriteSafe, IdleType, IdleSafe DEF Idle
<1> QED BY <1>1, <1>2, <1>3 DEF RetryPost, WriteIfUnchanged

LEMMA SettleSafe ==
    ASSUME IInv, Grounded', NEW i \in Ids, TikTokSettles(i)
    PROVE  IInv'
<1>1. \A j \in Ids : sub[j] \in Submission
  BY DEF IInv, TypeOK
<1>2. /\ ctx' = ctx /\ post' = post
      /\ \A j \in Ids : /\ sub'[j].post = sub[j].post
                        /\ sub'[j].disowned = sub[j].disowned
                        /\ j # i => sub'[j].media = sub[j].media
      /\ sub[i].post # None
      /\ \/ sub[i].media = "sent" /\ sub'[i].media = "published"
         \/ sub[i].media \in {"none", "sent"} /\ sub'[i].media = "failed"
  BY <1>1 DEF TikTokSettles, Submission, IInv, TypeOK
<1>3. Gains(sub')
  BY <1>2 DEF Gains, IInv, UnusedIds
<1>4. AnswersHold'
  BY <1>2, <1>3, AnsweredStays DEF AnswersHold, Orderliness, RowOf
<1>5. RowsConsistent'
  <2> SUFFICES ASSUME NEW q \in Orderly PROVE RowConsistent(q, post[q], sub')
    BY <1>2 DEF RowsConsistent, Orderly
  <2>1. RowConsistent(q, post[q], sub) /\ post[q] \in Row
    BY DEF IInv, RowsConsistent, Orderly, TypeOK
  <2> QED BY <1>2, <2>1 DEF RowConsistent, Row
<1> QED BY <1>2, <1>4, <1>5
        DEF IInv, Grounded, Typed, StagesFit, RowOf, NobodyCollides, Orderliness

\* A process that works on an overtaken post, or overtakes it, does nothing to
\* the others.
LEMMA OvertakenSafe ==
    ASSUME IInv, NEW a \in Actors, P(a) # None, Sound(a), post'[P(a)].overtaken
    PROVE  IInv'
<1>1. Grounded' /\ Gains(sub') /\ Confined(a)
  BY DEF Sound
<1>2. \A b \in Actors : Orderliness(b)' =>
         /\ Orderliness(b) /\ ctx'[b] = ctx[b] /\ ctx[b].post # P(a)
         /\ ctx[b].post \in Posts /\ post'[ctx[b].post] = post[ctx[b].post]
  <2> SUFFICES ASSUME NEW b \in Actors, Orderliness(b)'
               PROVE  /\ Orderliness(b) /\ ctx'[b] = ctx[b] /\ ctx[b].post # P(a)
                      /\ ctx[b].post \in Posts /\ post'[ctx[b].post] = post[ctx[b].post]
    OBVIOUS
  <2>1. ctx'[b].post \in Posts /\ ~post'[ctx'[b].post].overtaken
    BY <1>1, PlatformPostAssumption
    DEF Orderliness, RowOf, Grounded, Typed, TypeOK, Roles, Role, Local
  <2>2. b # a /\ ctx'[b].post # P(a)
    BY <1>1, <2>1, PlatformPostAssumption DEF Confined
  <2>3. ctx'[b] = ctx[b] /\ post'[ctx[b].post] = post[ctx[b].post]
    BY <1>1, <2>1, <2>2 DEF Confined
  <2> QED BY <2>1, <2>2, <2>3 DEF Orderliness, RowOf
<1>3. StagesFit'
  BY <1>2 DEF IInv, StagesFit, RowOf
<1>4. AnswersHold'
  BY <1>1, <1>2, AnsweredStays DEF AnswersHold
<1>5. NobodyCollides'
  <2> SUFFICES ASSUME NEW b \in Actors, NEW c \in Actors, b # c,
                      ctx'[b].post = ctx'[c].post, Orderliness(b)'
               PROVE  Exclusive(b, ctx'[b], c, ctx'[c])
    BY DEF NobodyCollides
  <2>1. Orderliness(c)'
    BY <1>1 DEF Orderliness, RowOf, Grounded, Typed, Roles, Role
  <2> QED BY <1>2, <2>1 DEF IInv, NobodyCollides
<1>6. RowsConsistent'
  <2> SUFFICES ASSUME NEW q \in Posts, ~post'[q].overtaken
               PROVE  RowConsistent(q, post'[q], sub')
    BY DEF RowsConsistent, Orderly
  <2>1. q # P(a) /\ q # None /\ post'[q] = post[q]
    BY <1>1, PlatformPostAssumption DEF Confined
  <2>2. RowConsistent(q, post[q], sub) /\ post[q] \in Row
    BY <2>1 DEF IInv, RowsConsistent, Orderly, TypeOK
  <2>3. \A i \in Ids : sub'[i].post = q \/ sub[i].post = q => sub'[i] = sub[i]
    BY <1>1, <2>1 DEF Confined, Gains
  <2> QED BY <2>1, <2>2, <2>3 DEF RowConsistent, Row
<1> QED BY <1>1, <1>3, <1>4, <1>5, <1>6 DEF IInv, Grounded, Typed

\* A step of a process that works on a post.
LEMMA BusySafe ==
    ASSUME IInv, Grounded', Regime, NEW a \in Actors, BusyStep(a)
    PROVE  IInv'
<1>1. Sound(a)
  BY BusySound, IInvGrounded DEF Grounded
<1>2. CASE Crash(a)
  BY <1>2, QuietIdle DEF Crash
<1>3. CASE ~Crash(a)
  <2>1. P(a) # None
    <3>1. ~At(a, "idle")
      BY <1>3
      DEF BusyStep, At, RecoveryStep, ReconcileStep, RecoverUnsubmitted, RecoverAsk,
          RecoverResolve, ReconcileAsk, ReconcileWrite, ExecuteStep, Claim, LoadMedia,
          Checkpoint, InitUpload, PersistId, UploadMedia, RereadAfterError, SettleError,
          ConfirmId, ReadForPoll, PollAsk, PollWrite, CliInsert, CliRequeue, RetryPost
    <3> QED BY <3>1 DEF IInv, Roles, Role, At, P
  <2>2. CASE post'[P(a)].overtaken
    BY <1>1, <2>1, <2>2, OvertakenSafe
  <2>3. CASE ~post'[P(a)].overtaken
    <3>1. ~RowOf(a).overtaken
      BY <1>1, <2>3 DEF Sound, Confined
    <3>2. CASE a \in Workers \cup Clis /\ ExecuteStep(a)
      BY <3>1, <3>2, ClaimSafe, SubmitSafe, HoldSafe DEF ExecuteStep
    <3> QED BY <1>3, <2>3, <3>1, <3>2, RecoverySafe, CliSafe, RetrySafe DEF BusyStep
  <2> QED BY <2>2, <2>3
<1> QED BY <1>2, <1>3

LEMMA InitSafe == Init => IInv
<1> SUFFICES ASSUME Init PROVE IInv
  OBVIOUS
<1>1. Grounded
  BY InitGrounded
<1>2. StagesFit /\ AnswersHold /\ NobodyCollides
  BY DEF Init, Idle, StagesFit, AnswersHold, NobodyCollides, Orderliness
<1>3. RowsConsistent
  BY PlatformPostAssumption DEF Init, NoRow, RowsConsistent, RowConsistent, Orderly
<1> QED BY <1>1, <1>2, <1>3 DEF IInv, Grounded, Typed

LEMMA NextSafe ==
    ASSUME Regime
    PROVE  IInv /\ [Next]_vars => IInv'
<1> SUFFICES ASSUME IInv, [Next]_vars PROVE IInv'
  OBVIOUS
<1>1. CASE UNCHANGED vars
  BY <1>1 DEF vars, IInv, TypeOK, Roles, StagesFit, RowOf, AnswersHold, NobodyCollides,
              UnusedIds, RowsConsistent, Orderly, Orderliness, Sourced
<1>2. CASE Next
  <2>1. Grounded'
    BY <1>2, IInvGrounded, NextGrounded
  <2> QED BY <1>2, <2>1, NextCases, BusySafe, SelectSafe, CliStartSafe, ReadForRetrySafe,
             DatabaseSafe, SettleSafe
<1> QED BY <1>1, <1>2

\* The inductive invariant holds wherever the regime does.
THEOREM InvariantHolds ==
    ASSUME Regime
    PROVE  Spec => []IInv
BY InitSafe, NextSafe, PTL DEF Spec

-----------------------------------------------------------------------------
(***************************************************************************)
(* What the invariant implies.  The properties speak of Orderly posts, whose*)
(* owner never asked for a new submission while an executor or an inline   *)
(* poll of an earlier one was still at work.                               *)
(***************************************************************************)

LEMMA AtMostOneMember ==
    ASSUME NEW S, NEW x, \A y \in S : y = x
    PROVE  Cardinality(S) <= 1
<1>1. CASE S = {}
  BY <1>1, FS_EmptySet
<1>2. CASE S # {}
  <2>1. S = {x}
    BY <1>2
  <2> QED BY <2>1, FS_Singleton
<1> QED BY <1>1, <1>2

\* No crash, error, recovery or orderly retry makes TikTok hold two submissions of
\* one video of which each can become a post.
THEOREM OnePublication ==
    ASSUME Regime
    PROVE  Spec => []AtMostOnePublication
<1>1. IInv => AtMostOnePublication
  <2> SUFFICES ASSUME IInv, NEW p \in Orderly PROVE Cardinality(Outstanding(p)) <= 1
    BY DEF AtMostOnePublication
  <2>1. \A i \in Outstanding(p) : i = post[p].platform_post_id
    BY DEF IInv, RowsConsistent, RowConsistent, Outstanding
  <2> QED BY <2>1, AtMostOneMember
<1> QED BY <1>1, InvariantHolds, PTL

\* A submission that can become a post is the one its row points at.
THEOREM NothingLost ==
    ASSUME Regime
    PROVE  Spec => []SubmissionTracked
<1>1. IInv => SubmissionTracked
  BY DEF IInv, RowsConsistent, RowConsistent, Outstanding, SubmissionTracked
<1> QED BY <1>1, InvariantHolds, PTL

\* publish_tiktok.py (_poll_and_update), reconciliation.py: no row of a post that was
\* never overtaken shows an outcome TikTok did not report of its submission; of the
\* others PublicationsAreReal says what is left.
THEOREM EvidenceHolds ==
    ASSUME Regime
    PROVE  Spec => []OutcomeIsEvidence
<1>1. IInv => OutcomeIsEvidence
  BY DEF IInv, RowsConsistent, RowConsistent, OutcomeIsEvidence
<1> QED BY <1>1, InvariantHolds, PTL

\* publish_tiktok.py, crash_recovery.py, manual_recovery.py: a post that was never
\* overtaken is offered to the due pass with neither an id nor a checkpoint.
THEOREM CleanWhenPending ==
    ASSUME Regime
    PROVE  Spec => []PendingIsClean
<1>1. IInv => PendingIsClean
  BY DEF IInv, RowsConsistent, RowConsistent, PendingIsClean
<1> QED BY <1>1, InvariantHolds, PTL

\* claim_platform_post: until the owner overtakes its executor, who claimed a post
\* is alone in executing it; no recovery, reconciliation or command brings a second.
THEOREM ClaimIsExclusive ==
    ASSUME Regime
    PROVE  Spec => []OneExecutor
<1>1. IInv => OneExecutor
  <2> SUFFICES ASSUME IInv, NEW p \in Orderly PROVE Cardinality(Executors(p)) <= 1
    BY DEF OneExecutor
  <2>1. \A a, b \in Executors(p) : a = b
    BY PlatformPostAssumption
    DEF Executors, IInv, NobodyCollides, Exclusive, Orderly, Orderliness, RowOf,
        Executing
  <2>2. CASE Executors(p) = {}
    BY <2>2, FS_EmptySet
  <2>3. CASE Executors(p) # {}
    <3>1. PICK a \in Executors(p) : TRUE
      BY <2>3
    <3> QED BY <2>1, <3>1, AtMostOneMember
  <2> QED BY <2>2, <2>3
<1> QED BY <1>1, InvariantHolds, PTL

-----------------------------------------------------------------------------
(***************************************************************************)
(* Only an owner's retry overtakes a post.                                 *)
(***************************************************************************)

LEMMA RowsStayInOrder ==
    ASSUME NEW row \in Row, ~row.overtaken
    PROVE  /\ \A retryable, tries : ~RetryOrFail(row, retryable, tries).overtaken
           /\ \A outcome, checks : ~Reconciled(row, outcome, checks).overtaken
           /\ \A outcome : ~Resolved(row, outcome).overtaken
           /\ \A i : ~WithId(row, i).overtaken
           /\ \A status : ~[row EXCEPT !.status = status].overtaken
           /\ \A status, n : ~[row EXCEPT !.status = status, !.retry_count = n].overtaken
           /\ \A state : ~[row EXCEPT !.submission_state = state].overtaken
           /\ \A n : ~[row EXCEPT !.status_check_count = n].overtaken
           /\ \A time : ~[row EXCEPT !.eligible = time].overtaken
<1>1. \A outcome : ~Resolved(row, outcome).overtaken
  BY DEF Resolved, Row
<1> QED BY <1>1 DEF RetryOrFail, Reconciled, WithId, Row

LEMMA BusyKeepsOrder ==
    ASSUME Typed, NEW a \in Actors, a \notin Users, BusyStep(a), P(a) \in Posts,
           ~RowOf(a).overtaken
    PROVE  ~post'[P(a)].overtaken
<1>a. RowOf(a) \in Row /\ RowOf(a) = post[P(a)]
  BY DEF Typed, TypeOK, RowOf, P
<1>b. \/ post' = post
      \/ \E row, next : Write(a, P(a), row, next) /\ ~row.overtaken
  <2>1. CASE Claim(a) \/ LoadMedia(a) \/ Checkpoint(a)
    BY <1>a, <2>1, RowsStayInOrder DEF Claim, LoadMedia, Checkpoint, Goto
  <2>2. CASE InitUpload(a) \/ PersistId(a) \/ UploadMedia(a)
    BY <1>a, <2>2, RowsStayInOrder DEF InitUpload, PersistId, UploadMedia, Goto
  <2>3. CASE RereadAfterError(a) \/ SettleError(a) \/ ConfirmId(a)
    BY <1>a, <2>3, RowsStayInOrder DEF RereadAfterError, SettleError, ConfirmId, Goto
  <2>4. CASE ReadForPoll(a) \/ PollAsk(a) \/ PollWrite(a)
    BY <1>a, <2>4, RowsStayInOrder DEF ReadForPoll, PollAsk, PollWrite, Goto
  <2>5. CASE RecoverUnsubmitted(a)
    BY <1>a, <2>5, RowsStayInOrder DEF RecoverUnsubmitted, WriteIfUnchanged, Goto
  <2>6. CASE RecoverAsk(a) \/ ReconcileAsk(a)
    BY <2>6 DEF RecoverAsk, ReconcileAsk, Goto
  <2>7. CASE RecoverResolve(a) \/ ReconcileWrite(a)
    BY <1>a, <2>7, RowsStayInOrder
    DEF RecoverResolve, ReconcileWrite, WriteIfUnchanged, Goto
  <2>8. CASE CliInsert(a) \/ CliRequeue(a)
    <3>1. \A time : ~[NoRow EXCEPT !.status = "PENDING", !.eligible = time].overtaken
      BY DEF NoRow
    <3> QED BY <1>a, <2>8, <3>1, RowsStayInOrder DEF CliInsert, CliRequeue, Goto
  <2>9. CASE Crash(a)
    BY <2>9 DEF Crash, Goto
  <2> QED BY <2>1, <2>2, <2>3, <2>4, <2>5, <2>6, <2>7, <2>8, <2>9
          DEF BusyStep, ExecuteStep, RecoveryStep, ReconcileStep
<1> QED BY <1>a, <1>b DEF Write, Typed, TypeOK

-----------------------------------------------------------------------------
(***************************************************************************)
(* The retry budget.  As for IInv, what a step has to show for it is       *)
(* stated once; BudgetInv is inductive relative to IInv.                   *)
(***************************************************************************)

LEMMA HereInOrder ==
    ASSUME IInv, NobodyOvertaken, NEW a \in Actors, ~At(a, "idle")
    PROVE  /\ ctx[a] \in Local /\ ctx[a].post = P(a) /\ P(a) \in Posts /\ P(a) # None
           /\ RowOf(a) \in Row /\ RowOf(a) = post[P(a)] /\ ~post[P(a)].overtaken
           /\ Fits(ctx[a], RowOf(a)) /\ Answered(ctx[a], sub)
           /\ RowConsistent(P(a), RowOf(a), sub)
<1>1. P(a) \in Posts /\ RowOf(a) = post[P(a)]
  BY DEF IInv, TypeOK, Roles, Role, Local, At, P, RowOf
<1> QED BY <1>1, Here DEF NobodyOvertaken

LEMMA SameAttempts ==
    ASSUME \A i \in Ids : sub'[i].post = sub[i].post
    PROVE  \A p : Attempts(p)' = Attempts(p)
BY DEF Attempts

LEMMA GotoBudget ==
    ASSUME IInv, NobodyOvertaken, BudgetInv, NEW a \in Actors, NEW next, Goto(a, next),
           \A i \in Ids : sub'[i].post = sub[i].post,
           next.at # "idle" => Budgeted(next, next.post)
    PROVE  BudgetInv'
<1>1. /\ post' = post /\ ctx'[a] = next
      /\ \A b \in Actors : b # a => ctx'[b] = ctx[b]
      /\ \A p : Attempts(p)' = Attempts(p)
  BY SameAttempts DEF Goto, IInv, TypeOK
<1> QED BY <1>1 DEF BudgetInv, Budgeted, At, P

LEMMA WriteBudget ==
    ASSUME IInv, NobodyOvertaken, BudgetInv, NEW a \in Actors, NEW p \in Posts, NEW row, NEW next,
           Write(a, p, row, next), sub' = sub, Undisturbed(a, p, row),
           Cardinality(Attempts(p)) <= Allowance(row),
           next.at # "idle" =>
               /\ next.post = p
               /\ Counts(next) => next.retry_count = row.retry_count
               /\ next.at = "submitting" =>
                     /\ row.submission_state # None
                     /\ Cardinality(Attempts(p)) <= row.retry_count
    PROVE  BudgetInv'
<1>1. /\ post'[p] = row /\ ctx'[a] = next
      /\ \A q \in Posts : q # p => post'[q] = post[q]
      /\ \A q : Attempts(q)' = Attempts(q)
  BY SameAttempts DEF Write, IInv, TypeOK
<1>2. \A b \in Actors : b # a =>
         /\ ctx[b] \in Local
         /\ ctx'[b].at = ctx[b].at /\ ctx'[b].post = ctx[b].post /\ ctx'[b].id = ctx[b].id
         /\ ctx'[b].retry_count = ctx[b].retry_count
         /\ ctx'[b].fresh => ctx[b].fresh /\ ctx[b].post # p
  <2> SUFFICES ASSUME NEW b \in Actors, b # a
               PROVE  /\ ctx[b] \in Local
                      /\ ctx'[b].at = ctx[b].at /\ ctx'[b].post = ctx[b].post
                      /\ ctx'[b].id = ctx[b].id /\ ctx'[b].retry_count = ctx[b].retry_count
                      /\ ctx'[b].fresh => ctx[b].fresh /\ ctx[b].post # p
    OBVIOUS
  <2>1. /\ ctx[b] \in Local
        /\ ctx'[b] = [ctx[b] EXCEPT !.fresh = ctx[b].fresh /\ ctx[b].post # p]
    BY DEF Write, IInv, TypeOK
  <2> QED BY <2>1 DEF Local
<1>3. \A q \in Posts :
         (IsFiniteSet(Attempts(q)) /\ Cardinality(Attempts(q)) <= Allowance(post[q]))'
  BY <1>1 DEF BudgetInv, Allowance, Uncharged
<1>4. ASSUME NEW b \in Actors, ctx'[b].at # "idle"
      PROVE  Budgeted(ctx[b], ctx[b].post)'
  <2>1. CASE b = a
    BY <1>1, <1>4, <2>1 DEF Budgeted, Counts
  <2>2. CASE b # a
    <3>1. /\ Budgeted(ctx[b], ctx[b].post) /\ ctx[b].post \in Posts
          /\ Fits(ctx[b], post[ctx[b].post])
      BY <1>2, <1>4, <2>2, HereInOrder DEF BudgetInv, At, P, RowOf
    <3>2. CASE ctx[b].post # p
      BY <1>1, <1>2, <2>2, <3>1, <3>2 DEF Budgeted, Counts
    <3>3. CASE ctx[b].post = p
      <4>1. /\ ctx[b].at \notin Unsubmitted
            /\ ~(ctx[b].at = "erred" /\ ctx[b].id = None)
        <5>1. CASE ctx[b].at \notin Executing
          BY <5>1 DEF Executing, Unsubmitted
        <5>2. CASE post[p].platform_post_id # None
          BY <3>1, <3>3, <5>2 DEF Fits
        <5> QED BY <2>2, <3>3, <5>1, <5>2 DEF Undisturbed
      <4>2. ~ctx'[b].fresh
        BY <1>2, <2>2, <3>3
      <4> QED BY <1>2, <2>2, <4>1, <4>2 DEF Budgeted, Counts, Unsubmitted
    <3> QED BY <3>2, <3>3
  <2> QED BY <2>1, <2>2
<1> QED BY <1>3, <1>4 DEF BudgetInv, At, P

LEMMA IdleBudget ==
    ASSUME IInv, NobodyOvertaken, BudgetInv, NEW a \in Actors, Goto(a, Idle),
           \A i \in Ids : sub'[i].post = sub[i].post
    PROVE  BudgetInv'
BY GotoBudget DEF Idle

LEMMA WriteIdleBudget ==
    ASSUME IInv, NobodyOvertaken, BudgetInv, NEW a \in Actors, NEW p \in Posts, NEW row,
           Write(a, p, row, Idle), sub' = sub, Undisturbed(a, p, row),
           Cardinality(Attempts(p)) <= Allowance(row)
    PROVE  BudgetInv'
BY WriteBudget DEF Idle

LEMMA AttemptsOfPost ==
    ASSUME IInv, NobodyOvertaken, BudgetInv, NEW p \in Posts
    PROVE  /\ Cardinality(Attempts(p)) \in Nat /\ post[p].retry_count \in Nat
           /\ Cardinality(Attempts(p)) <= Allowance(post[p])
           /\ Cardinality(Attempts(p)) <= post[p].retry_count + 1
<1>1. Cardinality(Attempts(p)) \in Nat /\ post[p].retry_count \in Nat
  BY FS_CardinalityType, PlatformPostAssumption DEF BudgetInv, IInv, TypeOK, Row
<1> QED BY <1>1 DEF BudgetInv, Allowance

\* A submission that failed before its id was known costs one unit.
LEMMA RetryOrFailAllows ==
    ASSUME IInv, NobodyOvertaken, BudgetInv, NEW p \in Posts, post[p].status = "PUBLISHING",
           NEW retryable, NEW tries, tries = post[p].retry_count
    PROVE  Cardinality(Attempts(p)) <= Allowance(RetryOrFail(post[p], retryable, tries))
<1>1. post[p] \in Row
  BY DEF IInv, TypeOK
<1>2. CASE retryable /\ tries < MaxRetries
  <2>1. /\ RetryOrFail(post[p], retryable, tries).retry_count = post[p].retry_count + 1
        /\ RetryOrFail(post[p], retryable, tries).status = "PENDING"
    BY <1>1, <1>2 DEF RetryOrFail, Row
  <2> QED BY <2>1, AttemptsOfPost DEF Allowance, Uncharged
<1>3. CASE ~(retryable /\ tries < MaxRetries)
  <2>1. /\ RetryOrFail(post[p], retryable, tries).retry_count = post[p].retry_count
        /\ RetryOrFail(post[p], retryable, tries).status = "FAILED"
    BY <1>1, <1>3 DEF RetryOrFail, Row
  <2> QED BY <2>1, AttemptsOfPost DEF Allowance, Uncharged
<1> QED BY <1>2, <1>3

\* Writes that charge the row, or leave what it is charged as it was.
LEMMA ChargedAllows ==
    ASSUME IInv, NobodyOvertaken, BudgetInv, NEW p \in Posts, NEW row,
           row.retry_count = post[p].retry_count, row.status # "ABSENT",
           ~Uncharged(row) \/ Uncharged(post[p])
    PROVE  Cardinality(Attempts(p)) <= Allowance(row)
BY AttemptsOfPost DEF Allowance

LEMMA DatabaseBudget ==
    ASSUME IInv, NobodyOvertaken, BudgetInv, NEW p \in Posts, Materialize(p) \/ TimeArrives(p)
    PROVE  BudgetInv'
<1>1. /\ sub' = sub /\ ctx' = ctx /\ post[p] \in Row /\ RowConsistent(p, post[p], sub)
      /\ \A q \in Posts : q # p => post'[q] = post[q]
  BY DEF Materialize, TimeArrives, IInv, TypeOK, RowsConsistent, Orderly, NobodyOvertaken
<1>2. /\ post[p].status \in {"ABSENT", "PENDING"} /\ post[p].platform_post_id = None
      /\ post[p].submission_state = None
  BY <1>1 DEF Materialize, TimeArrives, RowConsistent
<1>3. \A q : Attempts(q)' = Attempts(q)
  BY <1>1, SameAttempts
<1>4. ASSUME NEW a \in Actors, ctx[a].at # "idle"
      PROVE  Budgeted(ctx[a], P(a))'
  <2>1. Budgeted(ctx[a], P(a)) /\ P(a) \in Posts /\ Fits(ctx[a], post[P(a)])
    BY <1>4, HereInOrder DEF BudgetInv, At
  <2>2. CASE P(a) = p
    <3>1. ~Counts(ctx[a])
      BY <1>2, <2>1, <2>2 DEF Counts, Fits, Recovering
    <3> QED BY <1>1, <3>1 DEF Budgeted, Counts, P, Unsubmitted
  <2>3. CASE P(a) # p
    BY <1>1, <1>3, <2>1, <2>3 DEF Budgeted, Counts, P
  <2> QED BY <2>2, <2>3
<1>5. Cardinality(Attempts(p)) <= Allowance(post'[p])
  <2>1. CASE TimeArrives(p)
    <3>1. /\ post'[p].retry_count = post[p].retry_count
          /\ post[p].status = "PENDING" /\ post'[p].status = "PENDING"
      BY <1>1, <2>1 DEF TimeArrives, IInv, TypeOK, Row
    <3> QED BY <3>1, ChargedAllows DEF Uncharged
  <2>2. CASE Materialize(p)
    <3>1. post'[p] = [NoRow EXCEPT !.status = "PENDING", !.eligible = "later"]
      BY <2>2 DEF Materialize, IInv, TypeOK
    <3>2. Cardinality(Attempts(p)) <= 0
      BY <2>2, AttemptsOfPost DEF Materialize, Allowance
    <3> QED BY <3>1, <3>2 DEF NoRow, Uncharged, Allowance
  <2> QED BY <2>1, <2>2
<1>6. \A q \in Posts : (IsFiniteSet(Attempts(q)) /\ Cardinality(Attempts(q)) <= Allowance(post[q]))'
  BY <1>1, <1>3, <1>5 DEF BudgetInv, Allowance, Uncharged
<1> QED BY <1>1, <1>4, <1>6 DEF BudgetInv, At

LEMMA SelectBudget ==
    ASSUME IInv, NobodyOvertaken, BudgetInv, NEW w \in Workers, NEW p \in Posts, WorkerStarts(w, p)
    PROVE  BudgetInv'
<1>1. w \in Actors /\ sub' = sub /\ PollRecord(p) \in Local
  BY PollRecordType DEF Actors, WorkerStarts, SelectDue, SelectStale, SelectReconcilable,
                        IInv, Typed
<1>2. CASE SelectDue(w, p)
  <2> DEFINE next == [Idle EXCEPT !.at = "selected", !.post = p]
  <2>1. next.at = "selected" /\ Goto(w, next)
    BY <1>2 DEF SelectDue, Idle
  <2> HIDE DEF next
  <2> QED BY <1>1, <2>1, GotoBudget DEF Budgeted, Counts, Unsubmitted
<1>3. CASE SelectStale(w, p)
  <2> DEFINE next == [Idle EXCEPT !.at = "recovering", !.post = p, !.fresh = TRUE,
                            !.id = post[p].platform_post_id,
                            !.retry_count = post[p].retry_count]
  <2>1. /\ next.at = "recovering" /\ next.post = p
        /\ next.retry_count = post[p].retry_count
    BY DEF Idle
  <2>2. Goto(w, next)
    BY <1>3 DEF SelectStale
  <2> HIDE DEF next
  <2> QED BY <1>1, <2>1, <2>2, GotoBudget DEF Budgeted
<1>4. CASE SelectReconcilable(w, p)
  <2> DEFINE next == [PollRecord(p) EXCEPT !.at = "reconciling", !.fresh = TRUE]
  <2>1. next.at = "reconciling" /\ Goto(w, next)
    BY <1>1, <1>4 DEF SelectReconcilable, Local
  <2> HIDE DEF next
  <2> QED BY <1>1, <2>1, GotoBudget DEF Budgeted, Counts, Unsubmitted
<1> QED BY <1>2, <1>3, <1>4 DEF WorkerStarts

LEMMA ClaimBudget ==
    ASSUME IInv, NobodyOvertaken, BudgetInv, NEW a \in Workers \cup Clis, Claim(a)
    PROVE  BudgetInv'
<1> DEFINE next == [Idle EXCEPT !.at = "claimed", !.post = P(a),
                                !.retry_count = RowOf(a).retry_count]
           row == [RowOf(a) EXCEPT !.status = "PUBLISHING"]
<1>1. a \in Actors /\ ~At(a, "idle") /\ sub' = sub
  BY DEF Actors, Claim, At
<1>2. /\ P(a) \in Posts /\ RowOf(a) \in Row /\ RowOf(a) = post[P(a)]
      /\ ctx[a].post = P(a) /\ ~post[P(a)].overtaken /\ RowConsistent(P(a), RowOf(a), sub)
  BY <1>1, HereInOrder
<1>3. CASE RowOf(a).status = "PENDING" /\ Write(a, P(a), row, next)
  <2>1. /\ row.status = "PUBLISHING" /\ row.retry_count = RowOf(a).retry_count
        /\ RowOf(a).platform_post_id = None
    BY <1>2, <1>3 DEF Row, RowConsistent
  <2>2. /\ next.at = "claimed" /\ next.post = P(a)
        /\ next.retry_count = RowOf(a).retry_count
    BY DEF Idle
  <2>3. Undisturbed(a, P(a), row)
    BY <1>1, <1>2, <1>3, <2>1, UnsubmittedAlone
  <2>4. Cardinality(Attempts(P(a))) <= Allowance(row)
    BY <1>2, <1>3, <2>1, ChargedAllows DEF Uncharged
  <2>5. Write(a, P(a), row, next)
    BY <1>3
  <2> HIDE DEF next, row
  <2> QED BY <1>1, <1>2, <2>1, <2>2, <2>3, <2>4, <2>5, WriteBudget
<1>4. CASE Goto(a, Idle)
  BY <1>1, <1>4, IdleBudget
<1> QED BY <1>3, <1>4 DEF Claim

\* The one step that adds to the submissions of a video: init reached TikTok.
LEMMA SubmissionBudget ==
    ASSUME IInv, NobodyOvertaken, BudgetInv, NEW a \in Actors, ctx[a].at = "submitting",
           NEW i \in Ids, sub[i].post = None, sub' = [sub EXCEPT ![i].post = P(a)],
           NEW next, Goto(a, next), next.at \in {"initiated", "erred"}, next.post = P(a),
           next.retry_count = ctx[a].retry_count
    PROVE  BudgetInv'
<1>0. PICK p \in Posts : /\ p # None /\ P(a) = p /\ ctx[a].post = p
                         /\ Fits(ctx[a], post[p]) /\ Budgeted(ctx[a], p)
  BY HereInOrder DEF At, BudgetInv
<1>1. sub' = [sub EXCEPT ![i].post = p]
  BY <1>0
<1>2. /\ post' = post /\ ctx'[a] = next
      /\ \A b \in Actors : b # a => ctx'[b] = ctx[b]
  BY DEF Goto, IInv, TypeOK
<1>3. sub'[i].post = p /\ \A j \in Ids : j # i => sub'[j] = sub[j]
  <2>1. sub[i] \in Submission
    BY DEF IInv, TypeOK
  <2> QED BY <1>1, <2>1 DEF IInv, TypeOK, Submission
<1>4. \A q \in Posts : q # p => Attempts(q)' = Attempts(q)
  BY <1>3, PlatformPostAssumption DEF Attempts
<1>5. Attempts(p)' = Attempts(p) \cup {i} /\ i \notin Attempts(p)
  BY <1>0, <1>3 DEF Attempts
<1>6. /\ IsFiniteSet(Attempts(p)')
      /\ Cardinality(Attempts(p)') <= Allowance(post[p])
  <2>1. IsFiniteSet(Attempts(p))
    BY <1>0 DEF BudgetInv
  <2>2. /\ IsFiniteSet(Attempts(p)')
        /\ Cardinality(Attempts(p)') = Cardinality(Attempts(p)) + 1
    BY <1>5, <2>1, FS_AddElement
  <2>3. /\ Cardinality(Attempts(p)) <= post[p].retry_count
        /\ Allowance(post[p]) = post[p].retry_count + 1
    BY <1>0 DEF Budgeted, Allowance, Uncharged, Fits, Unsubmitted
  <2> QED BY <2>2, <2>3, AttemptsOfPost
<1>7. ASSUME NEW b \in Actors, ctx'[b].at # "idle"
      PROVE  Budgeted(ctx[b], ctx[b].post)'
  <2>1. CASE b = a
    BY <1>0, <1>2, <2>1 DEF Budgeted, Counts, Unsubmitted
  <2>2. CASE b # a
    <3>1. Budgeted(ctx[b], ctx[b].post) /\ ctx[b].post \in Posts
      BY <1>2, <1>7, <2>2, HereInOrder DEF BudgetInv, At, P
    <3>2. CASE ctx[b].post = p
      <4>1. ctx[b].at # "submitting"
        <5>1. Exclusive(a, ctx[a], b, ctx[b])
          BY <1>0, <2>2, <3>2 DEF IInv, NobodyCollides, Orderliness, NobodyOvertaken, RowOf
        <5> QED BY <5>1 DEF Exclusive, Executing
      <4> QED BY <1>2, <2>2, <3>1, <4>1 DEF Budgeted
    <3>3. CASE ctx[b].post # p
      BY <1>2, <1>4, <2>2, <3>1, <3>3 DEF Budgeted
    <3> QED BY <3>2, <3>3
  <2> QED BY <2>1, <2>2
<1>8. \A q \in Posts :
         (IsFiniteSet(Attempts(q)) /\ Cardinality(Attempts(q)) <= Allowance(post[q]))'
  BY <1>2, <1>4, <1>6 DEF BudgetInv
<1> QED BY <1>7, <1>8 DEF BudgetInv, At, P

LEMMA SubmitBudget ==
    ASSUME IInv, NobodyOvertaken, BudgetInv, Regime, NEW a \in Workers \cup Clis,
           LoadMedia(a) \/ Checkpoint(a) \/ InitUpload(a) \/ PersistId(a)
    PROVE  BudgetInv'
<1>a. a \in Actors /\ ctx[a].at \in {"claimed", "loaded", "submitting", "initiated"}
  BY DEF Actors, At, LoadMedia, Checkpoint, InitUpload, PersistId
<1>b. /\ ctx[a] \in Local /\ ctx[a].post = P(a) /\ P(a) \in Posts
      /\ RowOf(a) \in Row /\ RowOf(a) = post[P(a)] /\ ~post[P(a)].overtaken
      /\ Fits(ctx[a], RowOf(a)) /\ Answered(ctx[a], sub) /\ Budgeted(ctx[a], P(a))
  BY <1>a, HereInOrder DEF At, BudgetInv
<1>c. /\ RowOf(a).status = "PUBLISHING" /\ RowOf(a).platform_post_id = None
      /\ ctx[a].retry_count = RowOf(a).retry_count
  BY <1>a, <1>b DEF Fits, Unsubmitted, Budgeted, Counts
<1>d. \A row : Undisturbed(a, P(a), row)
  BY <1>a, <1>b, <1>c, UnsubmittedAlone DEF Executing
<1>e. /\ [RowOf(a) EXCEPT !.status = "FAILED"].status = "FAILED"
      /\ [RowOf(a) EXCEPT !.status = "FAILED"].retry_count = RowOf(a).retry_count
  BY <1>b DEF Row
<1>f. Cardinality(Attempts(P(a))) <= Allowance([RowOf(a) EXCEPT !.status = "FAILED"])
  BY <1>b, <1>e, ChargedAllows DEF Uncharged
<1>1. CASE LoadMedia(a)
  <2>1. ctx[a].at = "claimed" /\ sub' = sub
    BY <1>1 DEF LoadMedia, At
  <2>2. CASE Goto(a, [ctx[a] EXCEPT !.at = "loaded"])
    <3> DEFINE next == [ctx[a] EXCEPT !.at = "loaded"]
    <3>1. next.at = "loaded" /\ next.post = P(a) /\ next.retry_count = ctx[a].retry_count
      BY <1>b DEF Local
    <3>2. Budgeted(next, next.post) /\ Goto(a, next)
      BY <1>b, <1>c, <2>2, <3>1 DEF Budgeted
    <3> HIDE DEF next
    <3> QED BY <1>a, <2>1, <3>2, GotoBudget
  <2>3. CASE Write(a, P(a), [RowOf(a) EXCEPT !.status = "FAILED"], Idle)
    BY <1>a, <1>b, <1>d, <1>f, <2>1, <2>3, WriteIdleBudget
  <2>4. ASSUME NEW retryable \in BOOLEAN,
               Write(a, P(a), RetryOrFail(RowOf(a), retryable, ctx[a].retry_count), Idle)
        PROVE  BudgetInv'
    BY <1>a, <1>b, <1>c, <1>d, <2>1, <2>4, RetryOrFailAllows, WriteIdleBudget
  <2> QED BY <1>1, <2>2, <2>3, <2>4 DEF LoadMedia
<1>2. CASE Checkpoint(a)
  <2>1. ctx[a].at = "loaded" /\ sub' = sub
    BY <1>2 DEF Checkpoint, At
  <2>2. CASE Write(a, P(a), [RowOf(a) EXCEPT !.status = "FAILED"], Idle)
    BY <1>a, <1>b, <1>d, <1>f, <2>1, <2>2, WriteIdleBudget
  <2>3. CASE Write(a, P(a), [RowOf(a) EXCEPT !.submission_state = "AWAITING_PLATFORM_ID"],
                   [ctx[a] EXCEPT !.at = "submitting"])
    <3> DEFINE next == [ctx[a] EXCEPT !.at = "submitting"]
               row == [RowOf(a) EXCEPT !.submission_state = "AWAITING_PLATFORM_ID"]
    <3>1. /\ next.at = "submitting" /\ next.post = P(a)
          /\ next.retry_count = RowOf(a).retry_count
      BY <1>b, <1>c DEF Local
    <3>2. /\ row.status = "PUBLISHING" /\ row.retry_count = RowOf(a).retry_count
          /\ row.submission_state = "AWAITING_PLATFORM_ID"
      BY <1>b, <1>c DEF Row
    <3>3. row.submission_state # None
      BY <3>2, PlatformPostAssumption
    <3>4. Cardinality(Attempts(P(a))) <= RowOf(a).retry_count
      <4>1. RowOf(a).submission_state = None
        BY <1>b, <2>1 DEF Fits
      <4> QED BY <1>b, <1>c, <4>1, AttemptsOfPost DEF Allowance, Uncharged
    <3>5. Cardinality(Attempts(P(a))) <= Allowance(row)
      BY <1>b, <3>2, <3>3, ChargedAllows DEF Uncharged
    <3>6. Write(a, P(a), row, next)
      BY <2>3
    <3> HIDE DEF next, row
    <3> QED BY <1>a, <1>b, <1>d, <2>1, <3>1, <3>2, <3>3, <3>4, <3>5, <3>6, WriteBudget
  <2> QED BY <1>2, <2>2, <2>3 DEF Checkpoint, Regime
<1>3. CASE InitUpload(a)
  <2>1. ctx[a].at = "submitting"
    BY <1>3 DEF InitUpload, At
  <2>2. \A kind \in {"retryable", "terminal"} :
           LET next == [ctx[a] EXCEPT !.at = "erred", !.outcome = kind] IN
           /\ next.at = "erred" /\ next.post = P(a)
           /\ next.retry_count = ctx[a].retry_count
    BY <1>b DEF Local
  <2>3. ASSUME NEW kind \in {"retryable", "terminal"},
               Goto(a, [ctx[a] EXCEPT !.at = "erred", !.outcome = kind]), sub' = sub
        PROVE  BudgetInv'
    <3> DEFINE next == [ctx[a] EXCEPT !.at = "erred", !.outcome = kind]
    <3>1. Budgeted(next, next.post) /\ Goto(a, next)
      BY <1>b, <1>c, <2>2, <2>3 DEF Budgeted
    <3> HIDE DEF next
    <3> QED BY <1>a, <2>3, <3>1, GotoBudget
  <2>4. ASSUME NEW i \in Ids, sub[i].post = None, sub' = [sub EXCEPT ![i].post = P(a)],
               \/ Goto(a, [ctx[a] EXCEPT !.at = "initiated", !.id = i])
               \/ \E kind \in {"retryable", "terminal"} :
                     Goto(a, [ctx[a] EXCEPT !.at = "erred", !.outcome = kind])
        PROVE  BudgetInv'
    <3>1. PICK next : /\ Goto(a, next) /\ next.at \in {"initiated", "erred"}
                      /\ next.post = P(a) /\ next.retry_count = ctx[a].retry_count
      <4>1. LET next == [ctx[a] EXCEPT !.at = "initiated", !.id = i] IN
            /\ next.at = "initiated" /\ next.post = P(a)
            /\ next.retry_count = ctx[a].retry_count
        BY <1>b DEF Local
      <4> QED BY <2>2, <2>4, <4>1
    <3> QED BY <1>a, <2>1, <2>4, <3>1, SubmissionBudget
  <2> QED BY <1>3, <2>3, <2>4 DEF InitUpload
<1>4. CASE PersistId(a)
  <2> DEFINE next == [ctx[a] EXCEPT !.at = "uploading"]
             row == WithId(RowOf(a), ctx[a].id)
  <2>1. /\ ctx[a].at = "initiated" /\ sub' = sub /\ Write(a, P(a), row, next)
        /\ ctx[a].id # None
    BY <1>4, <1>b DEF PersistId, At, Regime, Answered
  <2>2. next.at = "uploading" /\ next.post = P(a)
    BY <1>b DEF Local
  <2>3. /\ row.status = "PUBLISHING" /\ row.platform_post_id = ctx[a].id
        /\ row.retry_count = RowOf(a).retry_count
    BY <1>b DEF WithId, Row
  <2>4. Cardinality(Attempts(P(a))) <= Allowance(row)
    BY <1>b, <2>1, <2>3, ChargedAllows DEF Uncharged
  <2> HIDE DEF next, row
  <2> QED BY <1>a, <1>b, <1>d, <2>1, <2>2, <2>3, <2>4, WriteBudget
          DEF Counts, Unsubmitted
<1> QED BY <1>1, <1>2, <1>3, <1>4

\* What a status check writes is the row, but for its status and check count.
LEMMA OutcomeKeepsCount ==
    ASSUME NEW row \in Row, NEW outcome, NEW checks
    PROVE  /\ Resolved(row, outcome).retry_count = row.retry_count
           /\ Reconciled(row, outcome, checks).retry_count = row.retry_count
           /\ [row EXCEPT !.status_check_count = Capped(checks)].retry_count = row.retry_count
           /\ Resolved(row, outcome).platform_post_id = row.platform_post_id
           /\ Reconciled(row, outcome, checks).platform_post_id = row.platform_post_id
           /\ [row EXCEPT !.status_check_count = Capped(checks)].platform_post_id
                 = row.platform_post_id
<1>1. Resolved(row, outcome).retry_count = row.retry_count
      /\ Resolved(row, outcome).platform_post_id = row.platform_post_id
  BY DEF Resolved, Row
<1>2. /\ Reconciled(row, outcome, checks).retry_count = row.retry_count
      /\ Reconciled(row, outcome, checks).platform_post_id = row.platform_post_id
  BY <1>1 DEF Reconciled, Row
<1> QED BY <1>1, <1>2 DEF Row

\* ... and none of it makes the row one that may be submitted.
LEMMA OutcomeAllows ==
    ASSUME IInv, NobodyOvertaken, BudgetInv, NEW p \in Posts, post[p].platform_post_id # None,
           NEW outcome, NEW checks
    PROVE  /\ Cardinality(Attempts(p)) <= Allowance(Resolved(post[p], outcome))
           /\ Cardinality(Attempts(p)) <= Allowance(Reconciled(post[p], outcome, checks))
           /\ Cardinality(Attempts(p))
                 <= Allowance([post[p] EXCEPT !.status_check_count = Capped(checks)])
<1>1. post[p] \in Row /\ post[p].status \notin {"ABSENT", "PENDING"}
  BY DEF IInv, TypeOK, RowsConsistent, RowConsistent, Orderly, NobodyOvertaken
<1>2. Resolved(post[p], outcome).status \notin {"ABSENT", "PENDING"}
  BY <1>1 DEF Resolved, Row
<1>3. Reconciled(post[p], outcome, checks).status \notin {"ABSENT", "PENDING"}
  BY <1>1, <1>2 DEF Reconciled, Row
<1>4. [post[p] EXCEPT !.status_check_count = Capped(checks)].status \notin {"ABSENT", "PENDING"}
  BY <1>1 DEF Row
<1>5. \A row : /\ row.status \notin {"ABSENT", "PENDING"} /\ row.platform_post_id # None
               /\ row.retry_count = post[p].retry_count
              => Cardinality(Attempts(p)) <= Allowance(row)
  BY ChargedAllows DEF Uncharged
<1>6. Cardinality(Attempts(p)) <= Allowance(Resolved(post[p], outcome))
  BY <1>1, <1>2, <1>5, OutcomeKeepsCount
<1>7. Cardinality(Attempts(p)) <= Allowance(Reconciled(post[p], outcome, checks))
  BY <1>1, <1>3, <1>5, OutcomeKeepsCount
<1>8. Cardinality(Attempts(p))
         <= Allowance([post[p] EXCEPT !.status_check_count = Capped(checks)])
  BY <1>1, <1>4, <1>5, OutcomeKeepsCount
<1> QED BY <1>6, <1>7, <1>8

LEMMA HoldBudget ==
    ASSUME IInv, NobodyOvertaken, BudgetInv, Regime, NEW a \in Workers \cup Clis,
           \/ UploadMedia(a) \/ RereadAfterError(a) \/ SettleError(a) \/ ConfirmId(a)
           \/ ReadForPoll(a) \/ PollAsk(a) \/ PollWrite(a)
    PROVE  BudgetInv'
<1>a. a \in Actors /\ ~At(a, "idle")
  BY DEF Actors, At, UploadMedia, RereadAfterError, SettleError, ConfirmId, ReadForPoll,
         PollAsk, PollWrite
<1>b. /\ ctx[a] \in Local /\ ctx[a].post = P(a) /\ P(a) \in Posts
      /\ RowOf(a) \in Row /\ RowOf(a) = post[P(a)] /\ ~post[P(a)].overtaken
      /\ Fits(ctx[a], RowOf(a)) /\ Answered(ctx[a], sub) /\ Budgeted(ctx[a], P(a))
  BY <1>a, HereInOrder DEF BudgetInv
\* Moving on between stages that carry no retry_count.
<1>c. ASSUME NEW next, Goto(a, next), \A i \in Ids : sub'[i].post = sub[i].post,
             \/ next.at \in {"idle", "uploaded", "erred_id", "submitted"} \cup Polling
             \/ next.at = "erred" /\ next.id # None
      PROVE  BudgetInv'
  BY <1>a, <1>c, GotoBudget DEF Budgeted, Counts, Unsubmitted, Polling
<1>1. CASE UploadMedia(a)
  <2>1. ctx[a].at = "uploading" /\ ctx[a].id # None
    BY <1>1, <1>b DEF UploadMedia, At, Fits, Holding
  <2>2. PICK sent \in BOOLEAN :
          /\ sub' = IF sent /\ sub[ctx[a].id].media = "none"
                    THEN [sub EXCEPT ![ctx[a].id].media = "sent"] ELSE sub
          /\ \/ sent /\ Goto(a, [ctx[a] EXCEPT !.at = "uploaded"])
             \/ \E kind \in {"retryable", "terminal"} :
                   Goto(a, [ctx[a] EXCEPT !.at = "erred", !.outcome = kind])
    BY <1>1 DEF UploadMedia
  <2>3. \A i \in Ids : sub'[i].post = sub[i].post
    <3>1. \A i \in Ids : sub[i] \in Submission
      BY DEF IInv, TypeOK
    <3> QED BY <2>2, <3>1 DEF Submission, IInv, TypeOK
  <2>4. CASE Goto(a, [ctx[a] EXCEPT !.at = "uploaded"])
    <3>1. [ctx[a] EXCEPT !.at = "uploaded"].at = "uploaded"
      BY <1>b DEF Local
    <3> QED BY <1>c, <2>3, <2>4, <3>1
  <2>5. ASSUME NEW kind \in {"retryable", "terminal"},
               Goto(a, [ctx[a] EXCEPT !.at = "erred", !.outcome = kind])
        PROVE  BudgetInv'
    <3> DEFINE next == [ctx[a] EXCEPT !.at = "erred", !.outcome = kind]
    <3>1. next.at = "erred" /\ next.id # None /\ Goto(a, next)
      BY <1>b, <2>1, <2>5 DEF Local
    <3> HIDE DEF next
    <3> QED BY <1>c, <2>3, <3>1
  <2> QED BY <2>2, <2>4, <2>5
<1>2. CASE RereadAfterError(a)
  <2> DEFINE stage == IF RowOf(a).platform_post_id # None THEN "erred_id" ELSE "erred_no_id"
             next == [ctx[a] EXCEPT !.at = stage]
  <2>1. /\ ctx[a].at = "erred" /\ sub' = sub /\ Goto(a, next)
        /\ RowOf(a).platform_post_id = ctx[a].id
    BY <1>2, <1>b DEF RereadAfterError, At, Fits
  <2>2. /\ next.at = stage /\ next.post = P(a)
        /\ next.retry_count = ctx[a].retry_count
    BY <1>b DEF Local
  <2>3. CASE ctx[a].id # None
    <3>1. next.at = "erred_id"
      BY <2>1, <2>2, <2>3
    <3> HIDE DEF stage, next
    <3> QED BY <1>c, <2>1, <3>1
  <2>4. CASE ctx[a].id = None
    <3>1. next.at = "erred_no_id"
      BY <2>1, <2>2, <2>4
    <3>2. Budgeted(next, next.post)
      BY <1>b, <2>1, <2>2, <2>4, <3>1 DEF Budgeted, Counts
    <3> HIDE DEF stage, next
    <3> QED BY <1>a, <2>1, <3>2, GotoBudget
  <2> QED BY <2>3, <2>4
<1>3. CASE SettleError(a)
  <2>1. sub' = sub
    BY <1>3 DEF SettleError
  <2>2. CASE At(a, "erred_id") /\ Write(a, P(a), RowOf(a), Idle)
    <3>1. Undisturbed(a, P(a), RowOf(a))
      BY <1>b, <2>2, SameIdUndisturbed DEF At, Fits
    <3>2. Cardinality(Attempts(P(a))) <= Allowance(RowOf(a))
      BY <1>b, AttemptsOfPost
    <3> QED BY <1>a, <1>b, <2>1, <2>2, <3>1, <3>2, WriteIdleBudget
  <2>3. CASE /\ At(a, "erred_no_id")
             /\ Write(a, P(a), RetryOrFail(RowOf(a), ctx[a].outcome = "retryable",
                                           ctx[a].retry_count), Idle)
    <3>1. /\ RowOf(a).platform_post_id = None /\ RowOf(a).status = "PUBLISHING"
          /\ ctx[a].at \in Executing /\ ctx[a].retry_count = RowOf(a).retry_count
      BY <1>b, <2>3 DEF At, Fits, Unsubmitted, Executing, Budgeted, Counts
    <3>2. \A row : Undisturbed(a, P(a), row)
      BY <1>a, <1>b, <3>1, UnsubmittedAlone
    <3>3. \A retryable : Cardinality(Attempts(P(a)))
                            <= Allowance(RetryOrFail(RowOf(a), retryable, ctx[a].retry_count))
      BY <1>b, <3>1, RetryOrFailAllows
    <3>4. PICK row : /\ Write(a, P(a), row, Idle)
                     /\ Cardinality(Attempts(P(a))) <= Allowance(row)
      BY <2>3, <3>3
    <3> QED BY <1>a, <1>b, <2>1, <3>2, <3>4, WriteIdleBudget
  <2> QED BY <1>3, <2>2, <2>3 DEF SettleError
<1>4. CASE ConfirmId(a)
  <2>1. /\ sub' = sub /\ RowOf(a).platform_post_id # None
    BY <1>4, <1>b DEF ConfirmId, At, Fits, Holding
  <2>2. /\ Goto(a, [ctx[a] EXCEPT !.at = "submitted"])
        /\ [ctx[a] EXCEPT !.at = "submitted"].at = "submitted"
    BY <1>4, <1>b, <2>1 DEF ConfirmId, Regime, Local
  <2> QED BY <1>c, <2>1, <2>2
<1>5. CASE ReadForPoll(a)
  <2>1. PollRecord(P(a)).at = "polling"
    BY <1>b, PollRecordType DEF IInv, Typed
  <2> QED BY <1>5, <1>c, <2>1 DEF ReadForPoll, Polling
<1>6. CASE PollAsk(a)
  <2>1. \A outcome : [ctx[a] EXCEPT !.at = "polled", !.outcome = outcome].at = "polled"
    BY <1>b DEF Local
  <2>2. sub' = sub
    BY <1>6 DEF PollAsk
  <2>3. CASE Goto(a, [ctx[a] EXCEPT !.at = "polled", !.outcome = StatusAnswer(ctx[a].id)])
    BY <1>c, <2>1, <2>2, <2>3 DEF Polling
  <2>4. CASE Goto(a, Idle)
    BY <1>a, <2>2, <2>4, IdleBudget
  <2> QED BY <1>6, <2>3, <2>4 DEF PollAsk
<1>7. CASE PollWrite(a)
  <2>1. sub' = sub /\ RowOf(a).platform_post_id # None
    BY <1>7, <1>b DEF PollWrite, At, Fits, Holding, Polling
  <2>2. ASSUME NEW row, Write(a, P(a), row, Idle),
               row.platform_post_id = RowOf(a).platform_post_id,
               Cardinality(Attempts(P(a))) <= Allowance(row)
        PROVE  BudgetInv'
    <3>1. Undisturbed(a, P(a), row)
      BY <1>b, <2>1, <2>2, SameIdUndisturbed
    <3> QED BY <1>a, <1>b, <2>1, <2>2, <3>1, WriteIdleBudget
  <2>3. CASE ctx[a].outcome = "PROCESSING"
    <3> DEFINE row == [RowOf(a) EXCEPT !.status_check_count = Capped(ctx[a].checks)]
    <3>1. /\ row.platform_post_id = RowOf(a).platform_post_id
          /\ Cardinality(Attempts(P(a))) <= Allowance(row)
      BY <1>b, <2>1, OutcomeKeepsCount, OutcomeAllows
    <3>2. Write(a, P(a), row, Idle)
      BY <1>7, <2>3 DEF PollWrite
    <3> HIDE DEF row
    <3> QED BY <2>2, <3>1, <3>2
  <2>4. CASE ctx[a].outcome # "PROCESSING"
    <3> DEFINE row == Resolved(RowOf(a), ctx[a].outcome)
    <3>1. /\ row.platform_post_id = RowOf(a).platform_post_id
          /\ Cardinality(Attempts(P(a))) <= Allowance(row)
      BY <1>b, <2>1, OutcomeKeepsCount, OutcomeAllows
    <3>2. Write(a, P(a), row, Idle)
      BY <1>7, <2>4 DEF PollWrite
    <3> HIDE DEF row
    <3> QED BY <2>2, <3>1, <3>2
  <2> QED BY <2>3, <2>4
<1> QED BY <1>1, <1>2, <1>3, <1>4, <1>5, <1>6, <1>7

LEMMA RecoveryBudget ==
    ASSUME IInv, NobodyOvertaken, BudgetInv, NEW w \in Workers, RecoveryStep(w) \/ ReconcileStep(w)
    PROVE  BudgetInv'
<1>a. w \in Actors /\ sub' = sub /\ ~At(w, "idle")
  BY DEF Actors, At, RecoveryStep, ReconcileStep, RecoverUnsubmitted, RecoverAsk,
         RecoverResolve, ReconcileAsk, ReconcileWrite
<1>b. /\ ctx[w] \in Local /\ ctx[w].post = P(w) /\ P(w) \in Posts
      /\ RowOf(w) \in Row /\ RowOf(w) = post[P(w)] /\ ~post[P(w)].overtaken
      /\ Fits(ctx[w], RowOf(w)) /\ Answered(ctx[w], sub) /\ Budgeted(ctx[w], P(w))
  BY <1>a, HereInOrder DEF BudgetInv
\* What a compare-and-swap has to show if it succeeds.
<1>c. ASSUME NEW row, WriteIfUnchanged(w, row),
             ctx[w].fresh => /\ Undisturbed(w, P(w), row)
                             /\ Cardinality(Attempts(P(w))) <= Allowance(row)
      PROVE  BudgetInv'
  BY <1>a, <1>b, <1>c, IdleBudget, WriteIdleBudget DEF WriteIfUnchanged
<1>d. ASSUME NEW stage \in {"recovery_polled", "reconcile_polled"}, NEW outcome,
             Goto(w, [ctx[w] EXCEPT !.at = stage, !.outcome = outcome])
      PROVE  BudgetInv'
  <2> DEFINE next == [ctx[w] EXCEPT !.at = stage, !.outcome = outcome]
  <2>1. Goto(w, next) /\ next.at = stage
    BY <1>b, <1>d DEF Local
  <2> HIDE DEF next
  <2> QED BY <1>a, <2>1, GotoBudget DEF Budgeted, Counts, Unsubmitted
<1>1. CASE RecoverUnsubmitted(w)
  <2>1. ctx[w].at = "recovering" /\ ctx[w].id = None
    BY <1>1 DEF RecoverUnsubmitted, At
  <2>2. CASE ~ctx[w].fresh
    BY <1>1, <1>c, <2>2 DEF RecoverUnsubmitted
  <2>3. CASE ctx[w].fresh
    <3>1. /\ RowOf(w).platform_post_id = None /\ RowOf(w).status = "PUBLISHING"
          /\ ctx[w].retry_count = RowOf(w).retry_count
      BY <1>b, <2>1, <2>3 DEF Fits, Recovering, Budgeted, Counts
    <3>2. \A row : Undisturbed(w, P(w), row)
      BY <1>a, <1>b, <2>1, <2>3, <3>1, UnsubmittedAlone
    <3>3. CASE RowOf(w).submission_state = None
      <4>1. /\ [RowOf(w) EXCEPT !.status = "PENDING"].status = "PENDING"
            /\ [RowOf(w) EXCEPT !.status = "PENDING"].retry_count = RowOf(w).retry_count
        BY <1>b DEF Row
      <4>2. Cardinality(Attempts(P(w))) <= Allowance([RowOf(w) EXCEPT !.status = "PENDING"])
        BY <1>b, <3>1, <3>3, <4>1, ChargedAllows DEF Uncharged
      <4>3. WriteIfUnchanged(w, [RowOf(w) EXCEPT !.status = "PENDING"])
        BY <1>1, <3>3, PlatformPostAssumption DEF RecoverUnsubmitted
      <4> QED BY <1>c, <3>2, <4>2, <4>3
    <3>4. CASE RowOf(w).submission_state = "AWAITING_PLATFORM_ID"
      <4>1. WriteIfUnchanged(w, RetryOrFail(RowOf(w), TRUE, ctx[w].retry_count))
        BY <1>1, <3>4, PlatformPostAssumption DEF RecoverUnsubmitted
      <4> QED BY <1>b, <1>c, <3>1, <3>2, <4>1, RetryOrFailAllows
    <3>5. CASE RowOf(w).submission_state = "SUBMITTING"
      <4>1. /\ [RowOf(w) EXCEPT !.status = "UNKNOWN"].status = "UNKNOWN"
            /\ [RowOf(w) EXCEPT !.status = "UNKNOWN"].retry_count = RowOf(w).retry_count
        BY <1>b DEF Row
      <4>2. Cardinality(Attempts(P(w))) <= Allowance([RowOf(w) EXCEPT !.status = "UNKNOWN"])
        BY <1>b, <4>1, ChargedAllows DEF Uncharged
      <4>3. WriteIfUnchanged(w, [RowOf(w) EXCEPT !.status = "UNKNOWN"])
        BY <1>1, <3>5, PlatformPostAssumption DEF RecoverUnsubmitted
      <4> QED BY <1>c, <3>2, <4>2, <4>3
    <3> QED BY <1>b, <3>3, <3>4, <3>5 DEF Row
  <2> QED BY <2>2, <2>3
\* A fresh row that is asked about holds the id it is asked about.
<1>e. ASSUME ctx[w].at \in Recovering \cup Reconciling, ctx[w].id # None, ctx[w].fresh
      PROVE  /\ RowOf(w).platform_post_id # None
             /\ \A row : row.platform_post_id = RowOf(w).platform_post_id
                         => Undisturbed(w, P(w), row)
  BY <1>b, <1>e, SameIdUndisturbed DEF Fits
<1>2. CASE RecoverAsk(w)
  BY <1>2, <1>a, <1>d, IdleBudget DEF RecoverAsk
<1>3. CASE RecoverResolve(w)
  <2>1. /\ ctx[w].at \in Recovering /\ ctx[w].id # None
    BY <1>3, <1>b DEF RecoverResolve, At, Answered, Asked, Recovering
  <2>2. CASE Goto(w, Idle)
    BY <1>a, <2>2, IdleBudget
  <2>3. CASE WriteIfUnchanged(w, Resolved(RowOf(w), ctx[w].outcome))
    BY <1>b, <1>c, <1>e, <2>1, <2>3, OutcomeKeepsCount, OutcomeAllows
  <2> QED BY <1>3, <2>2, <2>3 DEF RecoverResolve
<1>4. CASE ReconcileAsk(w)
  BY <1>4, <1>d DEF ReconcileAsk
<1>5. CASE ReconcileWrite(w)
  <2>1. /\ ctx[w].at \in Reconciling /\ ctx[w].id # None
        /\ WriteIfUnchanged(w, Reconciled(RowOf(w), ctx[w].outcome, ctx[w].checks))
    BY <1>5, <1>b DEF ReconcileWrite, At, Answered, Asked, Reconciling
  <2> QED BY <1>b, <1>c, <1>e, <2>1, OutcomeKeepsCount, OutcomeAllows
<1> QED BY <1>1, <1>2, <1>3, <1>4, <1>5 DEF RecoveryStep, ReconcileStep

LEMMA OutsideBudget ==
    ASSUME IInv, NobodyOvertaken, BudgetInv,
           (\E i \in Ids : TikTokSettles(i)) \/ (\E a \in Actors : Crash(a))
    PROVE  BudgetInv'
<1>1. ASSUME NEW i \in Ids, TikTokSettles(i)
      PROVE  BudgetInv'
  <2>1. \A j \in Ids : sub[j] \in Submission
    BY DEF IInv, TypeOK
  <2>2. ctx' = ctx /\ post' = post /\ \A j \in Ids : sub'[j].post = sub[j].post
    BY <1>1, <2>1 DEF TikTokSettles, Submission, IInv, TypeOK
  <2>3. \A p : Attempts(p)' = Attempts(p)
    BY <2>2, SameAttempts
  <2> QED BY <2>2, <2>3 DEF BudgetInv, Budgeted, At, P
<1>2. ASSUME NEW a \in Actors, Crash(a)
      PROVE  BudgetInv'
  BY <1>2, IdleBudget DEF Crash
<1> QED BY <1>1, <1>2

LEMMA InitBudget == Init => BudgetInv
<1> SUFFICES ASSUME Init PROVE BudgetInv
  OBVIOUS
<1>1. ASSUME NEW p \in Posts
      PROVE  IsFiniteSet(Attempts(p)) /\ Cardinality(Attempts(p)) <= Allowance(post[p])
  <2>1. Attempts(p) = {}
    BY PlatformPostAssumption DEF Init, Attempts
  <2>2. Allowance(post[p]) = 0
    BY DEF Init, NoRow, Allowance
  <2> QED BY <2>1, <2>2, FS_EmptySet
<1>2. \A a \in Actors : At(a, "idle")
  BY DEF Init, Idle, At
<1> QED BY <1>1, <1>2 DEF BudgetInv

LEMMA OrderStays ==
    ASSUME Users = {}, IInv, NobodyOvertaken, Next
    PROVE  NobodyOvertaken'
<1>1. ASSUME NEW a \in Actors, BusyStep(a)
      PROVE  NobodyOvertaken'
  <2>1. Confined(a)
    BY <1>1, NextGrounded, BusySound, IInvGrounded DEF Sound, Grounded
  <2>2. P(a) \in Posts => ~post'[P(a)].overtaken
    BY <1>1, BusyKeepsOrder DEF IInv, Typed, NobodyOvertaken, RowOf, P
  <2> QED BY <2>1, <2>2 DEF Confined, NobodyOvertaken
<1>2. ASSUME NEW p \in Posts, Materialize(p) \/ TimeArrives(p)
      PROVE  NobodyOvertaken'
  <2>1. post[p] \in Row /\ ~post[p].overtaken
    BY DEF IInv, TypeOK, NobodyOvertaken
  <2>2. PICK row : post' = [post EXCEPT ![p] = row] /\ ~row.overtaken
    <3>1. ~[NoRow EXCEPT !.status = "PENDING", !.eligible = "later"].overtaken
      BY DEF NoRow
    <3>2. ~[post[p] EXCEPT !.eligible = "now"].overtaken
      BY <2>1, RowsStayInOrder
    <3> QED BY <1>2, <3>1, <3>2 DEF Materialize, TimeArrives
  <2> QED BY <2>2 DEF IInv, TypeOK, NobodyOvertaken
<1>3. ASSUME post' = post PROVE NobodyOvertaken'
  BY <1>3 DEF NobodyOvertaken
<1> QED BY <1>1, <1>2, <1>3, NextCases
        DEF WorkerStarts, SelectDue, SelectStale, SelectReconcilable, CliStart,
            TikTokSettles, Goto

\* Nobody but the workers takes part.
LEMMA NextBudget ==
    ASSUME Regime, Clis = {}, Users = {}
    PROVE  IInv /\ NobodyOvertaken /\ BudgetInv /\ [Next]_vars
           => (NobodyOvertaken /\ BudgetInv)'
<1> SUFFICES ASSUME IInv, NobodyOvertaken, BudgetInv, [Next]_vars
             PROVE  NobodyOvertaken' /\ BudgetInv'
  OBVIOUS
<1>1. CASE UNCHANGED vars
  BY <1>1 DEF vars, BudgetInv, Budgeted, Attempts, NobodyOvertaken, At, P
<1>2. CASE Next
  <2>1. ASSUME NEW a \in Workers \cup Clis, ExecuteStep(a)
        PROVE  BudgetInv'
    BY <2>1, ClaimBudget, SubmitBudget, HoldBudget DEF ExecuteStep
  <2> QED BY <1>2, <2>1, DatabaseBudget, SelectBudget, RecoveryBudget, OutsideBudget,
             OrderStays DEF Next, Steps
<1> QED BY <1>1, <1>2

\* As long as no person starts anything, no crash, error or interleaving of
\* workers submits a video more often than its retry budget allows.
THEOREM RetriesAreBudgeted ==
    ASSUME Regime, Clis = {}, Users = {}
    PROVE  Spec => []AttemptsBounded
<1>1. IInv /\ NobodyOvertaken /\ BudgetInv => AttemptsBounded
  <2> SUFFICES ASSUME IInv, NobodyOvertaken, BudgetInv, NEW p \in Posts
               PROVE  Cardinality(Attempts(p)) <= MaxRetries + 1
    BY DEF AttemptsBounded, Attempts
  <2>1. post[p].retry_count \in 0..MaxRetries
    BY DEF IInv, TypeOK, Row
  <2> QED BY <2>1, AttemptsOfPost, PlatformPostAssumption
<1>2. Init => IInv /\ NobodyOvertaken /\ BudgetInv
  BY InitSafe, InitBudget DEF Init, NoRow, NobodyOvertaken
<1>3. IInv /\ NobodyOvertaken /\ BudgetInv /\ [Next]_vars => (IInv /\ NobodyOvertaken /\ BudgetInv)'
  BY NextSafe, NextBudget
<1> QED BY <1>1, <1>2, <1>3, PTL DEF Spec
=============================================================================
