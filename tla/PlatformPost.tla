---------------------------- MODULE PlatformPost ----------------------------
(***************************************************************************)
(* The life of a platform_posts row: the scheduled publication of one      *)
(* video on TikTok.  Several processes work on the same table with no lock *)
(* held between statements:                                                *)
(*                                                                         *)
(*   Workers   scheduling/worker.py, crash_recovery.py and                 *)
(*             reconciliation.py, run by the hosted loop or from cron;     *)
(*   Clis      cli/publish_tiktok.py --video-id, started by a person;      *)
(*   Users     POST queue/slots/{id}/retry (scheduling/manual_recovery.py).*)
(*                                                                         *)
(* One step is one database statement or one request to TikTok.  A process *)
(* may be killed between any two steps, which is also how an exception     *)
(* that is no PublishError ends: the row stays as it was last written.     *)
(*                                                                         *)
(* updated_at is the compare-and-swap token of the table: every write      *)
(* changes it.  It is modelled by what it is compared for, one flag per    *)
(* process: `fresh' holds while the row the process read is still the row  *)
(* in the table, so no copy of that row has to be kept.                    *)
(*                                                                         *)
(* Clock times are abstracted to what they gate: `eligible' for            *)
(* scheduled_at and next_retry_at.  A status check may fall due at any     *)
(* time (next_status_check_at), and a PUBLISHING row may pass the          *)
(* staleness threshold at any time; whether it can pass it while its       *)
(* executor is still at work is the constant Stalls.                       *)
(*                                                                         *)
(* Nothing keeps an owner's retry from a row that another worker's         *)
(* reconciliation parked or failed while its executor still uploads or     *)
(* polls.  What the pipeline promises ends there for that post: the field  *)
(* `overtaken' of the row remembers it, and the properties that exempt     *)
(* such a post say so.                                                     *)
(***************************************************************************)
EXTENDS Naturals, FiniteSets

CONSTANTS
    Posts,           \* (video, platform) pairs, the UNIQUE key of the table
    Workers, Clis, Users,
    Ids,             \* the publish_ids TikTok can issue
    None,            \* SQL NULL, and "no row"
    MaxRetries,      \* config.MAX_RETRY_ATTEMPTS
    MaxChecks,       \* config.STATUS_CHECK_MAX_ATTEMPTS
    Checkpointed,    \* Publisher.reports_platform_post_id_before_media_transfer
    Stalls,          \* can a row turn stale while its executor still runs?
    ConcurrentOperators  \* can a command overlap another person's command or retry?

ASSUME PlatformPostAssumption ==
    /\ None \notin Posts \cup Ids
    /\ None \notin {"PUBLISH_COMPLETE", "FAILED", "PROCESSING", "retryable", "terminal"}
    /\ None \notin {"AWAITING_PLATFORM_ID", "SUBMITTING"}
    /\ Workers \cap Clis = {} /\ Workers \cap Users = {} /\ Clis \cap Users = {}
    /\ MaxRetries \in Nat
    /\ MaxChecks \in Nat \ {0}
    /\ Checkpointed \in BOOLEAN
    /\ Stalls \in BOOLEAN
    /\ ConcurrentOperators \in BOOLEAN

VARIABLES
    post,   \* the platform_posts table
    sub,    \* TikTok's side: what became of each publish_id
    ctx     \* the local state of every process

vars == <<post, sub, ctx>>

Actors == Workers \cup Clis \cup Users

\* overtaken is history and no column of the table: no step goes by it.
Row == [status : {"ABSENT", "PENDING", "PUBLISHING", "PUBLISHED", "FAILED", "UNKNOWN"},
        platform_post_id : Ids \cup {None},
        submission_state : {"AWAITING_PLATFORM_ID", "SUBMITTING", None},
        retry_count : 0..MaxRetries,
        status_check_count : 0..MaxChecks,
        eligible : {"never", "later", "now"},
        overtaken : BOOLEAN]

NoRow == [status |-> "ABSENT", platform_post_id |-> None, submission_state |-> None,
          retry_count |-> 0, status_check_count |-> 0, eligible |-> "never",
          overtaken |-> FALSE]

\* media: "none" nothing uploaded; "sent" the bytes are out of our hands, and
\* TikTok will make a post of them or refuse them; "published"; "failed".
\* disowned: a person stated that this submission was not published.
Submission == [post : Posts \cup {None},
               media : {"none", "sent", "published", "failed"},
               disowned : BOOLEAN]

Executing == {"claimed", "loaded", "submitting", "initiated", "uploading", "uploaded",
              "erred", "erred_id", "erred_no_id", "submitted"}

Polling == {"polling", "polled"}

Stage == Executing \cup Polling \cup
    {"idle", "selected", "recovering", "recovery_polled", "reconciling",
     "reconcile_polled", "cli_failed", "cli_claim", "cli_insert", "retrying"}

Outcome == {"PUBLISH_COMPLETE", "FAILED", "PROCESSING", "retryable", "terminal", None}

Local == [at : Stage, post : Posts \cup {None}, id : Ids \cup {None},
          retry_count : 0..MaxRetries, checks : 0..MaxChecks,
          outcome : Outcome, fresh : BOOLEAN]

Idle == [at |-> "idle", post |-> None, id |-> None, retry_count |-> 0, checks |-> 0,
         outcome |-> None, fresh |-> FALSE]

At(a, stage) == ctx[a].at = stage
P(a) == ctx[a].post
RowOf(a) == post[ctx[a].post]

\* The processes that claimed a row and still work on the submission, and those
\* that poll it.
Executors(p) == {a \in Actors : ctx[a].at \in Executing /\ ctx[a].post = p}
Pollers(p) == {a \in Actors : ctx[a].at \in Polling /\ ctx[a].post = p}

Init ==
    /\ post = [p \in Posts |-> NoRow]
    /\ sub = [i \in Ids |-> [post |-> None, media |-> "none", disowned |-> FALSE]]
    /\ ctx = [a \in Actors |-> Idle]

-----------------------------------------------------------------------------
(***************************************************************************)
(* Database statements.                                                    *)
(***************************************************************************)

\* A process moves on without touching the table.
Goto(a, next) ==
    /\ ctx' = [ctx EXCEPT ![a] = next]
    /\ post' = post

\* update_platform_post: an unconditional UPDATE.  It changes updated_at, so
\* whoever read the row before has lost the race for its compare-and-swap.
Write(a, p, row, next) ==
    /\ post' = [post EXCEPT ![p] = row]
    /\ ctx' = [b \in Actors |->
                  IF b = a THEN next
                  ELSE [ctx[b] EXCEPT !.fresh = ctx[b].fresh /\ ctx[b].post # p]]

\* Fault: the compare-and-swap forgets its condition.
WriteAnyway(a, row) == Write(a, P(a), row, Idle)

\* update_platform_post_if_unchanged: WHERE updated_at = expected_updated_at.
WriteIfUnchanged(a, row) ==
    IF ctx[a].fresh THEN Write(a, P(a), row, Idle) ELSE Goto(a, Idle)

\* next_retry_at: never earlier than the slot, and never for an unscheduled row.
Later(row) == IF row.eligible = "never" THEN "never" ELSE "later"

Capped(n) == IF n < MaxChecks THEN n + 1 ELSE MaxChecks

\* Fault: one retry too many.
RetryOrFailOneMore(row, retryable, tries) ==
    IF retryable /\ tries <= MaxRetries
    THEN [row EXCEPT !.status = "PENDING", !.retry_count = tries + 1,
                     !.eligible = Later(row), !.submission_state = None]
    ELSE [row EXCEPT !.status = "FAILED", !.submission_state = None]

\* Fault: the checkpoint of the failed submission is not reset.
RetryOrFailKeepingState(row, retryable, tries) ==
    IF retryable /\ tries < MaxRetries
    THEN [row EXCEPT !.status = "PENDING", !.retry_count = tries + 1, !.eligible = Later(row)]
    ELSE [row EXCEPT !.status = "FAILED"]

\* The bounded retry of _schedule_retry_or_fail and _recover_interrupted_submission;
\* tries is the retry_count the caller read.
RetryOrFail(row, retryable, tries) ==
    IF retryable /\ tries < MaxRetries
    THEN [row EXCEPT !.status = "PENDING", !.retry_count = tries + 1,
                     !.eligible = Later(row), !.submission_state = None]
    ELSE [row EXCEPT !.status = "FAILED", !.submission_state = None]

\* insert_platform_post_if_missing, for the slot the video was assigned to.
Materialize(p) ==
    /\ post[p].status = "ABSENT"
    /\ post' = [post EXCEPT ![p] = [NoRow EXCEPT !.status = "PENDING", !.eligible = "later"]]
    /\ UNCHANGED <<sub, ctx>>

\* scheduled_at or next_retry_at of a pending row arrives.
TimeArrives(p) ==
    /\ post[p].status = "PENDING" /\ post[p].eligible = "later"
    /\ post' = [post EXCEPT ![p].eligible = "now"]
    /\ UNCHANGED <<sub, ctx>>

-----------------------------------------------------------------------------
(***************************************************************************)
(* The due pass: select, claim, and the shared execution path.             *)
(***************************************************************************)

\* get_due_platform_posts: the pass works from this list until its end.
SelectDue(w, p) ==
    /\ At(w, "idle")
    /\ post[p].status = "PENDING" /\ post[p].eligible = "now"
    /\ Goto(w, [Idle EXCEPT !.at = "selected", !.post = p])
    /\ UNCHANGED sub

\* Fault: the claim forgets WHERE status = 'PENDING'.
ClaimUnguarded(a) ==
    /\ ctx[a].at \in {"selected", "cli_claim"}
    /\ Write(a, P(a), [RowOf(a) EXCEPT !.status = "PUBLISHING"],
             [Idle EXCEPT !.at = "claimed", !.post = P(a),
                          !.retry_count = RowOf(a).retry_count])
    /\ UNCHANGED sub

\* claim_platform_post: UPDATE ... WHERE status = 'PENDING', then the record is
\* read for its retry_count.  The loser of the race skips the row.
Claim(a) ==
    /\ ctx[a].at \in {"selected", "cli_claim"}
    /\ \/ /\ RowOf(a).status = "PENDING"
          /\ Write(a, P(a), [RowOf(a) EXCEPT !.status = "PUBLISHING"],
                   [Idle EXCEPT !.at = "claimed", !.post = P(a),
                                !.retry_count = RowOf(a).retry_count])
       \/ /\ RowOf(a).status # "PENDING"
          /\ Goto(a, Idle)
    /\ UNCHANGED sub

\* _resolved_media_path: the media is brought to a local file, or cannot be.
LoadMedia(a) ==
    /\ At(a, "claimed")
    /\ \/ Goto(a, [ctx[a] EXCEPT !.at = "loaded"])
       \/ \* storage backend missing: FAILED, whatever the budget
          Write(a, P(a), [RowOf(a) EXCEPT !.status = "FAILED"], Idle)
       \/ \* a materialisation error goes through the retry classification
          \E retryable \in BOOLEAN :
             Write(a, P(a), RetryOrFail(RowOf(a), retryable, ctx[a].retry_count), Idle)
    /\ UNCHANGED sub

\* _validate_ready_to_publish, then the submission checkpoint.
Checkpoint(a) ==
    /\ At(a, "loaded")
    /\ \/ Write(a, P(a), [RowOf(a) EXCEPT !.status = "FAILED"], Idle)
       \/ Write(a, P(a),
                [RowOf(a) EXCEPT !.submission_state =
                    IF Checkpointed THEN "AWAITING_PLATFORM_ID" ELSE "SUBMITTING"],
                [ctx[a] EXCEPT !.at = "submitting"])
    /\ UNCHANGED sub

\* TikTokPublisher.publish up to the init response: creator_info and the local
\* checks may raise; init may be answered, or its answer may be lost or malformed.
InitUpload(a) ==
    /\ At(a, "submitting")
    /\ \/ /\ \E kind \in {"retryable", "terminal"} :
                Goto(a, [ctx[a] EXCEPT !.at = "erred", !.outcome = kind])
          /\ UNCHANGED sub
       \/ \E i \in Ids :
             /\ sub[i].post = None
             /\ sub' = [sub EXCEPT ![i].post = P(a)]
             /\ \/ Goto(a, [ctx[a] EXCEPT !.at = "initiated", !.id = i])
                \/ \E kind \in {"retryable", "terminal"} :
                      Goto(a, [ctx[a] EXCEPT !.at = "erred", !.outcome = kind])

\* Fault: the checkpoint outlives the submission it is about.
WithIdKeepingState(row, i) == [row EXCEPT !.status = "PUBLISHING", !.platform_post_id = i]

\* The row as persist_platform_post_id leaves it.
WithId(row, i) ==
    [row EXCEPT !.status = "PUBLISHING", !.platform_post_id = i, !.submission_state = None]

\* Fault: the id is written only once publish() has returned (ConfirmId).
PersistIdLate(a) ==
    /\ At(a, "initiated")
    /\ Goto(a, [ctx[a] EXCEPT !.at = "uploading"])
    /\ UNCHANGED sub

\* on_platform_post_id: the id is made durable before any media is sent.
PersistId(a) ==
    /\ At(a, "initiated")
    /\ IF Checkpointed
       THEN Write(a, P(a), WithId(RowOf(a), ctx[a].id), [ctx[a] EXCEPT !.at = "uploading"])
       ELSE Goto(a, [ctx[a] EXCEPT !.at = "uploading"])
    /\ UNCHANGED sub

\* The upload PUT.  An error says nothing about whether TikTok has the bytes.
UploadMedia(a) ==
    /\ At(a, "uploading")
    /\ \E sent \in BOOLEAN :
          /\ sub' = IF sent /\ sub[ctx[a].id].media = "none"
                    THEN [sub EXCEPT ![ctx[a].id].media = "sent"] ELSE sub
          /\ \/ sent /\ Goto(a, [ctx[a] EXCEPT !.at = "uploaded"])
             \/ \E kind \in {"retryable", "terminal"} :
                   Goto(a, [ctx[a] EXCEPT !.at = "erred", !.outcome = kind])

\* Fault: the handler goes by the record the claim returned, which has no id.
RereadFromMemory(a) ==
    /\ At(a, "erred")
    /\ Goto(a, [ctx[a] EXCEPT !.at = "erred_no_id"])
    /\ UNCHANGED sub

\* The handler of a PublishError reads the row again ...
RereadAfterError(a) ==
    /\ At(a, "erred")
    /\ Goto(a, [ctx[a] EXCEPT !.at = IF RowOf(a).platform_post_id # None
                                     THEN "erred_id" ELSE "erred_no_id"])
    /\ UNCHANGED sub

\* Fault: an upload error is retried although TikTok issued an id.
SettleErrorAnew(a) ==
    /\ ctx[a].at \in {"erred_id", "erred_no_id"}
    /\ Write(a, P(a), RetryOrFail(RowOf(a), ctx[a].outcome = "retryable",
                                  ctx[a].retry_count), Idle)
    /\ UNCHANGED sub

\* ... and leaves a submission with an id to reconciliation (only
\* next_status_check_at is written), or spends the retry budget.
SettleError(a) ==
    /\ \/ /\ At(a, "erred_id")
          /\ Write(a, P(a), RowOf(a), Idle)
       \/ /\ At(a, "erred_no_id")
          /\ Write(a, P(a), RetryOrFail(RowOf(a), ctx[a].outcome = "retryable",
                                        ctx[a].retry_count), Idle)
    /\ UNCHANGED sub

\* publish() returned: the id is written unless the callback already did.
ConfirmId(a) ==
    /\ At(a, "uploaded")
    /\ IF ~Checkpointed \/ RowOf(a).platform_post_id = None
       THEN Write(a, P(a), WithId(RowOf(a), ctx[a].id), [ctx[a] EXCEPT !.at = "submitted"])
       ELSE Goto(a, [ctx[a] EXCEPT !.at = "submitted"])
    /\ UNCHANGED sub

\* The record handed to _poll_and_update.
PollRecord(p) ==
    [Idle EXCEPT !.at = "polling", !.post = p, !.id = post[p].platform_post_id,
                 !.checks = post[p].status_check_count]

ReadForPoll(a) ==
    /\ At(a, "submitted")
    /\ Goto(a, PollRecord(P(a)))
    /\ UNCHANGED sub

\* Fault: an upload TikTok is still processing counts as published.
StatusAnswerEarly(i) ==
    IF i = None THEN "PROCESSING"
    ELSE CASE sub[i].media \in {"sent", "published"} -> "PUBLISH_COMPLETE"
           [] sub[i].media = "failed" -> "FAILED"
           [] OTHER -> "PROCESSING"

\* publisher.get_status(i): TikTok's answer now.  (The row of an overtaken post
\* may have no id to ask about: such a question settles nothing.)
StatusAnswer(i) ==
    IF i = None THEN "PROCESSING"
    ELSE CASE sub[i].media = "published" -> "PUBLISH_COMPLETE"
           [] sub[i].media = "failed" -> "FAILED"
           [] OTHER -> "PROCESSING"

\* The row a terminal answer makes (_resolve_poll_outcome).
Resolved(row, outcome) ==
    [row EXCEPT !.status = IF outcome = "PUBLISH_COMPLETE" THEN "PUBLISHED" ELSE "FAILED"]

\* _poll_and_update asks; an error is only a warning, and nothing is written.
PollAsk(a) ==
    /\ At(a, "polling")
    /\ \/ Goto(a, [ctx[a] EXCEPT !.at = "polled", !.outcome = StatusAnswer(ctx[a].id)])
       \/ Goto(a, Idle)
    /\ UNCHANGED sub

\* ... and writes unconditionally.
PollWrite(a) ==
    /\ At(a, "polled")
    /\ Write(a, P(a),
             IF ctx[a].outcome = "PROCESSING"
             THEN [RowOf(a) EXCEPT !.status_check_count = Capped(ctx[a].checks)]
             ELSE Resolved(RowOf(a), ctx[a].outcome), Idle)
    /\ UNCHANGED sub

ExecuteStep(a) ==
    \/ Claim(a) \/ LoadMedia(a) \/ Checkpoint(a) \/ InitUpload(a) \/ PersistId(a)
    \/ UploadMedia(a) \/ RereadAfterError(a) \/ SettleError(a) \/ ConfirmId(a)
    \/ ReadForPoll(a) \/ PollAsk(a) \/ PollWrite(a)

-----------------------------------------------------------------------------
(***************************************************************************)
(* Crash recovery: rows PUBLISHING with no activity since the threshold.   *)
(***************************************************************************)

SelectStale(w, p) ==
    /\ At(w, "idle")
    /\ post[p].status = "PUBLISHING"
    /\ Stalls \/ Executors(p) = {}
    /\ Goto(w, [Idle EXCEPT !.at = "recovering", !.post = p, !.fresh = TRUE,
                            !.id = post[p].platform_post_id,
                            !.retry_count = post[p].retry_count])
    /\ UNCHANGED sub

\* Fault: an interrupted submission costs no retry.
RecoverUnsubmittedUncounted(w) ==
    /\ At(w, "recovering") /\ ctx[w].id = None
    /\ WriteIfUnchanged(w,
          IF RowOf(w).submission_state = "SUBMITTING"
          THEN [RowOf(w) EXCEPT !.status = "UNKNOWN"]
          ELSE [RowOf(w) EXCEPT !.status = "PENDING", !.submission_state = None])
    /\ UNCHANGED sub

\* Fault: no id is taken to mean that nothing was submitted.
RecoverUnsubmittedBlindly(w) ==
    /\ At(w, "recovering") /\ ctx[w].id = None
    /\ WriteIfUnchanged(w, RetryOrFail(RowOf(w), TRUE, ctx[w].retry_count))
    /\ UNCHANGED sub

\* Case A: no id was ever persisted; the checkpoint says what that proves.
\* (A row that is no longer fresh is not written whatever it holds now.)
RecoverUnsubmitted(w) ==
    /\ At(w, "recovering") /\ ctx[w].id = None
    /\ WriteIfUnchanged(w,
          CASE RowOf(w).submission_state = None ->
                   [RowOf(w) EXCEPT !.status = "PENDING"]
            [] RowOf(w).submission_state = "AWAITING_PLATFORM_ID" ->
                   RetryOrFail(RowOf(w), TRUE, ctx[w].retry_count)
            [] OTHER -> [RowOf(w) EXCEPT !.status = "UNKNOWN"])
    /\ UNCHANGED sub

\* Case B: an id exists, so its status is asked, never the media sent again.
RecoverAsk(w) ==
    /\ At(w, "recovering") /\ ctx[w].id # None
    /\ \/ Goto(w, [ctx[w] EXCEPT !.at = "recovery_polled", !.outcome = StatusAnswer(ctx[w].id)])
       \/ Goto(w, Idle)
    /\ UNCHANGED sub

RecoverResolve(w) ==
    /\ At(w, "recovery_polled")
    /\ IF ctx[w].outcome = "PROCESSING" THEN Goto(w, Idle)
       ELSE WriteIfUnchanged(w, Resolved(RowOf(w), ctx[w].outcome))
    /\ UNCHANGED sub

RecoveryStep(w) == RecoverUnsubmitted(w) \/ RecoverAsk(w) \/ RecoverResolve(w)

-----------------------------------------------------------------------------
(***************************************************************************)
(* Reconciliation: PUBLISHING rows that hold an id.                        *)
(***************************************************************************)

SelectReconcilable(w, p) ==
    /\ At(w, "idle")
    /\ post[p].status = "PUBLISHING" /\ post[p].platform_post_id # None
    /\ Goto(w, [PollRecord(p) EXCEPT !.at = "reconciling", !.fresh = TRUE])
    /\ UNCHANGED sub

ReconcileAsk(w) ==
    /\ At(w, "reconciling")
    /\ \E answer \in {StatusAnswer(ctx[w].id), "retryable", "terminal"} :
          Goto(w, [ctx[w] EXCEPT !.at = "reconcile_polled", !.outcome = answer])
    /\ UNCHANGED sub

\* Fault: a status check that cannot be answered counts as a failed post.
ReconciledAsFailed(row, outcome, checks) ==
    CASE outcome = "retryable" -> [row EXCEPT !.status_check_count = Capped(checks)]
      [] outcome = "PROCESSING" /\ checks + 1 < MaxChecks ->
            [row EXCEPT !.status_check_count = checks + 1]
      [] outcome = "terminal" \/ (outcome = "PROCESSING" /\ checks + 1 >= MaxChecks) ->
            [row EXCEPT !.status = "FAILED"]
      [] OTHER -> Resolved(row, outcome)

\* Fault: a submission TikTok never settles is checked for ever.
ReconciledForEver(row, outcome, checks) ==
    CASE outcome = "terminal" -> [row EXCEPT !.status = "UNKNOWN"]
      [] outcome \in {"retryable", "PROCESSING"} ->
            [row EXCEPT !.status_check_count = Capped(checks)]
      [] OTHER -> Resolved(row, outcome)

\* What one status check makes of the row: a retryable error only reschedules,
\* a terminal one and an exhausted check budget park the row as UNKNOWN.
Reconciled(row, outcome, checks) ==
    CASE outcome = "retryable" -> [row EXCEPT !.status_check_count = Capped(checks)]
      [] outcome = "terminal" -> [row EXCEPT !.status = "UNKNOWN"]
      [] outcome = "PROCESSING" ->
            IF checks + 1 >= MaxChecks THEN [row EXCEPT !.status = "UNKNOWN"]
            ELSE [row EXCEPT !.status_check_count = checks + 1]
      [] OTHER -> Resolved(row, outcome)

ReconcileWrite(w) ==
    /\ At(w, "reconcile_polled")
    /\ WriteIfUnchanged(w, Reconciled(RowOf(w), ctx[w].outcome, ctx[w].checks))
    /\ UNCHANGED sub

ReconcileStep(w) == ReconcileAsk(w) \/ ReconcileWrite(w)

-----------------------------------------------------------------------------
(***************************************************************************)
(* publish_video, run by hand.                                             *)
(***************************************************************************)

\* It reads the row once and goes by what it read: an id is only polled.
CliStart(c, p) ==
    /\ At(c, "idle")
    /\ ConcurrentOperators \/ \A b \in Clis \cup Users : ctx[b].post # p
    /\ LET row == post[p] IN
       \/ /\ row.platform_post_id # None /\ row.status # "PUBLISHED"
          /\ Goto(c, PollRecord(p))
       \/ /\ row.platform_post_id = None
          /\ Goto(c, [Idle EXCEPT !.post = p,
                        !.at = CASE row.status = "ABSENT" -> "cli_insert"
                                 [] row.status = "FAILED" -> "cli_failed"
                                 [] OTHER -> "cli_claim"])
    /\ UNCHANGED sub

\* No row yet: the video is validated, then inserted; the UNIQUE key refuses a
\* second insert and the command fails.
CliInsert(c) ==
    /\ At(c, "cli_insert")
    /\ \/ Goto(c, Idle)
       \/ /\ RowOf(c).status = "ABSENT"
          /\ \E slot \in {"never", "later", "now"} :
                Write(c, P(c), [NoRow EXCEPT !.status = "PENDING", !.eligible = slot],
                      [Idle EXCEPT !.at = "cli_claim", !.post = P(c)])
    /\ UNCHANGED sub

\* A FAILED row read without an id is put back to PENDING, unconditionally.
CliRequeue(c) ==
    /\ At(c, "cli_failed")
    /\ Write(c, P(c), [RowOf(c) EXCEPT !.status = "PENDING", !.retry_count = 0],
             [Idle EXCEPT !.at = "cli_claim", !.post = P(c)])
    /\ UNCHANGED sub

CliStep(c) == (\E p \in Posts : CliStart(c, p)) \/ CliInsert(c) \/ CliRequeue(c)

-----------------------------------------------------------------------------
(***************************************************************************)
(* retry_platform_post, asked for by the owner of the post.                *)
(***************************************************************************)

ReadForRetry(u, p) ==
    /\ At(u, "idle")
    /\ post[p].status \in {"FAILED", "UNKNOWN"}
    /\ ConcurrentOperators \/ \A c \in Clis : ctx[c].post # p
    /\ Goto(u, [Idle EXCEPT !.at = "retrying", !.post = p, !.fresh = TRUE])
    /\ UNCHANGED sub

\* Nothing in doubt, or the person vouches that nothing was published.
MayResubmit(row, confirmed) == row.status = "FAILED" \/ confirmed

Recheck(row) == [row EXCEPT !.status = "PUBLISHING", !.status_check_count = 0]

\* early: an earlier submission of the row is still being executed or polled.
Resubmit(row, early) ==
    [row EXCEPT !.status = "PENDING", !.platform_post_id = None, !.retry_count = 0,
                !.status_check_count = 0, !.submission_state = None, !.eligible = Later(row),
                !.overtaken = row.overtaken \/ early]

\* The confirmation of an UNKNOWN row disowns what was submitted for it.
Disown(p) ==
    sub' = [i \in Ids |-> IF sub[i].post = p THEN [sub[i] EXCEPT !.disowned = TRUE] ELSE sub[i]]

RetryPost(u) ==
    /\ At(u, "retrying")
    /\ \E confirmed \in BOOLEAN :
       \/ /\ ~ctx[u].fresh
          /\ Goto(u, Idle) /\ UNCHANGED sub
       \/ /\ ctx[u].fresh
          /\ RowOf(u).platform_post_id = None /\ ~MayResubmit(RowOf(u), confirmed)
          /\ Goto(u, Idle) /\ UNCHANGED sub
       \/ /\ ctx[u].fresh
          /\ RowOf(u).platform_post_id # None /\ ~MayResubmit(RowOf(u), confirmed)
          /\ WriteIfUnchanged(u, Recheck(RowOf(u))) /\ UNCHANGED sub
       \/ /\ ctx[u].fresh
          /\ MayResubmit(RowOf(u), confirmed)
          /\ WriteIfUnchanged(u, Resubmit(RowOf(u), Executors(P(u)) \cup Pollers(P(u)) # {}))
          /\ IF RowOf(u).status = "UNKNOWN" THEN Disown(P(u)) ELSE UNCHANGED sub

-----------------------------------------------------------------------------
(***************************************************************************)
(* TikTok, and processes that die.                                         *)
(***************************************************************************)

\* Media that was sent becomes a post or is refused.  A submission whose media
\* never came is refused in the end as well.
TikTokSettles(i) ==
    /\ sub[i].post # None
    /\ \/ sub[i].media = "sent" /\ sub' = [sub EXCEPT ![i].media = "published"]
       \/ sub[i].media \in {"none", "sent"} /\ sub' = [sub EXCEPT ![i].media = "failed"]
    /\ UNCHANGED <<post, ctx>>

Crash(a) ==
    /\ ~At(a, "idle")
    /\ Goto(a, Idle)
    /\ UNCHANGED sub

WorkerStarts(w, p) == SelectDue(w, p) \/ SelectStale(w, p) \/ SelectReconcilable(w, p)

Steps ==
    \/ \E p \in Posts : Materialize(p) \/ TimeArrives(p)
    \/ \E w \in Workers, p \in Posts : WorkerStarts(w, p)
    \/ \E w \in Workers : RecoveryStep(w) \/ ReconcileStep(w)
    \/ \E a \in Workers \cup Clis : ExecuteStep(a)
    \/ \E c \in Clis : CliStep(c)
    \/ \E u \in Users : RetryPost(u) \/ \E p \in Posts : ReadForRetry(u, p)
    \/ \E i \in Ids : TikTokSettles(i)

Next == Steps \/ \E a \in Actors : Crash(a)

Spec == Init /\ [][Next]_vars

-----------------------------------------------------------------------------
(***************************************************************************)
(* Properties.                                                             *)
(***************************************************************************)

TypeOK ==
    /\ post \in [Posts -> Row]
    /\ sub \in [Ids -> Submission]
    /\ ctx \in [Actors -> Local]

\* A submission that can still become a post, or has, and that nobody disowned.
Outstanding(p) == {i \in Ids : /\ sub[i].post = p /\ ~sub[i].disowned
                               /\ sub[i].media \in {"sent", "published"}}

\* The posts of which no owner asked for a new submission while the pipeline was
\* still at work on the one before.
Orderly == {p \in Posts : ~post[p].overtaken}

\* A video never has two submissions of which each can become a post: crashes,
\* ambiguous upload errors, recovery, retries and their interleavings never
\* send the media of a video twice unless TikTok refused the first, or a
\* person vouched for it.
AtMostOnePublication == \A p \in Orderly : Cardinality(Outstanding(p)) <= 1

\* Whatever can still become a post is the submission the row points at, so
\* polling the row's id finds it: no crash loses a submission.
SubmissionTracked ==
    \A p \in Orderly : \A i \in Outstanding(p) : post[p].platform_post_id = i

\* No outcome without evidence: a row says PUBLISHED, or FAILED while it holds
\* an id, only if TikTok said so of that very id.
OutcomeIsEvidence ==
    \A p \in Orderly :
        LET row == post[p] IN
        /\ row.status = "PUBLISHED" =>
              row.platform_post_id # None /\ sub[row.platform_post_id].media = "published"
        /\ row.status = "FAILED" /\ row.platform_post_id # None =>
              sub[row.platform_post_id].media = "failed"

\* Whatever happens to a row, overtaken executors and late writes included, it
\* says PUBLISHED only if TikTok made a post of a submission of that video.
PublishedIsReal ==
    \A p \in Posts : post[p].status = "PUBLISHED" =>
        \E i \in Ids : sub[i].post = p /\ sub[i].media = "published"

\* FAILED is only written for an id when the platform says so, as
\* manual_recovery.py states; the owner's retry without confirmation rests on it.
FailureIsReported ==
    \A p \in Posts : post[p].status = "FAILED" /\ post[p].platform_post_id # None =>
        sub[post[p].platform_post_id].media = "failed"

\* A row offered to the due pass carries nothing of an earlier submission.
PendingIsClean ==
    \A p \in Orderly : post[p].status = "PENDING" =>
        post[p].platform_post_id = None /\ post[p].submission_state = None

\* A claim is exclusive until its executor is done with the submission.
OneExecutor == \A p \in Orderly : Cardinality(Executors(p)) <= 1

\* Without a person's help a video is submitted at most once per unit of its
\* retry budget: crashes between init and its answer are counted like errors.
AttemptsBounded ==
    \A p \in Posts : Cardinality({i \in Ids : sub[i].post = p}) <= MaxRetries + 1

\* A parked or failed row goes back to work only by the hand of a person.
OnlyPersonsRelease ==
    [][\A p \in Orderly :
          /\ post[p].status \in {"UNKNOWN", "FAILED"}
          /\ post'[p].status \in {"PENDING", "PUBLISHING"}
          => \E a \in Users \cup Clis : ctx[a].post = p /\ ctx'[a] # ctx[a]]_vars

\* A submission that was interrupted without a usable checkpoint is never put
\* back to PENDING by recovery or reconciliation, overtaken or not: only an
\* executor that is still at work on it, or a person, does that.
AmbiguousCrashParks ==
    [][\A p \in Posts :
          /\ post[p].submission_state = "SUBMITTING"
          /\ post[p].status # "PENDING" /\ post'[p].status = "PENDING"
          => \/ Executors(p) # {}
             \/ \E a \in Users \cup Clis :
                   ctx[a].at \in {"retrying", "cli_failed"} /\ ctx[a].post = p]_vars

\* PUBLISHED is final, and an id is given up only by a person's resubmission.
PublishedIsFinal ==
    [][\A p \in Orderly :
          /\ post[p].status = "PUBLISHED" =>
                /\ post'[p].status = "PUBLISHED"
                /\ post'[p].platform_post_id = post[p].platform_post_id
          /\ post[p].platform_post_id \notin {None, post'[p].platform_post_id} =>
                \E u \in Users : At(u, "retrying") /\ ctx[u].post = p]_vars
=============================================================================
