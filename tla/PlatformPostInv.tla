-------------------------- MODULE PlatformPostInv --------------------------
(***************************************************************************)
(* The inductive invariant behind the safety properties of PlatformPost,   *)
(* for a checkpointed publisher, where no row turns stale while its        *)
(* executor runs and no command meets another person's (Regime).  No       *)
(* process holds a lock: what keeps them apart is what each stage implies  *)
(* of the row, and what a fresh compare-and-swap token implies of the      *)
(* other processes.  A post that was overtaken is exempt from all of it    *)
(* but Sourced, which needs no regime.                                     *)
(***************************************************************************)
EXTENDS PlatformPost

Regime == Checkpointed /\ ~Stalls /\ ~ConcurrentOperators

\* Between the claim and the moment the id is durable.
Unsubmitted == {"claimed", "loaded", "submitting", "initiated", "erred_no_id"}

\* Stages in which a process answers for a particular submission.
Holding == {"uploading", "uploaded"} \cup Polling

Recovering == {"recovering", "recovery_polled"}
Reconciling == {"reconciling", "reconcile_polled"}
Asked == {"polled", "recovery_polled", "reconcile_polled"}

\* Who may be where, and a process that is busy is busy with a post.
Role(a, l) ==
    /\ l.post = None <=> l.at = "idle"
    /\ l.at \in {"selected"} \cup Recovering \cup Reconciling => a \in Workers
    /\ l.at \in {"cli_failed", "cli_claim", "cli_insert"} => a \in Clis
    /\ l.at = "retrying" => a \in Users
    /\ l.at \in Executing \cup Polling => a \in Workers \cup Clis

Roles == \A a \in Actors : Role(a, ctx[a])

\* What the stage l of a process implies of the row it works on.
Fits(l, row) ==
    /\ l.at \in Unsubmitted => row.status = "PUBLISHING" /\ row.platform_post_id = None
    /\ l.at \in {"claimed", "loaded"} => row.submission_state = None
    /\ l.at = "erred" =>
          /\ row.platform_post_id = l.id
          /\ l.id = None => row.status = "PUBLISHING"
    /\ l.at \in Holding => l.id # None /\ row.platform_post_id = l.id
    /\ l.at \in {"erred_id", "submitted"} => row.platform_post_id # None
    /\ l.at = "cli_failed" => row.status = "FAILED" /\ row.platform_post_id = None
    /\ l.at \in Recovering \cup Reconciling /\ l.fresh =>
          row.status = "PUBLISHING" /\ row.platform_post_id = l.id
    /\ l.at = "retrying" /\ l.fresh => row.status \in {"FAILED", "UNKNOWN"}

\* Process a works on a post that was not overtaken.
Orderliness(a) == ctx[a].at # "idle" /\ ~RowOf(a).overtaken

StagesFit == \A a \in Actors : Orderliness(a) => Fits(ctx[a], RowOf(a))

\* What it implies of TikTok's side, s.  An answer never becomes wrong.
Answered(l, s) ==
    /\ l.at \in {"claimed", "loaded", "submitting"} => l.id = None
    /\ l.at = "initiated" => l.id # None /\ s[l.id].post = l.post
    /\ l.at \in Asked \cup Reconciling => l.id # None
    /\ l.at \in Asked => l.outcome # None
    /\ l.at \in {"polled", "recovery_polled"} => l.outcome \notin {"retryable", "terminal"}
    /\ l.at \in Asked /\ l.outcome = "PUBLISH_COMPLETE" => s[l.id].media = "published"
    /\ l.at \in Asked /\ l.outcome = "FAILED" => s[l.id].media = "failed"

AnswersHold == \A a \in Actors : Orderliness(a) => Answered(ctx[a], sub)

\* What a and b, at the stages l and k, do not do on one row at the same time.
Exclusive(a, l, b, k) ==
    /\ l.at \in Executing => k.at \notin Executing
    /\ l.at \in Executing /\ k.at = "recovering" => ~k.fresh
    /\ a \in Clis => b \notin Clis \cup Users

NobodyCollides ==
    \A a, b \in Actors :
        a # b /\ ctx[a].post = ctx[b].post /\ Orderliness(a)
        => Exclusive(a, ctx[a], b, ctx[b])

\* An id nobody was given has no media.
UnusedIds == \A i \in Ids : sub[i].post = None => sub[i].media = "none"

\* A row, and the submissions made for it.
RowConsistent(p, row, s) ==
    /\ row.status \in {"ABSENT", "PENDING"} =>
          row.platform_post_id = None /\ row.submission_state = None
    /\ row.status = "FAILED" => row.submission_state = None
    /\ row.platform_post_id # None =>
          s[row.platform_post_id].post = p /\ row.submission_state = None
    /\ row.status = "PUBLISHED" =>
          row.platform_post_id # None /\ s[row.platform_post_id].media = "published"
    /\ row.status = "FAILED" /\ row.platform_post_id # None =>
          s[row.platform_post_id].media = "failed"
    /\ \A i \in Ids :
          s[i].post = p /\ ~s[i].disowned /\ s[i].media \in {"sent", "published"}
          => row.platform_post_id = i

RowsConsistent == \A p \in Orderly : RowConsistent(p, post[p], sub)

\* Where ids and outcomes come from, overtaken or not: an id belongs to the post
\* it is used for, an answer is about the id that was asked, and whoever works on
\* a row found one.
RowSourced(p, row, s) ==
    /\ row.status = "ABSENT" =>
          ~row.overtaken /\ row.platform_post_id = None /\ row.submission_state = None
    /\ row.platform_post_id # None => s[row.platform_post_id].post = p
    /\ row.status = "PUBLISHED" =>
          \E i \in Ids : s[i].post = p /\ s[i].media = "published"

LocalSourced(l, s) ==
    /\ l.id # None => l.post # None /\ s[l.id].post = l.post
    /\ l.at \in Asked /\ l.outcome = "PUBLISH_COMPLETE" =>
          l.id # None /\ s[l.id].media = "published"

Present(l, row) == l.at \in {"idle", "cli_insert"} \/ row.status # "ABSENT"

Sourced ==
    /\ \A p \in Posts : RowSourced(p, post[p], sub)
    /\ \A a \in Actors : LocalSourced(ctx[a], sub) /\ Present(ctx[a], RowOf(a))

IInv ==
    /\ TypeOK /\ Roles /\ StagesFit /\ AnswersHold /\ NobodyCollides
    /\ UnusedIds /\ RowsConsistent /\ Sourced

-----------------------------------------------------------------------------
(***************************************************************************)
(* The retry budget, when no person starts anything (AttemptsBounded).     *)
(***************************************************************************)

\* No person, no retry that overtakes an executor.
NobodyOvertaken == \A p \in Posts : ~post[p].overtaken

Attempts(p) == {i \in Ids : sub[i].post = p}

\* The row does not yet allow for a submission beyond its retry_count: nothing
\* is submitted before the checkpoint is written.
Uncharged(row) ==
    \/ row.status = "PENDING"
    \/ /\ row.status = "PUBLISHING"
       /\ row.platform_post_id = None /\ row.submission_state = None

Allowance(row) ==
    IF row.status = "ABSENT" THEN 0
    ELSE row.retry_count + (IF Uncharged(row) THEN 0 ELSE 1)

\* The stages that carry the row's retry_count to a decision about it.
Counts(l) ==
    \/ l.at \in Unsubmitted
    \/ l.at = "erred" /\ l.id = None
    \/ l.at = "recovering" /\ l.fresh

\* What the stage l of a process on p implies of the budget.
Budgeted(l, p) ==
    /\ Counts(l) => l.retry_count = post[p].retry_count
    /\ l.at = "submitting" =>
          /\ post[p].submission_state # None
          /\ Cardinality(Attempts(p)) <= post[p].retry_count

BudgetInv ==
    /\ \A p \in Posts :
          IsFiniteSet(Attempts(p)) /\ Cardinality(Attempts(p)) <= Allowance(post[p])
    /\ \A a \in Actors : ~At(a, "idle") => Budgeted(ctx[a], P(a))
=============================================================================
