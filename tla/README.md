# A verification project for content-calander ("Pickle Batch")

The program takes videos in, puts them into the posting slots of their owner's
cadence, and publishes each one on TikTok when its slot arrives. This directory
holds TLA+ modules of that program, the TLC runs that check them on small
instances, and proofs (TLAPS) of what matters most. File names without a
directory are below `src/src/content_automation/`; those of `cli/` are below `src/`.

## 1. Inventory

| component | state | hard because | modelled in |
|---|---|---|---|
| Publication of a post: `scheduling/publish_tiktok.py`, `worker.py`, `crash_recovery.py`, `reconciliation.py`, `manual_recovery.py` | a row of `platform_posts` | several processes, no lock between statements, crashes between any two, requests whose outcome is unknown, conditional and unconditional writes mixed | `PlatformPost` family |
| Schedule of a user: `scheduling/queue_assignment.py`, `slot_matcher.py`, `platform_post_materializer.py`, `api/routes/queue.py`, `cadence.py` | `content_slots`, `videos.assigned_slot_id`, posts | one fact in three tables, several transactions per request, two backends with different isolation | `SlotAssignment` |
| Credentials and OAuth: `publishing/*/credential_store.py`, `publishing/tiktok/auth.py`, `publishing/instagram/oauth.py`, `api/routes/platforms_*.py` | `oauth_states`, `platform_connections`, `platform_credentials`, the refresh lock; the token file of a local installation | rotating refresh tokens, lost answers, a callback racing a disconnect, a file that is emptied before it is filled | `HostedConnection`, `LocalToken` |
| Identity: `identity/user_resolution.py`, `cli/link_bootstrap_user.py` | `users`, `auth_identities` | two first logins, a death between two inserts, emails that are not unique | `FirstLogin` |
| Local ingestion: `media/processing.py` and the stages it calls | `videos`, `content_slots`, directories | each run resumes where another was cut | `Ingestion` |
| Upload and storage of media: `media/media_storage.py`, `api/routes/videos.py`, `storage/*`, `cli/migrate_media_to_object_storage.py` | `videos`, stored objects, upload telemetry | a row and an object that no transaction covers | `MediaStorage` |
| Captions: `media/caption_editing.py`, `api/routes/captions.py`, `publishing/caption_resolution.py` | caption, source, hashtags of a video | read, then checked, then written, while a worker reads too | `Captions` |
| Hosted worker loop: `scheduling/hosted_worker.py`, `hosted_due_selection.py`, `due_post_selector.py` | the cycle of each worker | one user's failure must stay his; two clocks and daylight saving | `HostedSchedule`, `PlatformPostLive` |
| Slot generation and cadence: `calendar/hosted_cadence.py`, `cadence.py`, `generate_calendar.py` | none | rounding, gaps of a time zone, "now" | `HostedSchedule`, `Cadence`; reconciliation with existing slots in `SlotAssignment` |
| Google Calendar tools: `calendar/calendar_manager.py`, `cli/generate_calendar.py`, `cli/clear_calendar.py` | a calendar and events at Google, `calendar_state.json`, slots | every step can fail, and owners assign meanwhile | `CalendarTools` |
| Status shown, failure taxonomy, retry classification | none | tables that have to agree with each other | `PublishStatus` |
| Store: `persistence/*` | all tables | SQLite serialises, Postgres runs at READ COMMITTED | inside the modules of its users |
| Migrations and backfills, HTTP wiring, token verification, signed addresses, web front end, evaluation tools | – | one-off commands, libraries, or no state of their own | not modelled (section 6) |

`PROJECT.json` lists the components with their sources and status and, under
`hazards`, what is hard to test in this code, each at its line.

## 2. The modules

```
PublicationContract            what the owner is promised
      ^ implemented by
PlatformPost <- PublishRefinement (the mapping)
      ^  ^---- PlatformPostInv    the inductive invariants
      |           ^---- PlatformPostProofs <- PublishRefinementProofs (the refinement)
      |           ^---- UnconditionalProofs
      |------- PlatformPostLive   fairness of the hosted loop, liveness
      |------- MCPlatformPost     instances for TLC
SlotAssignment                 <- SlotAssignmentProofs, MCSlotAssignment
HostedConnection               <- HostedConnectionProofs  \
FirstLogin, LocalToken                                     > MCAccounts <- AccountsProofs
Captions, Ingestion, MediaStorage                          > MCContent  <- ContentProofs
HostedSchedule, PublishStatus, CalendarTools, Cadence      > MCHosted   <- HostedProofs
```

Operators named `Fault...`, or introduced by a comment "Fault:" in `PlatformPost`, are
plausible errors of the code. No specification uses them; each serves to confirm that
a property notices it.

**PlatformPost** is the life of one row of `platform_posts`. `post` is the table,
`sub` is TikTok's side (what became of the media of each publish_id), `ctx` is the
local state of every process: a *worker* (due pass, crash recovery and
reconciliation, one row at a time), a *command* (`publish_tiktok`), or a *user* (the
retry route). One step is one database statement or one request to TikTok, and
`Crash` can end a process before any of its steps; this is also how an exception
that is not a PublishError ends.

| code | actions |
|---|---|
| `get_due_platform_posts`, `claim_platform_post` | `SelectDue`, `Claim` |
| `execute_claimed_platform_post`, `_validate_and_submit` | `LoadMedia`, `Checkpoint`, `RereadAfterError`, `SettleError`, `ConfirmId`, `ReadForPoll` |
| `TikTokPublisher.publish` | `InitUpload`, `PersistId` (its callback), `UploadMedia` |
| `_poll_and_update` | `PollAsk`, `PollWrite` |
| `recover_stale_posts_once` | `SelectStale`, `RecoverUnsubmitted`, `RecoverAsk`, `RecoverResolve` |
| `reconcile_pending_status_checks_once` | `SelectReconcilable`, `ReconcileAsk`, `ReconcileWrite` |
| `publish_video` | `CliStart`, `CliInsert`, `CliRequeue`, then as above |
| `retry_platform_post` | `ReadForRetry`, `RetryPost` |

`updated_at` is never stored: each process has a flag `fresh`, true while the row is
still the one it read, and every write to the row clears the flags of the others.
That is all a compare-and-swap on `updated_at` can tell (the code stamps
microseconds; two writes in one microsecond are left out). Clock times are reduced to
what they gate. Error codes are reduced to retryable and terminal. Three constants
name the regimes: `Checkpointed` (the publisher reports its id before it sends media;
TikTok's does), `Stalls` (a row can turn stale for crash recovery while its executor
still runs: nothing refreshes `updated_at` during a transfer), and `ConcurrentOperators`
(a command may overlap another command or a retry).

The owner's retry has no regime: `retry_platform_post` looks at the row alone, and so
does `RetryPost`. Another worker's reconciliation can park a row (a terminal answer, or
the last check) while its executor still uploads or polls; the owner retries, and a
minute later a second executor claims the post. What the pipeline promises of a post
ends there. The row's field `overtaken` is a history of that moment, no step reads it,
and a property that exempts such posts speaks of `Orderly`. `PublishedIsReal`,
`AmbiguousCrashParks`, `AttemptsBounded` and the types exempt nothing.
**PublicationContract** is the same promise without processes, where such a retry
forfeits the post (`Forfeit`); **PublishRefinement** maps the rows and TikTok's side to it.

**SlotAssignment** is the schedule of one user. On SQLite a store transaction is one
step. On Postgres (`Serialized = FALSE`) each SELECT is a step, and the writes, which
hold their row locks until the commit, are one. A request is a sequence of such calls
and can die between any two. `Overlap` says whether two requests about the same video
may overlap. Publishing is reduced to what the requests look at.

| code | actions |
|---|---|
| `save_cadence_and_regenerate_slots` | `SaveCadence` |
| `assign_video_to_slot`, `assign_video_to_next_open_slot` | `AssignStart`, `Assign`, `Claim` (Postgres), `Materialize` |
| `unassign_slot` | `Unassign`; on Postgres then `UnassignPosts`, `UnassignWrite` |
| `media_storage.delete_video` | `DeleteStart`, `DeletePosts`, `DeleteMedia`, `DeleteRow` |

**HostedConnection** is one user's connection to TikTok or Instagram. `attempt`,
`connection` and `credential` are the rows; `live`, `issued` and `origin` are the
platform's side: which tokens it would still refresh, and which authorization each
goes back to. `forfeited` records tokens whose successor was lost with an answer or a
process, or that the person revoked. A write of the credential always stores a token
nobody else wrote, so `updated_at` is identified with the token.

| code | actions |
|---|---|
| `start_tiktok_connect`, `start_instagram_connect`, expiry of a state | `Connect`, `AttemptExpires` |
| the callbacks | `Callback`, `ExchangeFails`, `ExchangeCode`, `FindConnection`, `CreateConnection`, `CreateRefused`, `ActivateTikTok`, `SaveOnPostgres`, `SaveOnSqlite`, `InsertCredential`, `UpdateCredential`, `SaveFails`, `ActivateInstagram` |
| the disconnect routes | `Disconnect`, `DeleteCredential`, `MarkDisconnected` |
| token providers, status routes, refresh | `ProvideAccessToken`, `TikTokStatus`, `InstagramStatus`, `Look`, `EnterRefresh`, `LockTimeout`, `Reread`, `RefreshAnswered`, `RefreshRejected`, `RefreshUnanswered`, `WriteRefreshed` |

**LocalToken** is the same problem for a local installation: one token file, one lock
file, commands that refresh under the lock and authorization commands that take
none. Saving is `Truncate`, then `Fill`: a reader in between, or after a death in
between, finds a file that does not parse.

**FirstLogin** is `resolve_or_create_user` statement by statement (`ResolveUser`,
`LookUpEmail`, `CreateUser`, `LinkIdentity`, and `LoginDies` between them) with
`link_bootstrap_user` (`CheckBootstrapLink`, `LinkBootstrapUser`).

**Ingestion** is a run of `process_content`: `StartRun` orders the files like
`discover_videos`, then one action per stage of `process_one`, with each outcome a
stage has, and `Die` before any of them. A stage's own computation (ffprobe, the
transcription and classification models) is a choice among its results; the decision
gates on scores are translated. A file has a content, by which `process_one` knows it
(`Files`), and a name, by which `discover_videos` looks up its `created_at` (`Names`);
people rename files between and during runs (`RenameFile`), and slots are added at any time
(`AddSlot`). One file per content; a file that the running command has still to do
is not renamed, as the command would end on a path that is gone.

**MediaStorage** has three processes: an upload of a batch (`request`), a deletion,
and the migration to object storage. A call to the store is answered, refused, or
unanswered, in which case it takes effect now, later (`StoreLate`) or never.

**Captions** has requests that read the video, check the lock, then write, and a
worker that claims, reads the caption and submits it. **PublishStatus** says what the
owner is shown; a behaviour only lets time pass, for between two writes of a row
nothing else changes. Its clock is UTC, by which progress is judged stale; whether a
slot is overdue goes by the wall of the slot's zone and a retry by that of `TIMEZONE`,
and a wall may be put back (`Wall`). **HostedSchedule** counts time in half hours: `scheduled_at`
is wall-clock time in the slot's zone, `next_retry_at` in the configured one, and
offsets change on the days clocks do. Its `cycle` is `run_hosted_cycle` of each worker:
the users and posts that are left, and the one that is being looked at.
**Cadence** is the monthly schedule of the command line, a post at a time.
**CalendarTools** makes each call to Google and each statement of the two commands a
step.

**MCAccounts**, **MCContent** and **MCHosted** put specifications that share no state
side by side, so that one run checks several. A variable `focus`, chosen in the
initial state, says which one a behaviour exercises; the others stand still. This
composes nothing: it only saves runs. The theorems about these specifications are
stated for the MC modules' specifications too, so a run and a proof speak of the
same formula.

## 3. The runs

| run | instance | properties | shows |
|---|---|---|---|
| workers | 2 workers, 2 retries, 4 ids | TypeOK, AttemptsBounded, OnlyPersonsRelease | without a person the retry budget bounds the submissions, and nothing parked or failed moves |
| hosted | 2 workers, an owner who retries, 2 ids | IInv, AtMostOnePublication, SubmissionTracked, OutcomeIsEvidence, PendingIsClean, OneExecutor, PublishedIsFinal | the safety of the pipeline, and the invariant of the proofs |
| cli | a worker, a command, an owner | ImplementsContract | the same with `publish_tiktok`: every behaviour is one of `PublicationContract`, in which no video is published twice |
| unknown_parks | 2 workers, an owner; no early ids, `Stalls` | AmbiguousCrashParks, PublishedIsReal | in the worst regime an interrupted submission waits for a person, and PUBLISHED is true |
| live | 2 workers, 1 fault, fairness | EveryPostSettles, PublicationIsReported | every post ends somewhere, every publication is reported |
| slots | SQLite: 2 videos, 2 requests, 4 slot ids, 2 times | SidesAgree, PostFollowsSchedule, ClaimIsKept, AttemptKeepsSlot | the three tables agree whatever interleaves |
| slots_one_request | Postgres, 1 request | ClaimIsKept | what remains true there |
| accounts | 2 requests, 2 attempts, 4 tokens; 2 logins, 3 identities; 2 commands, 3 tokens | RotatedTokenIsNotPresented, RefreshOnlyRenews, AttemptIsRedeemedOnce, AccountsAreNotShared, LockoutNeedsAbandonedLogin, SpentTokenIsNotPresented | connections, logins and the local token |
| content | 2 files, 3 names, 2 slots; 2 videos, batches of 2; 2 requests, 2 texts | AssignedIsComplete, StrayNeedsDeath, NotOvertaken, MediaMatchesRows, ProvenanceIsTrue, PublishedCaptionIsShown | how a video comes in and what is said under it |
| hosted_time | 2 users, 3 zones, 5 half hours; 4 pillars, a month of 31 days; 2 times, 2 videos, 3 calendars | NothingEarly, CycleServesEveryUser, StatusIsHonest, OnlyLatenessIsTakenBack, MonthIsShared, NoPillarWaits, CalendarIsCreatedOnce, VideoHasItsSlot | time, cycles and calendars |
| two_commands | 2 commands | AtMostOnePublication | violated, section 5 |
| slots_postgres | Postgres, 2 requests | ClaimIsKept | violated, section 5 |

### What the properties are about

`AtMostOnePublication` is the promise the code is built around: a video never has two
submissions that can each become a post, unless a person stated that the first was not
published. `SubmissionTracked` is its other half: no crash loses a submission that may
become a post. `OutcomeIsEvidence` forbids an outcome nobody reported; all three end for
a post that its owner overtook. `PublishedIsReal` does not: however late an unconditional
write comes, it never calls a video published that TikTok has no post of.
`ImplementsContract` says all of it against a specification a reader can hold in mind.
`SidesAgree` and `PostFollowsSchedule` relate the three tables of the schedule.

`RotatedTokenIsNotPresented` and `SpentTokenIsNotPresented` are "exactly one real refresh
per expiry": a token the platform has replaced is presented again only if its
successor was lost. On SQLite the hosted product has no lock, and only
`RefreshOnlyRenews` holds. `LockoutNeedsAbandonedLogin` and `StrayNeedsDeath` say that a bad
outcome the design accepts has the one cause it was accepted for. `MediaMatchesRows`
and `PublishedCaptionIsShown` use histories in the same way (`troubled`, `raced`): they
hold wherever no call failed, or no check was out of date when it was acted on. The
histories are narrow on purpose: a refused upload that is marked FAILED is not
trouble, nor is a caption written before the claim.

`NotOvertaken` is what the order by path leaves of "first come, first served": of the
slots a run found at its start none goes to a video while an earlier one waits, if the
earlier one lies where it was first seen, alone, and the later one has no older path.
Section 5 has the three ways in which the code lets one overtake.

`OnlyLatenessIsTakenBack` relates two looks at a slot with no write in between. In autumn
"late" may turn into "scheduled" again for an hour; a failure, a lost outcome or a
missing progress is never taken back. `StatusIsHonest` asks of the hint to edit a
caption only that the post it stands at was not sent, which is what the code checks.

`CycleServesEveryUser` and `NothingEarly` bound the due selection from both sides, through
an hour that is skipped and one that comes twice. `MonthIsShared` compares the
schedule with its reference: even gaps, shares within one post, and in no prefix of the
month a pillar a whole post ahead. `NoPillarWaits` is the other side, a pillar a whole post
behind; it holds of four pillars in a month, but of 48 posts in shares of 1, 5, 21 and 21
one would be.

### Bounds, and why they are enough

*PlatformPost.* One post: no statement touches two rows, ids are never shared, and a
process works on one row at a time, so several posts only interleave independent
copies (the proofs are for any number). Two workers: every race is between one executor
and one other reader of the row; a command and the owner add a third party in
hosted and cli. *Ids*: a first submission and one more, which is what a duplicate needs;
`workers` has one id more than the budget can use. `MaxChecks` 2 has one check that
reschedules and one that parks.

*SlotAssignment.* A slot id is never used again, so `Slots` bounds how often a cadence
can be saved: with four ids and two times the pool is replaced completely once.

*accounts.* Two requests are what a race needs, and two attempts are an authorization and
a reconnect; four tokens give two authorizations and two rotations. `MaxCasAttempts` is
2 instead of the code's number: one loss that is retried and one that gives up. Three
identities, two with one email, and two logins at a time.

*content.* Two files are one that overtakes and one that is overtaken; two slots have
different pillars. Scores 0 and 1 with thresholds 1 are on both sides of each gate.
`CaptionModes` has the one mode that depends on the transcript; "none" always belongs to
it. Two names and a spare one let a file leave the path of its row, and another take it.
Files are renamed in behaviours of their own, in fifo mode and with no death after a
claim, since only the order is at stake there (the theorems are about every behaviour). The
storage starts either empty, for uploads, or with local videos, for the
migration: the two are not run by one installation at one time.

*hosted_time.* `MaxTime` 4 half hours around a change of the clock at time 2 has times
before, in and after the hour that is lost or repeated; `Horizon` 2 puts a slot into each
of these, and the third zone is the one furthest ahead, which the query's margin is
for. `TakenBack` is the most a change of the clocks takes back, two half hours here. It enters
only `CycleServesEveryUser`: an hour that is taken back hides a post again, so an attempt
is promised for a post whose time the clock of its slot had shown `TakenBack` earlier.
One worker with two users shows isolation, two workers with one post show the race;
both at once add nothing, as a cycle looks at one row at a time. The cadence is checked for
every number of posts a week, first weekday and split of four pillars in quarters.
For the status the owner's zone is the one whose clock goes back, slots and retries are
set for times 1 and 2, on both sides of that change, and `Grace` and `StaleAfter` are one
half hour: each limit is passed before and after the change.
`MaxEvents` 2 ids are reused once nothing holds them.

Symmetry is declared where identifiers are interchangeable, and not in the liveness run.
Deadlock is checked in the runs of `SlotAssignment`; elsewhere the system may stop: a
settled post gives nobody work, and bounds on tokens or time end the others.

### Fairness

Only `PlatformPostLive` states fairness. `run_worker_loop` starts a cycle every few seconds for
ever and each cycle makes the three passes over every eligible row, so each selection
is strongly fair: a row may leave it and come back. Each request has a timeout
and each statement returns, so a process at work goes on (weak fairness). A time that
was set arrives (weak fairness). TikTok need not ever settle a submission. Deaths and
failing status requests happen only `MaxFaults` times; without that bound two
workers can starve each other, since each rescheduling after an error invalidates
the answer the other one has.

## 4. What is proved

For all values of the constants that satisfy the assumptions of their modules, by TLAPS:

| module | theorems (property) | hypotheses |
|---|---|---|
| `UnconditionalProofs` | TypeCorrect (TypeOK), PublicationsAreReal (PublishedIsReal), AmbiguityWaits (AmbiguousCrashParks) | none |
| `PlatformPostProofs` | InvariantHolds (IInv), OnePublication (AtMostOnePublication), NothingLost (SubmissionTracked), EvidenceHolds (OutcomeIsEvidence), CleanWhenPending (PendingIsClean), ClaimIsExclusive (OneExecutor) | `Regime`: checkpointed, no stalls, one operator at a time |
| | RetriesAreBudgeted (AttemptsBounded) | `Regime`, and no person starts anything (no commands, no retries) |
| `PublishRefinementProofs` | ReleaseIsPersonal (OnlyPersonsRelease), PublicationIsFinal (PublishedIsFinal), PipelineImplementsContract (ImplementsContract), OwnerSeesOnePost | `Regime` |
| `SlotAssignmentProofs` | ScheduleTyped | none |
| | ScheduleAgrees (SidesAgree), ClaimsKept (ClaimIsKept) | `OneAtATime`: one request at a time about a video; and SQLite or one request at all (`Reads`) |
| | PostsFollow (PostFollowsSchedule), AttemptsKeepSlots (AttemptKeepsSlot) | `OneAtATime`, and SQLite |
| `HostedConnectionProofs` | RotatedStaysUnused (RotatedTokenIsNotPresented), RefreshesOnlyRenew (RefreshOnlyRenews), RedeemedOnce (AttemptIsRedeemedOnce) | none |
| `AccountsProofs` | AccountsStayApart (AccountsAreNotShared), LockoutIsAbandonment (LockoutNeedsAbandonedLogin), LocalRefreshIsFresh (SpentTokenIsNotPresented), ConnectionBesideOthers | none |
| `ContentProofs` | ProvenanceStaysTrue (ProvenanceIsTrue), PublishedIsShown (PublishedCaptionIsShown), AssignedIsWhole (AssignedIsComplete), StrayIsDeath (StrayNeedsDeath), OrderIsKept (NotOvertaken), MediaIsMatched (MediaMatchesRows) | none |
| `HostedProofs` | NothingComesEarly (NothingEarly), EveryUserIsServed (CycleServesEveryUser), ShownStatusIsHonest (StatusIsHonest), OnlyLatenessFades (OnlyLatenessIsTakenBack), OneAppCalendar (CalendarIsCreatedOnce), VideosKeepTheirSlots (VideoHasItsSlot), MonthIsSharedOut (MonthIsShared), PillarsKeepUp | none |
| | FewPillarsNeverWait (NoPillarWaits) | at most three pillars |

The assumptions on constants are named where the constants are declared or given their
meaning (`PlatformPostAssumption`, `SlotAssignmentAssumption`, `HostedAssumption` and so
on), and TLC evaluates them in every run. They say that NULL is no value, that markers
such as "torn" are no tokens, that no identity carries the address reserved for the local
account, that budgets are numbers, and that no change of the clocks takes back more than
`TakenBack`. A hypothesis in the table is another matter: it is a way of running the
program, and section 5 says what happens without it.

None of the properties is inductive; what each needs is the content of the proof.

- `IInv` (PlatformPostInv): whether recovery may requeue a row depends on what the
  executor that vanished had done, and whether the unconditional write of the inline poll
  is harmless on what every other process that holds the row can still write. Its parts
  are `StagesFit`, `AnswersHold` (an answer never becomes wrong), `NobodyCollides`,
  `RowsConsistent`, `UnusedIds`, `Sourced` and `Roles`. The first four speak of posts whose
  executors were not overtaken; a step of the others cannot disturb them, as a process
  touches one row.
- `Grounded` (UnconditionalProofs), what is left when nothing is assumed: an id belongs to
  the post it is used for, an answer is about the id that was asked, whoever works on a
  row found one (`Sourced` with the types, `Roles` and `UnusedIds`). It is inductive in
  every regime and gives `PublishedIsReal`. `AmbiguousCrashParks` is a property of steps
  that needs less: only recovery of a row with a checkpoint or an id is in question, and
  what it writes depends on the row it read (`RecoveryParks`, `ExecutorRequeues`).
- `BudgetInv`: the submissions of a post never exceed what its row allows for, one more
  than `retry_count` once the checkpoint is written; and a process that is to decide
  about a retry still carries the row's `retry_count`.
- The refinement: every step is one of the ways a row can change (`Stepped`, proved once
  and used by the action properties as well), and each of these is a step of the contract
  or none. It needs one fact beyond `IInv`: what a row points at was never disowned.
  `OwnerSeesOnePost` then hands down the contract's own invariant.
- `CallInv`, `AgreeInv`, `SlotInv`: three layers, each with the hypothesis that it first
  needs. What a request read in its first transaction is still true in its later ones,
  because no other request is about its video, and a slot names only a video that is in
  it (`CallInv`, on either store). The slot a request writes is still free, so a video
  names only a slot that names it (`AgreeInv`: on Postgres two requests break it). A post
  keeps the time of its slot after it started, since a retry puts it back (`PostsInTime`,
  in `SlotInv`: on Postgres the worker breaks it).
- `ConnInv`: on Postgres one process at a time is between the read of the row and its
  write, and the stored token is dead only while the holder of the lock has its
  successor (`RefreshInv`). A token on its way to the row is nobody else's. On both
  stores a refresh's new token goes back to the attempt of the one it read (`OriginInv`).
- `RedeemInv`: a process that exchanges the code of an attempt took its row away, so there
  is no second such process and no later one.
- `TokenInv`: the same as `ConnInv` for the file and its lock, where a write of an
  authorization may land between, and where a torn file counts as no token.
- `LoginInv`: an account somebody is about to link has no identity, and there is one
  such login at a time, because the insert that made the account succeeded once.
- `ProvenanceInv`, `SentInv`: what a request saw when it decided the new source; what a
  worker between its read and its submission holds.
- `IntakeInv`: at each stage of `process_one`, which of the row, the slot, the post and the
  file already agree, and that they disagree only for a video whose run was cut.
  `OrderInv`: the files still to do are in the order of the rows found for their paths,
  files without one last, and a waiting file that the run has passed found no open slot
  then, and there is none now but those that were added during the run.
- `MediaInv`: at each stage of an upload, the migration and a deletion, what holds of the
  row and the object of a video nothing went wrong for (`StageInv`), and that calls which
  may still take effect (`late`) belong to the other videos only (`PlaceInv`).
- `HostedInv`: what a worker holds was due by the clock of its own slot when it was listed
  (`DueInv`), and what a worker that runs alone still owes is either on its list or
  belongs to a user who is still to come (`AloneInv`).
- The status shown is a maximum on the scale of urgency over the posts of a slot; that
  scale is a lemma over the whole table. Time moves a post down on it only if it is PENDING
  and a wall is put back, so the status of the slot falls only from one of the two that
  a wall decides (`OnlyLatenessFades`).
- `CalendarInv`: a command that is about to create a calendar found none, and commands do
  not overlap (`CreatedInv`); the foreign key relates the slot and its video both ways.
- `MonthInv`: the credits of `distribute_pillars` add up to nothing after each round, and
  none falls to minus the length of the month, as who is chosen was owed something
  (`LedgerFits`); each is then what the pillar is behind, so at the end, where all are
  multiples of the length, they are nought and every share is used up. A free date is found
  as there are fewer posts than dates, and it comes after the used ones (`DatesFill`).
  `allocate_pillars` adds up because the pillars' ranks are all different and leave no gap
  (`SharesOfWeights`). What sums over the pillars do (linear, monotone) is proved of
  their partial sums, by an induction whose statement is a set (`Induction`): a set of
  naturals without a first would contradict the library's `WFMin`.

Only model-checked:

- `EveryPostSettles` and `PublicationIsReported`: liveness under fairness, and ENABLED, are
  out of the prover's reach.
- `NoPillarWaits` for four pillars: that it holds depends on how long a month is, and no
  invariant short of listing the months explains it. `PillarsKeepUp` is what the algorithm
  guarantees for any number n of pillars, at most (n - 1) / 2 posts behind; for up to
  three that is `NoPillarWaits`.

## 5. Where the code does not do what is said of it

With a run:

- **two_commands**: `publish_video` writes a row it read as FAILED back to PENDING
  without a condition; a second command's claim or id is lost, and the video goes out
  twice.
- **slots_postgres**: `assign_slot` on Postgres reads OPEN without a lock and
  updates without a condition, so two requests can claim one slot.

Without a run, found by setting the constants of a module:

- An executor slower than the staleness threshold loses its row although
  `crash_recovery.py` says a row a running worker owns is left alone; both submissions
  become posts (`Stalls = TRUE` violates `AtMostOnePublication`).
- ADR 0016 says only the manual retry releases UNKNOWN; `publish_tiktok` polls such a row
  and writes its outcome.
- With `Overlap = TRUE` (an owner with two tabs, or one who repeats a request that has not
  answered) checks made outside the transaction they are for go wrong on either
  backend: one video in two slots (`SidesAgree`), a post for a video that was removed
  from the schedule or at the time of an earlier slot (`PostFollowsSchedule`), an attempted
  post that loses its slot (`AttemptKeepsSlot`), a scheduled video whose media is
  deleted, as it was assigned between the check of `delete_video` and the deletion of the
  object.
- The owner's retry overtakes an execution. Reconciliation of another worker parks a row
  that is still being uploaded (`reconciliation.py:170`, or `179-187` after the last
  check: its id is set and `next_status_check_at` is NULL). `retry_platform_post` looks at
  the row only (`manual_recovery.py:70-99`) and makes it due after
  `RETRY_BACKOFF_MINUTES[0]`, one minute; an upload may take 300 s. No threshold of crash
  recovery plays a part, and no crash. Without `Orderly` in the property, under
  `PlatformPost_hosted.cfg`:
  - `OneExecutor`: the next worker claims the row while the first still uploads.
  - `PendingIsClean`: the first ends its upload, finds no id and writes its own; the second
    cannot load its media and puts the row, id and all, back to PENDING. (Or the first's
    upload fails and it writes PENDING, and then the second its checkpoint.)
  - `OutcomeIsEvidence`: a poll that was asked before the retry writes PUBLISHED on the
    row, which has lost its id (`publish_tiktok.py:308`). The post exists
    (`PublishedIsReal`), but nothing on the row leads to it.
  - `PublishedIsFinal`: the first ends its upload, finds no id and writes its own
    (`publish_tiktok.py:397-403`); the second's callback replaces it.
  - with a third id: the first puts the row back to PENDING while the second uploads, a
    third submission is made, and two are outstanding although the owner's word covered
    only the first. A second post that nobody vouched for can come of it.
- `manual_recovery.py:14-17` says a FAILED post was reported so by the platform or never
  reached it, which is why no confirmation is asked for. In the same overlap a row with the
  id of a live submission is marked FAILED (`FailureIsReported` in place of the
  INVARIANTS of `PlatformPost_hosted.cfg` is violated after some 20 states).
- On Postgres a single request suffices for `AttemptKeepsSlot` and `PostFollowsSchedule`:
  the worker's claim falls between the SELECT and the writes of `unassign_slot`.
- A retryable error of a status check never looks at `STATUS_CHECK_MAX_ATTEMPTS`
  (`reconciliation.py:157`).

Seen while translating, allowed by the models as they stand:

- `publish_status.py:49-51` says it never suggests an action the API would refuse. It asks
  the lock of one post; the API asks all posts of the video (`caption_editing.py:118-119`).
  With one post of a video FAILED for its caption and another PUBLISHED, EDIT_CAPTION is
  offered and refused. `StatusIsHonest` promises of this hint only that its own post
  would take a new caption. Today only posts for TikTok are made when a slot
  is assigned, so a video rarely has two.
- SCHEDULE_MISSED turns back into SCHEDULED, with nothing written, in the hour that is
  repeated in autumn: `publish_status.py:159-177` compares naive wall-clock times.
  `OnlyLatenessIsTakenBack` says that nothing else is taken back so.
- A video that waits for a slot can be overtaken: its file was renamed (ADR 0005 says
  that is not protected), a new file stands under a path a row already has and is sorted
  by that row (`processing.py:122-123`, `content_store.py:1169-1182`, while
  `process_one` goes by the content), or a slot is added during a run that has passed it.
- `user_resolution.py` calls the `users` row of a login that stopped between its inserts
  harmless; the person of that email is locked out by it (`LockedOut`).
- A token file that was cut short is reported as no authorization at all (`LoadToken`).
- A claim looks only at PENDING: a row that another worker gave a backoff after this one
  made its list is claimed before its `next_retry_at`.
- A row that `publish_tiktok` makes for a video without a slot has no `scheduled_at` and
  is never due.
- A slot of an earlier cadence that is removed from the schedule becomes open at a time
  the cadence no longer has (`content_store.py:1475`).
- `process_content --dry-run` moves refused files and writes every stage's result; only
  the assignment is left out. A run that is cut between the claim of a slot and
  ASSIGNED takes a second slot the next time. A video whose transcription failed in fifo
  mode ends the whole run in pillar mode with the Claude classifier, which strips a
  transcript that is not there.
- `migrate_media_to_object_storage` writes the key before it verifies, and skips videos that
  have one: a mismatch it reported is not looked at again by the next run.
- `clear_calendar` can delete the event of a slot that was assigned since its list was made,
  and is then stopped by the foreign key. Slots that were generated with `--calendar`
  leave their events on that calendar when they are cleared. `--all` leaves the
  pending post of a video with its old time.

## 6. Not modelled, and the plan

`process_storage_backed_video`, which only tests call; the dry run of the hosted cycle,
which selects and changes nothing; schema creation and migration; `migrate_sqlite_to_postgres`
and the backfills, one-off commands with nothing else running; encryption, signed
addresses and the verification of sign-in tokens, which are library calls; the HTTP
wiring; the web front end, a client that holds no authoritative state; the evaluation
tools. Of the store the statements are modelled with the components that
issue them.

Left for later: a composition of assignment, publication and removal of one video end
to end; several owners in `SlotAssignment`; as a theorem, the retry budget beside people,
whose retry starts a new budget.
