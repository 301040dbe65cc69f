--------------------------- MODULE PublishStatus ---------------------------
(***************************************************************************)
(* What the owner is shown of a slot: publishing/publish_status.py, with   *)
(* the failures explained by publishing/failure_taxonomy.py and            *)
(* tiktok/failure_codes.py, and the retries of                             *)
(* scheduling/retry_classification.py.  Between two writes of a row only   *)
(* the clock moves: it is read as UTC, which goes forward, or as the wall  *)
(* of a zone, which is put back when summer time ends.                     *)
(***************************************************************************)
EXTENDS Integers, FiniteSets

CONSTANTS
    Platforms,   \* the platforms a video is posted to
    Offset,      \* [zone -> [time -> UTC offset]], for 0..MaxTime
    ConfigZone,  \* TIMEZONE
    Schedule,    \* the times on a wall that slots and retries are set for
    Grace,       \* PUBLISH_OVERDUE_GRACE_MINUTES
    StaleAfter,  \* PLATFORM_POST_STALE_MINUTES
    MaxTime,
    None

VARIABLES
    slot,   \* its status ("odd": one that contradicts itself), time and zone
    posts,  \* the rows of the assigned video; a platform may have none
    clock

vars == <<slot, posts, clock>>

Zones == DOMAIN Offset
\* _local_now, without the date and the zone.
Wall(zone) == clock + Offset[zone][clock]
SlotZone == IF slot.zone = None THEN ConfigZone ELSE slot.zone

-----------------------------------------------------------------------------
(* Codes.                                                                  *)

\* _SHARED_CODE_CATEGORIES, TIKTOK_FAILURE_CATEGORIES, by category.
CodesOf == [
    AUTH_REQUIRED |-> {"REAUTHORIZATION_REQUIRED", "AUTH_ERROR", "CREDENTIAL_UNAVAILABLE",
        "access_token_invalid", "scope_not_authorized", "scope_permission_missed", "auth_removed"},
    CAPTION_INVALID |-> {"CAPTION_TOO_LONG", "CAPTION_MISSING", "spam_risk_text"},
    MEDIA_INVALID |-> {"CORRUPT_MEDIA", "VIDEO_TOO_LONG", "MEDIA_INCOMPATIBLE", "NO_AUDIO_STREAM",
        "UNSUPPORTED_CODEC", "file_format_check_failed", "duration_check_failed",
        "frame_rate_check_failed", "picture_size_check_failed"},
    MEDIA_UNAVAILABLE |-> {"LOCAL_FILE_MISSING", "STORAGE_UNAVAILABLE", "STORAGE_NETWORK_ERROR",
        "STORAGE_HTTP_ERROR", "STORAGE_OBJECT_MISSING", "MEDIA_OWNERSHIP_MISMATCH"},
    PLATFORM_REJECTED |-> {"SELF_ONLY_UNAVAILABLE", "UNSUPPORTED_PRIVACY_LEVEL",
        "UNAUDITED_CLIENT_PRIVACY_RESTRICTION", "PLATFORM_REPORTED_FAILURE",
        "spam_risk_user_banned_from_posting", "reached_active_user_cap",
        "unaudited_client_can_only_post_to_private_accounts", "privacy_level_option_mismatch",
        "spam_risk", "publish_cancelled"},
    RATE_LIMITED |-> {"rate_limit_exceeded", "spam_risk_too_many_posts",
        "spam_risk_too_many_pending_share"},
    TEMPORARY_PLATFORM_ERROR |-> {"AUTH_HTTP_ERROR", "MALFORMED_RESPONSE",
        "CREDENTIAL_REFRESH_BUSY", "SUBMISSION_INTERRUPTED", "UPLOAD_FAILED", "internal_error",
        "video_pull_failed", "internal"},
    NETWORK_ERROR |-> {"NETWORK_ERROR", "UPLOAD_NETWORK_ERROR"}]

Known == UNION {CodesOf[category] : category \in DOMAIN CodesOf}
\* Raised or stored, and left unlisted on purpose.
Unlisted == {"HTTP_ERROR", "PUBLISH_FAILED", "TIKTOK_API_ERROR", "PRECONDITION_FAILED", None}
Codes == Known \cup Unlisted

CategorizeFailure(code) ==
    IF code \notin Known THEN "UNKNOWN_ERROR"
    ELSE CHOOSE category \in DOMAIN CodesOf : code \in CodesOf[category]

\* _CATEGORY_COPY: what the owner is asked to do.
ActionHint(code) ==
    LET category == CategorizeFailure(code)
    IN  CASE category = "AUTH_REQUIRED" -> "RECONNECT_ACCOUNT"
          [] category = "CAPTION_INVALID" -> "EDIT_CAPTION"
          [] category \in {"RATE_LIMITED", "TEMPORARY_PLATFORM_ERROR", "NETWORK_ERROR"} ->
                "TRY_AGAIN_LATER"
          [] OTHER -> None

\* retry_classification.is_retryable; the status of the answer decides for a
\* code in neither list.
Retryable == {"NETWORK_ERROR", "UPLOAD_NETWORK_ERROR", "STORAGE_NETWORK_ERROR",
              "CREDENTIAL_REFRESH_BUSY"}
Terminal == {"LOCAL_FILE_MISSING", "CAPTION_TOO_LONG", "CORRUPT_MEDIA", "VIDEO_TOO_LONG",
             "SELF_ONLY_UNAVAILABLE", "UNSUPPORTED_PRIVACY_LEVEL",
             "UNAUDITED_CLIENT_PRIVACY_RESTRICTION", "AUTH_ERROR", "REAUTHORIZATION_REQUIRED"}
IsRetryable(code, serverError) == code \in Retryable \/ (code \notin Terminal /\ serverError)

-----------------------------------------------------------------------------
(* Rows.                                                                   *)

\* next: next_retry_at, on the wall of TIMEZONE; progress: the last progress of a
\* post without an id, the next status check of one that has an id, as UTC.
Facts == [status : {"PENDING", "PUBLISHING", "PUBLISHED", "FAILED", "UNKNOWN", "odd"},
          id : BOOLEAN, code : Codes, retried : BOOLEAN,
          next : Schedule \cup {None}, progress : 0..MaxTime]

\* The rows the program can hold: a code is there after a failure, and a row
\* that waits for a retry had one, with a code that is retried.  Times that are
\* not looked at are left out.
Possible(post) ==
    /\ post.status \in {"PENDING", "odd"} => ~post.id
    /\ post.next # None => post.status = "PENDING"
    /\ post.retried => /\ post.next # None /\ post.code # None
                       /\ \E e \in BOOLEAN : IsRetryable(post.code, e)
    /\ ~post.retried /\ post.status \notin {"FAILED", "UNKNOWN"} => post.code = None
    /\ post.status # "PUBLISHING" => post.progress = 0

Rows == {post \in Facts : Possible(post)}

TypeOK ==
    /\ slot \in [status : {"open", "assigned", "odd"}, due : Schedule, zone : Zones \cup {None}]
    /\ \A platform \in DOMAIN posts : posts[platform] \in Rows
    /\ clock \in 0..MaxTime

\* A few codes stand for their categories where two posts are looked at.
Sample == {"REAUTHORIZATION_REQUIRED", "CAPTION_TOO_LONG", "CREDENTIAL_REFRESH_BUSY", None}
Init ==
    /\ slot \in [status : {"open", "assigned", "odd"}, due : Schedule, zone : Zones \cup {None}]
    /\ \/ posts = [platform \in {} |-> None]
       \/ /\ slot.status = "assigned"
          /\ \/ \E platform \in Platforms : posts \in [{platform} -> Rows]
             \/ posts \in [Platforms -> {post \in Rows : post.code \in Sample}]
    /\ clock \in 0..MaxTime

\* The owner looks again later.
Elapse ==
    /\ \E later \in clock + 1 .. MaxTime : clock' = later
    /\ UNCHANGED <<slot, posts>>

Next == Elapse

Spec == Init /\ [][Next]_vars

-----------------------------------------------------------------------------
(* publish_status.py.                                                      *)

PostCanRetry(post) == post.status \in {"FAILED", "UNKNOWN"}
PostLocksCaption(post) == post.status \in {"PUBLISHING", "PUBLISHED"} \/ post.id

\* The API refuses an edit of the caption by all the posts of the video.
IsCaptionLocked == \E platform \in DOMAIN posts : PostLocksCaption(posts[platform])

Overdue == slot.due + Grace < Wall(SlotZone)
RetryPending(post) == post.next # None /\ post.next > Wall(ConfigZone)

\* The wall of the slot's zone instead of UTC.
FaultStale(post) == post.status = "PUBLISHING" /\ post.progress + StaleAfter < Wall(SlotZone)

Stale(post) == post.status = "PUBLISHING" /\ post.progress + StaleAfter < clock

Shown(display, hint) == [display |-> display, hint |-> hint]
Attention == Shown("NEEDS_ATTENTION", None)

\* resolve_publication_status.
ResolvePublicationStatus(post) ==
    CASE post.status = "PENDING" ->
            IF Overdue /\ ~RetryPending(post) THEN Attention ELSE Shown("SCHEDULED", None)
      [] post.status = "PUBLISHING" -> IF Stale(post) THEN Attention ELSE Shown("PUBLISHING", None)
      [] post.status = "PUBLISHED" -> IF post.id THEN Shown("PUBLISHED", None) ELSE Attention
      [] post.status = "FAILED" ->
            Shown("FAILED", IF ActionHint(post.code) = "EDIT_CAPTION" /\ PostLocksCaption(post)
                            THEN None ELSE ActionHint(post.code))
      [] post.status = "UNKNOWN" ->
            Shown("NEEDS_ATTENTION", IF CategorizeFailure(post.code) = "AUTH_REQUIRED"
                                     THEN "RECONNECT_ACCOUNT" ELSE None)
      [] OTHER -> Attention

\* _URGENCY.
Urgency == [display \in {"NEEDS_ATTENTION", "FAILED", "PUBLISHING", "SCHEDULED", "PUBLISHED"} |->
    CASE display = "NEEDS_ATTENTION" -> 5 [] display = "FAILED" -> 4
      [] display = "PUBLISHING" -> 3 [] display = "SCHEDULED" -> 2 [] OTHER -> 1]

Publications == {ResolvePublicationStatus(posts[platform]) : platform \in DOMAIN posts}

\* The least urgent post decides.
FaultSlotDisplay ==
    IF slot.status = "open" THEN "OPEN"
    ELSE IF slot.status = "odd" \/ DOMAIN posts = {} THEN "NEEDS_ATTENTION"
    ELSE CHOOSE display \in DOMAIN Urgency :
            /\ \E p \in Publications : p.display = display
            /\ \A p \in Publications : Urgency[p.display] >= Urgency[display]

\* resolve_slot_publish_status: the most urgent post decides.
SlotDisplay ==
    IF slot.status = "open" THEN "OPEN"
    ELSE IF slot.status = "odd" \/ DOMAIN posts = {} THEN "NEEDS_ATTENTION"
    ELSE CHOOSE display \in DOMAIN Urgency :
            /\ \E p \in Publications : p.display = display
            /\ \A p \in Publications : Urgency[p.display] <= Urgency[display]

CanUnassign ==
    slot.status = "assigned" /\ \A platform \in DOMAIN posts : posts[platform].status = "PENDING"
CanRetry ==
    slot.status = "assigned" /\ \E platform \in DOMAIN posts : PostCanRetry(posts[platform])

-----------------------------------------------------------------------------
\* PUBLISHED is shown of a slot only if every platform confirmed it; a post
\* that stands still without the owner, or that failed, is never hidden behind
\* another; a slot is not offered to be emptied and to be retried at once; and an
\* edit of the caption that is offered is one the API makes, unless another post
\* of the video has been sent.
NothingIsHidden ==
    slot.status = "assigned" =>
        /\ SlotDisplay = "PUBLISHED" =>
              /\ DOMAIN posts # {}
              /\ \A platform \in DOMAIN posts :
                    posts[platform].status = "PUBLISHED" /\ posts[platform].id
        /\ (\E platform \in DOMAIN posts :
                PostCanRetry(posts[platform]) \/ Stale(posts[platform]))
              => SlotDisplay \in {"NEEDS_ATTENTION", "FAILED"}
        /\ CanRetry => ~CanUnassign
        /\ \A platform \in DOMAIN posts :
              ResolvePublicationStatus(posts[platform]).hint = "EDIT_CAPTION" /\ IsCaptionLocked
                  => \E other \in DOMAIN posts \ {platform} : PostLocksCaption(posts[other])

\* The owner is never asked to reconnect or to edit for a failure that the
\* worker retries by itself without an answer from the server, and is asked to
\* reconnect wherever a lost login is why it does not.
RetriesAskNobody ==
    \A platform \in DOMAIN posts :
        LET code == posts[platform].code
        IN  /\ IsRetryable(code, FALSE) =>
                  ActionHint(code) \notin {"RECONNECT_ACCOUNT", "EDIT_CAPTION"}
            /\ code \in {"AUTH_ERROR", "REAUTHORIZATION_REQUIRED"} =>
                  ActionHint(code) = "RECONNECT_ACCOUNT" /\ ~IsRetryable(code, TRUE)

\* While nothing is written, what a slot shows becomes more reassuring only
\* where a wall is put back, and only if what it announced is a post that is still
\* PENDING: a failure, a lost outcome or a missing progress is not taken back by
\* any clock.
OnlyLatenessIsTakenBack ==
    [][slot.status = "assigned" /\ DOMAIN posts # {} /\ Urgency[SlotDisplay'] < Urgency[SlotDisplay]
          => /\ \E zone \in {SlotZone, ConfigZone} : Wall(zone)' < Wall(zone)
             /\ \A platform \in DOMAIN posts :
                   ResolvePublicationStatus(posts[platform]).display = SlotDisplay
                      => posts[platform].status = "PENDING"]_vars
=============================================================================
