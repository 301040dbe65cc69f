------------------------------ MODULE Captions ------------------------------
(***************************************************************************)
(* The caption of a hosted video: saved, cleared and generated by requests *)
(* of its owner (api/routes/captions.py, media/caption_editing.py), and    *)
(* read by the worker when it executes the video's claimed post.  A        *)
(* request reads the video, then the posts, then writes; the worker reads  *)
(* the video after its claim and sends the caption it read.                *)
(***************************************************************************)
EXTENDS Naturals, FiniteSets

CONSTANTS
    Requests,
    Texts,      \* what an owner can type; some of it what the generator makes
    Generated,  \* the text the generator makes of the transcript, if there is one
    None

VARIABLES
    video,    \* the row: caption_text, caption_source, and video_hashtags
    post,     \* platform_posts: the status, whether it has an id
    worker,   \* what the worker that claimed the post is at, the caption it read
    req,      \* the requests, and what each saw; clear: of the posts
    sent,     \* history: the caption of the last submission
    raced     \* history: a write whose check of the lock was out of date

vars == <<video, post, worker, req, sent, raced>>

Sources == {None, "transcript_auto", "transcript_auto_edited", "manual", "none"}
Captions == Texts \cup {Generated, None}
\* The hashtags stand for the text they were extracted from.
Row == [text : Captions, source : Sources, hashtags : Captions]
NoRequest == [at |-> "idle", kind |-> "save", seen |-> [text |-> None, source |-> None],
              new |-> None, clear |-> FALSE]

TypeOK ==
    /\ video \in Row
    /\ post \in [status : {"PENDING", "PUBLISHING", "PUBLISHED", "FAILED", "UNKNOWN"}, id : BOOLEAN]
    /\ worker \in [at : {"idle", "read", "send"}, caption : Captions]
    /\ req \in [Requests -> [at : {"idle", "check", "write"}, kind : {"save", "generate"},
                             seen : [text : Captions, source : Sources], new : Captions,
                         clear : BOOLEAN]]
    /\ sent \in Captions \cup {"nothing"} /\ raced \in BOOLEAN

\* A video as the upload leaves it, or as process_content does.
Init ==
    /\ video \in {[text |-> None, source |-> None, hashtags |-> None],
                  [text |-> None, source |-> "none", hashtags |-> None],
                  [text |-> Generated, source |-> "transcript_auto", hashtags |-> Generated]}
    /\ post = [status |-> "PENDING", id |-> FALSE]
    /\ worker = [at |-> "idle", caption |-> None]
    /\ req = [r \in Requests |-> NoRequest]
    /\ sent = "nothing" /\ raced = FALSE

\* post_locks_caption.
Locked == post.status \in {"PUBLISHING", "PUBLISHED"} \/ post.id

\* _generated_base.
GeneratedBase(source) == source \in {"transcript_auto", "transcript_auto_edited"}

\* Text that was changed and still counts as the generator's.
FaultSourceAfterEdit(source, old, new) ==
    IF new = old \/ GeneratedBase(source) THEN source ELSE "manual"

SourceAfterManualEdit(source, old, new) ==
    CASE new = old -> source
      [] new # old /\ new # None /\ GeneratedBase(source) -> "transcript_auto_edited"
      [] OTHER -> "manual"

\* caption_provenance: what the owner is told.
Provenance ==
    CASE video.text = None -> "NONE"
      [] video.text # None /\ video.source = "transcript_auto" -> "GENERATED"
      [] video.text # None /\ video.source = "transcript_auto_edited" -> "GENERATED_EDITED"
      [] OTHER -> "MANUAL"

-----------------------------------------------------------------------------
(* Requests.                                                               *)

\* update_caption, generate_caption: _get_owned_video.
ReadVideo(r) ==
    /\ req[r].at = "idle"
    /\ \E kind \in {"save", "generate"}, new \in Texts \cup {None} :
          req' = [req EXCEPT ![r] = [at |-> "check", kind |-> kind,
                     seen |-> [text |-> video.text, source |-> video.source],
                     new |-> IF kind = "generate" THEN Generated ELSE new, clear |-> FALSE]]
    /\ UNCHANGED <<video, post, worker, sent, raced>>

\* The request that does not look at the posts.
FaultCheckNothing(r) ==
    /\ req[r].at = "check"
    /\ req' = [req EXCEPT ![r].at = "write", ![r].clear = ~Locked]
    /\ UNCHANGED <<video, post, worker, sent, raced>>

\* is_caption_locked; generating asks before it replaces a caption, and needs
\* a transcript.
CheckLock(r) ==
    /\ req[r].at = "check"
    /\ \E overwrite \in BOOLEAN :
          LET refused == \/ Locked
                         \/ /\ req[r].kind = "generate"
                            /\ (req[r].seen.text # None /\ ~overwrite) \/ Generated = None
          IN  req' = [req EXCEPT ![r] = IF refused THEN NoRequest
                                      ELSE [@ EXCEPT !.at = "write", !.clear = ~Locked]]
    /\ UNCHANGED <<video, post, worker, sent, raced>>

\* set_video_caption: the text, its source and its hashtags in one transaction;
\* a save that changes neither writes nothing.
WriteCaption(r) ==
    LET new == req[r].new
        seen == req[r].seen
        source == IF req[r].kind = "generate" THEN "transcript_auto"
                  ELSE SourceAfterManualEdit(seen.source, seen.text, new)
        same == req[r].kind = "save" /\ new = seen.text /\ source = seen.source
    IN  /\ req[r].at = "write"
        /\ video' = IF same THEN video ELSE [text |-> new, source |-> source, hashtags |-> new]
        /\ raced' = (raced \/ (Locked /\ req[r].clear /\ ~same))
        /\ req' = [req EXCEPT ![r] = NoRequest]
        /\ UNCHANGED <<post, worker, sent>>

\* The process of the API dies, or the caller is gone.
RequestDies(r) ==
    /\ req[r].at # "idle"
    /\ req' = [req EXCEPT ![r] = NoRequest]
    /\ UNCHANGED <<video, post, worker, sent, raced>>

-----------------------------------------------------------------------------
(* The post, as the worker, recovery and the owner's retry change it.      *)

Claim ==
    /\ post.status = "PENDING"
    /\ post' = [post EXCEPT !.status = "PUBLISHING"]
    /\ worker' = [worker EXCEPT !.at = "read"]
    /\ UNCHANGED <<video, req, sent, raced>>

\* execute_claimed_platform_post reads the video; its caption is resolved from
\* that row.
ReadCaption ==
    /\ worker.at = "read"
    /\ worker' = [at |-> "send", caption |-> video.text]
    /\ UNCHANGED <<video, post, req, sent, raced>>

\* The publisher sends the caption; the post has an id then, or is parked.
Submit ==
    /\ worker.at = "send"
    /\ sent' = worker.caption
    /\ post' \in {[status |-> "PUBLISHING", id |-> TRUE], [status |-> "UNKNOWN", id |-> FALSE]}
    /\ worker' = [at |-> "idle", caption |-> None]
    /\ raced' = (raced /\ worker.caption # video.text)
    /\ UNCHANGED <<video, req>>

\* Nothing was submitted: retried later, failed, or requeued after a crash.
NotSubmitted ==
    /\ worker.at # "idle"
    /\ post' \in {[status |-> "PENDING", id |-> FALSE], [status |-> "FAILED", id |-> FALSE]}
    /\ worker' = [at |-> "idle", caption |-> None]
    /\ UNCHANGED <<video, req, sent, raced>>

\* A status check, which may give up.
Settle ==
    /\ post.status = "PUBLISHING" /\ post.id
    /\ \E outcome \in {"PUBLISHED", "FAILED", "UNKNOWN"} : post' = [post EXCEPT !.status = outcome]
    /\ UNCHANGED <<video, worker, req, sent, raced>>

\* manual_recovery.retry_platform_post.
Retry ==
    /\ post.status \in {"FAILED", "UNKNOWN"} /\ worker.at = "idle"
    /\ post' = IF post.status = "UNKNOWN" /\ post.id
               THEN [post EXCEPT !.status = "PUBLISHING"]
               ELSE [status |-> "PENDING", id |-> FALSE]
    /\ UNCHANGED <<video, worker, req, sent, raced>>

-----------------------------------------------------------------------------
RequestStep(r) == ReadVideo(r) \/ CheckLock(r) \/ WriteCaption(r) \/ RequestDies(r)
PostStep == Claim \/ ReadCaption \/ Submit \/ NotSubmitted \/ Settle \/ Retry
Next == (\E r \in Requests : RequestStep(r)) \/ PostStep

Spec == Init /\ [][Next]_vars

-----------------------------------------------------------------------------
\* What was published is what the video says, unless a request that had seen
\* the caption unlocked wrote it after the claim.
PublishedCaptionIsShown == post.status = "PUBLISHED" /\ ~raced => sent = video.text

\* GENERATED is said only of the generator's own text, whatever the requests
\* that interleave saw of each other; and the hashtags are the text's.
ProvenanceIsTrue ==
    /\ Provenance = "GENERATED" => video.text = Generated
    /\ video.hashtags = video.text
=============================================================================
