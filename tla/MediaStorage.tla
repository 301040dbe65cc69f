---------------------------- MODULE MediaStorage ----------------------------
(***************************************************************************)
(* The upload of a batch of videos (api/routes/videos.py), the rows and    *)
(* objects it makes (media/media_storage.py, storage/*.py), the deletion   *)
(* of a video, and migrate_media_to_object_storage, which moves the videos *)
(* of a local installation to the object store.  The upload, the deletion  *)
(* and the migration are processes; a call to the store of objects may be  *)
(* refused, or go unanswered and take effect now, later or never, and a    *)
(* write to the database may raise.                                        *)
(***************************************************************************)
EXTENDS Naturals, Sequences, FiniteSets

CONSTANTS
    Videos,     \* the ids of videos, which are not used again
    MaxFiles,   \* files of the batch
    None

VARIABLES
    row,        \* videos
    object,     \* what is stored under the key of a video
    late,       \* videos with a put the storage has yet to carry out
    batch,      \* upload_batches
    attempts,   \* upload_attempts, one for each file so far
    request,    \* the running POST /api/videos
    deletion,   \* the running DELETE /api/videos/{id}
    migration,  \* the running migrate_media_to_object_storage
    troubled    \* history: videos a call failed for, was cut, or met a deletion

vars == <<row, object, late, batch, attempts, request, deletion, migration, troubled>>

Idle == [at |-> "idle", video |-> None]
NoRow == [status |-> "absent", key |-> FALSE, local |-> FALSE]

TypeOK ==
    /\ row \in [Videos -> [status : {"absent", "DISCOVERED", "FAILED"},
                           key : BOOLEAN, local : BOOLEAN]]
    /\ object \in [Videos -> {"none", "same", "damaged"}]
    /\ late \subseteq Videos /\ troubled \subseteq Videos
    /\ batch \in [files : 0..MaxFiles, status : {None, "STARTED", "COMPLETED"},
                  success : 0..MaxFiles, failure : 0..MaxFiles]
    /\ attempts \in Seq([status : {None, "SUCCESS", "FAILED"}, video : Videos \cup {None}])
    /\ Len(attempts) <= batch.files
    /\ request \in [at : {"idle", "next", "check", "insert", "put", "stamp", "reread",
                          "refused", "outcome"}, video : Videos \cup {None},
                    ok : BOOLEAN, success : 0..MaxFiles, failure : 0..MaxFiles]
    /\ deletion \in [at : {"idle", "object", "row"}, video : Videos \cup {None}]
    /\ migration \in [at : {"idle", "put", "stamp", "verify"}, video : Videos \cup {None},
                      left : SUBSET Videos, mismatch : BOOLEAN]

\* Some videos are there already, brought in by process_content.
Init ==
    /\ row \in [Videos -> {NoRow, [NoRow EXCEPT !.status = "DISCOVERED", !.local = TRUE]}]
    /\ object = [v \in Videos |-> "none"] /\ late = {}
    /\ batch = [files |-> 0, status |-> None, success |-> 0, failure |-> 0] /\ attempts = <<>>
    /\ request = [at |-> "idle", video |-> None, ok |-> FALSE, success |-> 0, failure |-> 0]
    /\ deletion = Idle
    /\ migration = [at |-> "idle", video |-> None, left |-> {}, mismatch |-> FALSE]
    /\ troubled = {}

Exists(v) == row[v].status # "absent"
Trouble(v) == troubled' = troubled \cup {v}
RequestTo(stage) == request' = [request EXCEPT !.at = stage]
\* An update of a row that is gone changes nothing.
UpdateVideo(v, new) == row' = IF Exists(v) THEN [row EXCEPT ![v] = new] ELSE row

-----------------------------------------------------------------------------
(* The object store.                                                       *)

\* storage.put: an upsert under the key of the video.  An answer that is lost
\* says nothing of the object, which may still come.
PutAnswered(v) == object' = [object EXCEPT ![v] = "same"] /\ UNCHANGED late
PutRefused(v) == UNCHANGED <<object, late>>
PutUnanswered(v) ==
    \/ PutRefused(v) \/ PutAnswered(v)
    \/ late' = late \cup {v} /\ UNCHANGED object

\* storage.delete: what is not there any more counts as deleted.
DeleteAnswered(v) == object' = [object EXCEPT ![v] = "none"]

StoreLate(v) ==
    /\ v \in late
    /\ late' = late \ {v} /\ object' = [object EXCEPT ![v] = "same"]
    /\ UNCHANGED <<row, batch, attempts, request, deletion, migration, troubled>>

-----------------------------------------------------------------------------
(* POST /api/videos.                                                       *)

FileNumber == Len(attempts)
CurrentVideo == request.video

StartBatch ==
    /\ request.at = "idle" /\ batch.status = None
    /\ \E n \in 1..MaxFiles :
          batch' = [files |-> n, status |-> "STARTED", success |-> 0, failure |-> 0]
    /\ RequestTo("next")
    /\ UNCHANGED <<row, object, late, attempts, deletion, migration, troubled>>

StartAttempt ==
    /\ request.at = "next" /\ FileNumber < batch.files
    /\ attempts' = Append(attempts, [status |-> None, video |-> None])
    /\ RequestTo("check")
    /\ UNCHANGED <<row, object, late, batch, deletion, migration, troubled>>

CloseAttempt(status, video) ==
    attempts' = [attempts EXCEPT ![FileNumber] = [status |-> status, video |-> video]]

RejectType ==
    /\ request.at = "check"
    /\ CloseAttempt("FAILED", None)
    /\ request' = [request EXCEPT !.at = "next", !.failure = @ + 1]
    /\ UNCHANGED <<row, object, late, batch, deletion, migration, troubled>>

\* _save_upload_to_temp and the hash of the file; the hash is read inside the
\* try of _process_one_upload.
SaveToTemp ==
    /\ request.at = "check"
    /\ \/ RequestTo("insert")
       \/ request' = [request EXCEPT !.at = "outcome", !.ok = FALSE]
    /\ UNCHANGED <<row, object, late, batch, attempts, deletion, migration, troubled>>

\* create_video_from_upload: the row is first, so that the key has its id.
InsertVideo(v) ==
    /\ request.at = "insert" /\ ~Exists(v) /\ v \notin troubled /\ object[v] = "none"
    /\ \A i \in DOMAIN attempts : attempts[i].video # v
    /\ row' = [row EXCEPT ![v] = [NoRow EXCEPT !.status = "DISCOVERED"]]
    /\ request' = [request EXCEPT !.at = "put", !.video = v]
    /\ UNCHANGED <<object, late, batch, attempts, deletion, migration, troubled>>

PutObject ==
    /\ request.at = "put"
    /\ \/ PutAnswered(CurrentVideo) /\ RequestTo("stamp") /\ UNCHANGED troubled
       \/ PutRefused(CurrentVideo) /\ RequestTo("refused") /\ UNCHANGED troubled
       \/ PutUnanswered(CurrentVideo) /\ RequestTo("refused") /\ Trouble(CurrentVideo)
    /\ UNCHANGED <<row, batch, attempts, deletion, migration>>

MarkFailed ==
    /\ request.at = "refused"
    /\ \/ UpdateVideo(CurrentVideo, [row[CurrentVideo] EXCEPT !.status = "FAILED"])
          /\ UNCHANGED troubled
       \/ UNCHANGED row /\ Trouble(CurrentVideo)
    /\ request' = [request EXCEPT !.at = "outcome", !.ok = FALSE]
    /\ UNCHANGED <<object, late, batch, attempts, deletion, migration>>

\* The key on the row before the object is there.
FaultStampFirst ==
    \/ /\ request.at = "put" /\ ~row[CurrentVideo].key
       /\ UpdateVideo(CurrentVideo, [row[CurrentVideo] EXCEPT !.key = TRUE])
       /\ UNCHANGED <<object, late, batch, attempts, request, deletion, migration, troubled>>
    \/ /\ request.at = "stamp" /\ RequestTo("reread")
       /\ UNCHANGED <<row, object, late, batch, attempts, deletion, migration, troubled>>

StampKey ==
    /\ request.at = "stamp"
    /\ \/ UpdateVideo(CurrentVideo, [row[CurrentVideo] EXCEPT !.key = TRUE])
          /\ RequestTo("reread") /\ UNCHANGED troubled
       \/ /\ request' = [request EXCEPT !.at = "outcome", !.ok = FALSE]
          /\ UNCHANGED row /\ Trouble(CurrentVideo)
    /\ UNCHANGED <<object, late, batch, attempts, deletion, migration>>

\* get_video and _to_video_response: of a row that is gone, or that cannot be
\* read, the file is reported as failed whatever was stored.
RereadVideo ==
    /\ request.at = "reread"
    /\ \E ok \in {Exists(CurrentVideo), FALSE} :
          request' = [request EXCEPT !.at = "outcome", !.ok = ok]
    /\ UNCHANGED <<row, object, late, batch, attempts, deletion, migration, troubled>>

FinishFile ==
    /\ request.at = "outcome"
    /\ CloseAttempt(IF request.ok THEN "SUCCESS" ELSE "FAILED",
                    IF request.ok /\ Exists(CurrentVideo) THEN CurrentVideo ELSE None)
    /\ request' = [at |-> "next", video |-> None, ok |-> FALSE,
                   success |-> request.success + (IF request.ok THEN 1 ELSE 0),
                   failure |-> request.failure + (IF request.ok THEN 0 ELSE 1)]
    /\ UNCHANGED <<row, object, late, batch, deletion, migration, troubled>>

EndRequest == request' = [at |-> "idle", video |-> None, ok |-> FALSE, success |-> 0, failure |-> 0]

\* _record_batch_completion, whose own failure is swallowed.
CompleteBatch ==
    /\ request.at = "next" /\ FileNumber = batch.files
    /\ batch' \in {batch, [batch EXCEPT !.status = "COMPLETED", !.success = request.success,
                                        !.failure = request.failure]}
    /\ EndRequest
    /\ UNCHANGED <<row, object, late, attempts, deletion, migration, troubled>>

\* A write to upload_batches or upload_attempts raises, or the process dies:
\* the rest of the batch is not attempted.
AbortRequest ==
    /\ request.at # "idle"
    /\ EndRequest
    /\ IF request.at \in {"put", "stamp", "refused"} THEN Trouble(CurrentVideo)
       ELSE UNCHANGED troubled
    /\ UNCHANGED <<row, object, late, batch, attempts, deletion, migration>>

-----------------------------------------------------------------------------
(* DELETE /api/videos/{id}.                                                *)

InUpload(v) == request.video = v \/ migration.video = v

\* _get_owned_video, and the checks of its references, which SlotAssignment has.
StartDeletion(v) ==
    /\ deletion.at = "idle" /\ Exists(v)
    /\ deletion' = [at |-> IF row[v].key THEN "object" ELSE "row", video |-> v]
    /\ IF InUpload(v) THEN Trouble(v) ELSE UNCHANGED troubled
    /\ UNCHANGED <<row, object, late, batch, attempts, request, migration>>

DeleteObject ==
    /\ deletion.at = "object"
    /\ \/ /\ DeleteAnswered(deletion.video)
          /\ deletion' = [deletion EXCEPT !.at = "row"] /\ UNCHANGED troubled
       \/ /\ DeleteAnswered(deletion.video) \/ UNCHANGED object
          /\ deletion' = Idle /\ Trouble(deletion.video)
    /\ UNCHANGED <<row, late, batch, attempts, request, migration>>

DeleteRow ==
    /\ deletion.at = "row"
    /\ row' = [row EXCEPT ![deletion.video] = NoRow]
    /\ attempts' = [i \in DOMAIN attempts |->
                       IF attempts[i].video = deletion.video
                       THEN [attempts[i] EXCEPT !.video = None] ELSE attempts[i]]
    /\ deletion' = Idle
    /\ UNCHANGED <<object, late, batch, request, migration, troubled>>

DeletionDies ==
    /\ deletion.at # "idle"
    /\ deletion' = Idle /\ Trouble(deletion.video)
    /\ UNCHANGED <<row, object, late, batch, attempts, request, migration>>

-----------------------------------------------------------------------------
(* migrate_media_to_object_storage.                                        *)

\* migrate_media: the local videos that have no key yet.
StartMigration ==
    /\ migration.at = "idle" /\ \E v \in Videos : row[v].local
    /\ migration' = [at |-> "put", video |-> None, mismatch |-> FALSE,
                     left |-> {v \in Videos : row[v].local /\ ~row[v].key}]
    /\ UNCHANGED <<row, object, late, batch, attempts, request, deletion, troubled>>

EndMigration ==
    /\ migration.at = "put" /\ migration.left = {}
    /\ migration' = [migration EXCEPT !.at = "idle", !.mismatch = FALSE]
    /\ UNCHANGED <<row, object, late, batch, attempts, request, deletion, troubled>>

StopMigration(v) ==
    /\ migration' = [at |-> "idle", video |-> None, left |-> {}, mismatch |-> FALSE]
    /\ Trouble(v)

\* upload_canonical_media: _get_owned_video, then the put.  A failure ends the
\* command.
MigrateObject(v) ==
    /\ migration.at = "put" /\ v \in migration.left
    /\ \/ /\ object' \in {[object EXCEPT ![v] = "same"], [object EXCEPT ![v] = "damaged"]}
          /\ Exists(v)
          /\ migration' = [migration EXCEPT !.at = "stamp", !.video = v,
                                            !.left = @ \ {v}]
          /\ IF deletion.video = v THEN Trouble(v) ELSE UNCHANGED troubled
          /\ UNCHANGED late
       \/ PutUnanswered(v) /\ StopMigration(v)
    /\ UNCHANGED <<row, batch, attempts, request, deletion>>

MigrateStamp ==
    /\ migration.at = "stamp"
    /\ UpdateVideo(migration.video, [row[migration.video] EXCEPT !.key = TRUE])
    /\ migration' = [migration EXCEPT !.at = "verify"]
    /\ UNCHANGED <<object, late, batch, attempts, request, deletion, troubled>>

\* storage.materialize, which raises if there is no object, and the two hashes.
MigrateVerify ==
    /\ migration.at = "verify" /\ object[migration.video] # "none"
    /\ migration' = [migration EXCEPT !.at = "put", !.video = None,
                                      !.mismatch = @ \/ object[migration.video] # "same"]
    /\ UNCHANGED <<row, object, late, batch, attempts, request, deletion, troubled>>

MigrationDies ==
    /\ migration.at \in {"stamp", "verify"}
    /\ StopMigration(migration.video)
    /\ UNCHANGED <<row, object, late, batch, attempts, request, deletion>>

-----------------------------------------------------------------------------
UploadStep ==
    \/ StartBatch \/ StartAttempt \/ RejectType \/ SaveToTemp \/ (\E v \in Videos : InsertVideo(v))
    \/ PutObject \/ MarkFailed \/ StampKey \/ RereadVideo \/ FinishFile \/ CompleteBatch
    \/ AbortRequest
DeletionStep ==
    (\E v \in Videos : StartDeletion(v)) \/ DeleteObject \/ DeleteRow \/ DeletionDies
MigrationStep ==
    \/ StartMigration \/ EndMigration \/ (\E v \in Videos : MigrateObject(v))
    \/ MigrateStamp \/ MigrateVerify \/ MigrationDies

Next == UploadStep \/ DeletionStep \/ MigrationStep \/ (\E v \in Videos : StoreLate(v))

Spec == Init /\ [][Next]_vars

-----------------------------------------------------------------------------
\* Where no call failed and nothing was cut, a row names an object exactly when
\* it is there: no video without its media, no media without its video.
Busy(v) == InUpload(v) \/ deletion.video = v
MediaMatchesRows ==
    \A v \in Videos : (v \in troubled \/ Busy(v)) \/ (row[v].key <=> object[v] # "none")
=============================================================================
