--------------------------- MODULE SlotAssignment ---------------------------
(***************************************************************************)
(* The schedule of one user: which video is to be posted in which slot.    *)
(* The same fact is kept in three tables, and every request changes more   *)
(* than one of them:                                                       *)
(*                                                                         *)
(*   slot   content_slots.status, assigned_video_id, scheduled_at          *)
(*   video  videos.assigned_slot_id, and the stored media                  *)
(*   post   platform_posts: whether one exists, and its scheduled_at       *)
(*                                                                         *)
(* All times are in the future, and the slot of a published video is kept  *)
(* like any other.  Requests run concurrently.  On SQLite a transaction of *)
(* the store is BEGIN IMMEDIATE and one step (Serialized); on Postgres it  *)
(* runs at READ COMMITTED, so every SELECT of it is a step of its own and  *)
(* only its writes, which lock their rows until the commit, are one step.  *)
(* Between two calls of the store a request can be interrupted, or die.    *)
(*                                                                         *)
(* The publishing of a post (module PlatformPost) is abstracted to what    *)
(* the requests look at: PENDING, or anything else ("STARTED").            *)
(***************************************************************************)
EXTENDS Naturals, FiniteSets

CONSTANTS
    Slots,        \* the row ids content_slots can give out
    Times,        \* the posting times inside the generation horizon
    Videos, Requests,
    None,         \* SQL NULL
    Serialized,   \* the backend is SQLite
    Overlap       \* can two requests about the same video overlap?

ASSUME SlotAssignmentAssumption ==
    /\ None \notin Slots \cup Times \cup Videos
    /\ Serialized \in BOOLEAN /\ Overlap \in BOOLEAN

VARIABLES
    slot, video, post,
    cadence,   \* the times of the saved cadence, as generate_slot_datetimes expands them
    req        \* the local state of every request

vars == <<slot, video, post, cadence, req>>

\* assigned_video_id is set in the ASSIGNED slots and in no other.
Slot == [status : {"ABSENT", "DELETED"}, video : {None}, time : Times \cup {None}]
          \cup [status : {"OPEN"}, video : {None}, time : Times]
          \cup [status : {"ASSIGNED"}, video : Videos, time : Times]
Video == [stored : BOOLEAN, media : BOOLEAN, slot : Slots \cup {None}]
Post == [status : {"ABSENT", "PENDING", "STARTED"}, time : Times \cup {None}]
NoPost == [status |-> "ABSENT", time |-> None]

Request == [at : {"idle", "assign", "claim", "materialize", "unassign_posts",
                  "unassign_write", "delete_posts", "delete_media", "delete_row"},
            video : Videos \cup {None}, slot : Slots \cup {None}]
Done == [at |-> "idle", video |-> None, slot |-> None]

Exists(s) == slot[s].status \in {"OPEN", "ASSIGNED"}

Init ==
    /\ slot = [s \in Slots |-> [status |-> "ABSENT", video |-> None, time |-> None]]
    /\ video = [v \in Videos |-> [stored |-> TRUE, media |-> TRUE, slot |-> None]]
    /\ post = [v \in Videos |-> NoPost]
    /\ cadence = {}
    /\ req = [r \in Requests |-> Done]

Step(r, next) == req' = [req EXCEPT ![r] = next]
End(r) == Step(r, Done)

\* Nobody else is at work on v, unless requests may overlap.
MayStart(v) == Overlap \/ \A r \in Requests : req[r].video # v

-----------------------------------------------------------------------------
(***************************************************************************)
(* PUT /cadence.                                                           *)
(***************************************************************************)

\* Fault: the reconciliation drops assigned slots as well.
SaveCadenceDroppingAssigned(times) ==
    /\ \E ids \in [times -> {s \in Slots : slot[s].status = "ABSENT"}] :
          /\ \A t, u \in times : ids[t] = ids[u] => t = u
          /\ slot' = [s \in Slots |->
                CASE \E t \in times : ids[t] = s ->
                        [status |-> "OPEN", video |-> None,
                         time |-> CHOOSE t \in times : ids[t] = s]
                  [] Exists(s) -> [slot[s] EXCEPT !.status = "DELETED", !.video = None]
                  [] OTHER -> slot[s]]
    /\ cadence' = times
    /\ UNCHANGED <<video, post, req>>

\* save_cadence_and_regenerate_slots, one transaction: the open slots go, and
\* every time of the new cadence that no remaining slot holds gets a new one
\* (the insert ignores the UNIQUE conflict with an assigned slot).
SaveCadence(times) ==
    LET kept == {s \in Slots : slot[s].status = "ASSIGNED"}
        new == times \ {slot[s].time : s \in kept}
        unused == {s \in Slots : slot[s].status = "ABSENT"}
    IN /\ \E ids \in [new -> unused] :
             /\ \A t, u \in new : ids[t] = ids[u] => t = u
             /\ slot' = [s \in Slots |->
                   CASE \E t \in new : ids[t] = s ->
                           [status |-> "OPEN", video |-> None,
                            time |-> CHOOSE t \in new : ids[t] = s]
                     [] slot[s].status = "OPEN" -> [slot[s] EXCEPT !.status = "DELETED"]
                     [] OTHER -> slot[s]]
       /\ cadence' = times
       /\ UNCHANGED <<video, post, req>>

-----------------------------------------------------------------------------
(***************************************************************************)
(* POST queue/slots/{id}/assign and queue/assign-next.                     *)
(***************************************************************************)

\* assign_video_to_slot looks at the video before the transaction.  The slot is
\* one the person chose, or the earliest open one: it existed when it was read.
AssignStart(r, v, s) ==
    /\ req[r] = Done /\ MayStart(v)
    /\ video[v].stored /\ video[v].slot = None /\ Exists(s)
    /\ Step(r, [at |-> "assign", video |-> v, slot |-> s])
    /\ UNCHANGED <<slot, video, post, cadence>>

\* The UPDATEs of assign_slot, by the ids of the rows.  A row that is gone
\* breaks a foreign key, and the transaction is rolled back.
ClaimRows(r) ==
    LET s == req[r].slot  v == req[r].video IN
    IF Exists(s) /\ video[v].stored
    THEN /\ slot' = [slot EXCEPT ![s].status = "ASSIGNED", ![s].video = v]
         /\ video' = [video EXCEPT ![v].slot = s]
         /\ Step(r, [req[r] EXCEPT !.at = "materialize"])
    ELSE End(r) /\ UNCHANGED <<slot, video>>

\* Fault: the status of the slot is not looked at.
AssignUnchecked(r) ==
    /\ req[r].at = "assign"
    /\ ClaimRows(r)
    /\ UNCHANGED <<post, cadence>>

\* assign_slot's SELECT: the slot has to be open.
Assign(r) ==
    /\ req[r].at = "assign"
    /\ \/ slot[req[r].slot].status # "OPEN" /\ End(r) /\ UNCHANGED <<slot, video>>
       \/ slot[req[r].slot].status = "OPEN" /\ Serialized /\ ClaimRows(r)
       \/ /\ slot[req[r].slot].status = "OPEN" /\ ~Serialized
          /\ Step(r, [req[r] EXCEPT !.at = "claim"]) /\ UNCHANGED <<slot, video>>
    /\ UNCHANGED <<post, cadence>>

\* On Postgres the writes come later, and do not look again.
Claim(r) ==
    /\ req[r].at = "claim"
    /\ ClaimRows(r)
    /\ UNCHANGED <<post, cadence>>

\* materialize_platform_posts_for_assignment, a call of its own: an insert that
\* leaves an existing post alone.
Materialize(r) ==
    LET s == req[r].slot  v == req[r].video IN
    /\ req[r].at = "materialize"
    /\ post' = IF Exists(s) /\ video[v].stored /\ post[v] = NoPost
               THEN [post EXCEPT ![v] = [status |-> "PENDING", time |-> slot[s].time]]
               ELSE post
    /\ End(r)
    /\ UNCHANGED <<slot, video, cadence>>

-----------------------------------------------------------------------------
(***************************************************************************)
(* POST queue/slots/{id}/unassign.                                         *)
(***************************************************************************)

\* Fault: the pending post of the video survives its removal.
UnscheduleKeepingPost(r, s, v) ==
    /\ slot' = IF Exists(s) THEN [slot EXCEPT ![s].status = "OPEN", ![s].video = None] ELSE slot
    /\ video' = [video EXCEPT ![v].slot = None]
    /\ UNCHANGED post
    /\ End(r)

\* The writes of unassign_slot; the UPDATE of a slot that is gone by then
\* changes no row.
Unschedule(r, s, v) ==
    /\ post' = IF post[v].status = "PENDING" THEN [post EXCEPT ![v] = NoPost] ELSE post
    /\ slot' = IF Exists(s) THEN [slot EXCEPT ![s].status = "OPEN", ![s].video = None] ELSE slot
    /\ video' = [video EXCEPT ![v].slot = None]
    /\ End(r)

\* Fault: a post that was attempted is no obstacle.
UnassignAnyway(r, s) ==
    /\ req[r] = Done /\ slot[s].status = "ASSIGNED" /\ MayStart(slot[s].video)
    /\ Unschedule(r, s, slot[s].video)
    /\ UNCHANGED cadence

\* unassign_slot's first SELECT; on SQLite the whole transaction, which is
\* refused once a publish was attempted.
Unassign(r, s) ==
    /\ req[r] = Done /\ slot[s].status = "ASSIGNED" /\ MayStart(slot[s].video)
    /\ LET v == slot[s].video IN
       \/ /\ Serialized /\ post[v].status # "STARTED"
          /\ Unschedule(r, s, v)
       \/ /\ ~Serialized
          /\ Step(r, [at |-> "unassign_posts", video |-> v, slot |-> s])
          /\ UNCHANGED <<slot, video, post>>
    /\ UNCHANGED cadence

\* Its second SELECT, on Postgres ...
UnassignPosts(r) ==
    /\ req[r].at = "unassign_posts"
    /\ IF post[req[r].video].status = "STARTED" THEN End(r)
       ELSE Step(r, [req[r] EXCEPT !.at = "unassign_write"])
    /\ UNCHANGED <<slot, video, post, cadence>>

\* ... and its writes, which go by what the SELECTs saw.
UnassignWrite(r) ==
    /\ req[r].at = "unassign_write"
    /\ Unschedule(r, req[r].slot, req[r].video)
    /\ UNCHANGED cadence

-----------------------------------------------------------------------------
(***************************************************************************)
(* DELETE /videos/{id}: checks, then the stored object, then the row.      *)
(***************************************************************************)

DeleteStart(r, v) ==
    /\ req[r] = Done /\ MayStart(v)
    /\ video[v].stored /\ video[v].slot = None
    /\ Step(r, [at |-> "delete_posts", video |-> v, slot |-> None])
    /\ UNCHANGED <<slot, video, post, cadence>>

DeletePosts(r) ==
    /\ req[r].at = "delete_posts"
    /\ IF post[req[r].video] # NoPost THEN End(r)
       ELSE Step(r, [req[r] EXCEPT !.at = "delete_media"])
    /\ UNCHANGED <<slot, video, post, cadence>>

\* storage.delete succeeds, or raises and ends the request.
DeleteMedia(r) ==
    /\ req[r].at = "delete_media"
    /\ \/ End(r) /\ UNCHANGED video
       \/ /\ video' = [video EXCEPT ![req[r].video].media = FALSE]
          /\ Step(r, [req[r] EXCEPT !.at = "delete_row"])
    /\ UNCHANGED <<slot, post, cadence>>

\* The foreign keys of content_slots and platform_posts refuse the delete.
DeleteRow(r) ==
    LET v == req[r].video IN
    /\ req[r].at = "delete_row"
    /\ video' = IF post[v] = NoPost /\ \A s \in Slots : slot[s].video # v
                THEN [video EXCEPT ![v].stored = FALSE, ![v].slot = None] ELSE video
    /\ End(r)
    /\ UNCHANGED <<slot, post, cadence>>

-----------------------------------------------------------------------------
(***************************************************************************)
(* The worker, and requests that die.                                      *)
(***************************************************************************)

\* claim_platform_post, and a retry that puts the post back.
Publishing(v) ==
    /\ \/ /\ post[v].status = "PENDING"
          /\ post' = [post EXCEPT ![v].status = "STARTED"]
       \/ /\ post[v].status = "STARTED"
          /\ post' = [post EXCEPT ![v].status = "PENDING"]
    /\ UNCHANGED <<slot, video, cadence, req>>

Crash(r) ==
    /\ req[r] # Done
    /\ End(r)
    /\ UNCHANGED <<slot, video, post, cadence>>

RequestStep(r) ==
    \/ \E v \in Videos, s \in Slots : AssignStart(r, v, s)
    \/ Assign(r) \/ Claim(r) \/ Materialize(r)
    \/ \E s \in Slots : Unassign(r, s)
    \/ UnassignPosts(r) \/ UnassignWrite(r)
    \/ \E v \in Videos : DeleteStart(r, v)
    \/ DeletePosts(r) \/ DeleteMedia(r) \/ DeleteRow(r)
    \/ Crash(r)

Next ==
    \/ \E times \in SUBSET Times : SaveCadence(times)
    \/ \E r \in Requests : RequestStep(r)
    \/ \E v \in Videos : Publishing(v)

Spec == Init /\ [][Next]_vars

-----------------------------------------------------------------------------
(***************************************************************************)
(* Properties.                                                             *)
(***************************************************************************)

TypeOK ==
    /\ slot \in [Slots -> Slot]
    /\ video \in [Videos -> Video]
    /\ post \in [Videos -> Post]
    /\ cadence \in SUBSET Times
    /\ req \in [Requests -> Request]

\* The two sides of an assignment agree: a slot is never left ASSIGNED to a
\* video whose own assigned_slot_id has moved on, nor a video to a slot that
\* was given to another, reopened or deleted.
SidesAgree ==
    \A s \in Slots, v \in Videos : slot[s].video = v <=> video[v].slot = s

\* A post exists only for a video that is in the schedule, and while it has not
\* started it carries the time of the slot the video is in now.
PostFollowsSchedule ==
    \A v \in Videos : post[v] # NoPost =>
        /\ video[v].slot # None
        /\ post[v].status = "PENDING" => post[v].time = slot[video[v].slot].time

\* A slot goes from one video to another only through its removal: a claim is
\* never taken over.
ClaimIsKept ==
    [][\A s \in Slots :
          slot[s].video # None => slot'[s].video \in {slot[s].video, None}]_vars

\* The schedule of an attempted post is preserved: no request takes its video
\* out of the slot it was published for.
AttemptKeepsSlot ==
    [][\A v \in Videos :
          post[v].status = "STARTED" => video'[v].slot = video[v].slot]_vars
=============================================================================
