------------------------ MODULE SlotAssignmentProofs ------------------------
(***************************************************************************)
(* Proofs about SlotAssignment, for any number of slots, times, videos and *)
(* requests, and for both stores.  Four invariants, each under the        *)
(* hypotheses it needs:                                                    *)
(*                                                                         *)
(*   TypeInv   nothing: any requests may overlap                           *)
(*   CallInv   OneAtATime: two requests at once are not about one video    *)
(*   AgreeInv  also Reads: transactions are serialized (SQLite), or no two *)
(*             requests run at once; the run slots_postgres refutes it     *)
(*             without                                                     *)
(*   SlotInv   also Serialized: the worker cannot start a post between the *)
(*             reads and the writes of a removal                           *)
(***************************************************************************)
EXTENDS SlotAssignment, TLAPS

\* One request at a time about a video, or one at all.
Alone == \A r, q \in Requests : r = q
OneAtATime == Alone \/ ~Overlap

Busy(r) == req[r].at # "idle"
Deletes == {"delete_posts", "delete_media", "delete_row"}
Placed == {"materialize", "unassign_posts", "unassign_write"}
Claims == {"assign", "claim"}

\* A request that is at work has a video, and mostly a slot; on SQLite there is
\* no stage between the SELECTs and the writes of a transaction.
Shaped(c) ==
    /\ c.at = "idle" => c = Done
    /\ c.at # "idle" => c.video \in Videos
    /\ c.at \in Placed \cup Claims => c.slot \in Slots
    /\ c.at \in {"claim", "unassign_posts", "unassign_write"} => ~Serialized

TypeInv == TypeOK /\ \A r \in Requests : Shaped(req[r])

\* What a request goes by between two of its calls.
GoesBy(c) ==
    /\ c.at \in Claims => video[c.video].slot = None
    /\ c.at \in Placed => video[c.video].slot = c.slot
    /\ c.at \in Deletes => video[c.video].slot = None
    /\ c.at \in {"delete_media", "delete_row"} => post[c.video] = NoPost

\* Nobody else is at work on a video, so what a request goes by stays true of it;
\* and a slot names a video only if the video names the slot.
CallInv ==
    /\ TypeInv
    /\ \A s \in Slots, v \in Videos : slot[s].video = v => video[v].slot = s
    /\ \A r, q \in Requests : r # q /\ Busy(r) /\ Busy(q) => req[r].video # req[q].video
    /\ \A r \in Requests : Busy(r) => GoesBy(req[r])

-----------------------------------------------------------------------------
(* The rows a step writes.                                                 *)

\* Only an assigned slot has a video.
LEMMA SlotRow ==
    ASSUME NEW row \in Slot
    PROVE  /\ row.status = "OPEN" \/ row.status = "ASSIGNED" => row.time \in Times
           /\ row.status # "ASSIGNED" => row.video = None
           /\ row.status = "ASSIGNED" => row.video \in Videos
           /\ row.time \in Times \cup {None}
           /\ row = [status |-> row.status, video |-> row.video, time |-> row.time]
BY DEF Slot

LEMMA DoneIsIdle == Done.at = "idle" /\ Done \in Request /\ Shaped(Done)
BY DEF Done, Request, Shaped, Placed, Claims

\* A slot is given to a video, ...
Claimed(s, v) ==
    /\ slot' \in [Slots -> Slot] /\ video' \in [Videos -> Video] /\ Exists(s)
    /\ slot'[s].video = v /\ \A t \in Slots : t # s => slot'[t] = slot[t]
    /\ video'[v].slot = s /\ video'[v].media = video[v].media
    /\ \A w \in Videos : w # v => video'[w] = video[w]
\* ... or taken from it.
Freed(s, v) ==
    /\ slot' \in [Slots -> Slot] /\ video' \in [Videos -> Video] /\ post' \in [Videos -> Post]
    /\ slot'[s].video = None /\ \A t \in Slots : t # s => slot'[t] = slot[t]
    /\ video'[v].slot = None /\ video'[v].media = video[v].media
    /\ \A w \in Videos : w # v => video'[w] = video[w]
    /\ post'[v] = IF post[v].status = "PENDING" THEN NoPost ELSE post[v]
    /\ \A w \in Videos : w # v => post'[w] = post[w]

LEMMA AssignedRow ==
    ASSUME NEW row \in Slot, row.status \in {"OPEN", "ASSIGNED"}, NEW v \in Videos,
           NEW new, new = [row EXCEPT !.status = "ASSIGNED", !.video = v]
    PROVE  new \in Slot /\ new.video = v
<1> DEFINE a == row.status  b == row.video  c == row.time
<1>1. c \in Times /\ row = [status |-> a, video |-> b, time |-> c]
  BY SlotRow
<1> HIDE DEF a, b, c
<1>2. new = [status |-> "ASSIGNED", video |-> v, time |-> c]
  BY <1>1
<1> QED BY <1>1, <1>2 DEF Slot

LEMMA OpenRow ==
    ASSUME NEW row \in Slot, row.status \in {"OPEN", "ASSIGNED"},
           NEW new, new = [row EXCEPT !.status = "OPEN", !.video = None]
    PROVE  new \in Slot /\ new.video = None
<1> DEFINE a == row.status  b == row.video  c == row.time
<1>1. c \in Times /\ row = [status |-> a, video |-> b, time |-> c]
  BY SlotRow
<1> HIDE DEF a, b, c
<1>2. new = [status |-> "OPEN", video |-> None, time |-> c]
  BY <1>1
<1> QED BY <1>1, <1>2 DEF Slot

LEMMA VideoRow ==
    ASSUME NEW row \in Video, NEW s \in Slots \cup {None}
    PROVE  LET new == [row EXCEPT !.slot = s]
           IN  new \in Video /\ new.slot = s /\ new.media = row.media
BY DEF Video

\* assign_slot.
LEMMA AssignRows ==
    ASSUME TypeInv, NEW r \in Requests, Assign(r) \/ Claim(r)
    PROVE  /\ req[r].at \in Claims /\ req[r].slot \in Slots /\ req[r].video \in Videos
           /\ UNCHANGED <<post, cadence>>
           /\ \/ UNCHANGED <<slot, video>> /\ End(r)
              \/ /\ UNCHANGED <<slot, video>> /\ ~Serialized
                 /\ slot[req[r].slot].status = "OPEN"
                 /\ Step(r, [req[r] EXCEPT !.at = "claim"])
              \/ /\ Claimed(req[r].slot, req[r].video)
                 /\ req[r].at = "assign" => slot[req[r].slot].status = "OPEN"
                 /\ Step(r, [req[r] EXCEPT !.at = "materialize"])
<1> DEFINE s == req[r].slot  v == req[r].video
<1>1. req[r].at \in Claims /\ s \in Slots /\ v \in Videos /\ UNCHANGED <<post, cadence>>
  BY DEF Assign, Claim, TypeInv, Shaped, Claims
<1>2. CASE ClaimRows(r) /\ Exists(s) /\ video[v].stored
  <2>1. /\ slot' = [slot EXCEPT ![s].status = "ASSIGNED", ![s].video = v]
        /\ video' = [video EXCEPT ![v].slot = s]
        /\ Step(r, [req[r] EXCEPT !.at = "materialize"])
    BY <1>2 DEF ClaimRows
  <2>2. slot[s] \in Slot /\ slot[s].status \in {"OPEN", "ASSIGNED"} /\ video[v] \in Video
    BY <1>1, <1>2 DEF TypeInv, TypeOK, Exists
  <2>3. /\ slot'[s] = [slot[s] EXCEPT !.status = "ASSIGNED", !.video = v]
        /\ slot' = [slot EXCEPT ![s] = slot'[s]]
        /\ \A t \in Slots : t # s => slot'[t] = slot[t]
    BY <1>1, <2>1 DEF TypeInv, TypeOK
  <2>4. /\ video'[v] = [video[v] EXCEPT !.slot = s]
        /\ video' = [video EXCEPT ![v] = video'[v]]
        /\ \A w \in Videos : w # v => video'[w] = video[w]
    BY <1>1, <2>1 DEF TypeInv, TypeOK
  <2>5. slot'[s] \in Slot /\ slot'[s].video = v
    <3> DEFINE row == slot[s]  new == slot'[s]
    <3>1. row \in Slot /\ row.status \in {"OPEN", "ASSIGNED"} /\ v \in Videos
      BY <1>1, <2>2
    <3>2. new = [row EXCEPT !.status = "ASSIGNED", !.video = v]
      BY <2>3
    <3> HIDE DEF row, new, v
    <3>3. new \in Slot /\ new.video = v
      BY <3>1, <3>2, AssignedRow
    <3> QED BY <3>3 DEF new
  <2>6. video'[v] \in Video /\ video'[v].slot = s /\ video'[v].media = video[v].media
    BY <1>1, <2>2, <2>4, VideoRow
  <2>7. Claimed(s, v)
    BY <1>1, <1>2, <2>3, <2>4, <2>5, <2>6 DEF Claimed, TypeInv, TypeOK
  <2>8. CASE req[r].at = "assign" /\ slot[s].status # "OPEN"
    BY <1>1, <2>8 DEF Assign, Claim
  <2> QED BY <1>1, <2>1, <2>7, <2>8
<1>3. CASE ClaimRows(r) /\ ~(Exists(s) /\ video[v].stored)
  BY <1>1, <1>3 DEF ClaimRows
<1>4. CASE ~ClaimRows(r)
  BY <1>1, <1>4 DEF Assign, Claim
<1> QED BY <1>2, <1>3, <1>4

\* unassign_slot.
LEMMA FreeRows ==
    ASSUME TypeInv, NEW r \in Requests, NEW s \in Slots, NEW v \in Videos, Unschedule(r, s, v)
    PROVE  Freed(s, v) /\ End(r)
<1>1. video' = [video EXCEPT ![v].slot = None] /\ End(r)
  BY DEF Unschedule
<1>2. slot[s] \in Slot /\ video[v] \in Video /\ post[v] \in Post
  BY DEF TypeInv, TypeOK
<1>3. /\ video'[v] = [video[v] EXCEPT !.slot = None]
      /\ video' = [video EXCEPT ![v] = video'[v]]
      /\ \A w \in Videos : w # v => video'[w] = video[w]
  BY <1>1 DEF TypeInv, TypeOK
<1>4. video'[v] \in Video /\ video'[v].slot = None /\ video'[v].media = video[v].media
  BY <1>2, <1>3, VideoRow
<1>5. /\ slot' \in [Slots -> Slot] /\ slot'[s].video = None
      /\ \A t \in Slots : t # s => slot'[t] = slot[t]
  <2>1. CASE Exists(s)
    <3>1. slot' = [slot EXCEPT ![s].status = "OPEN", ![s].video = None]
      BY <2>1 DEF Unschedule
    <3>2. /\ slot'[s] = [slot[s] EXCEPT !.status = "OPEN", !.video = None]
          /\ slot' = [slot EXCEPT ![s] = slot'[s]]
          /\ \A t \in Slots : t # s => slot'[t] = slot[t]
      BY <3>1 DEF TypeInv, TypeOK
    <3>3. slot'[s] \in Slot /\ slot'[s].video = None
      BY <1>2, <2>1, <3>2, OpenRow DEF Exists
    <3> QED BY <3>2, <3>3 DEF TypeInv, TypeOK
  <2>2. CASE ~Exists(s)
    <3>1. slot' = slot
      BY <2>2 DEF Unschedule
    <3>2. slot[s].video = None
      BY <1>2, <2>2, SlotRow DEF Exists
    <3> QED BY <3>1, <3>2 DEF TypeInv, TypeOK
  <2> QED BY <2>1, <2>2
<1>6. /\ post' \in [Videos -> Post]
      /\ post'[v] = IF post[v].status = "PENDING" THEN NoPost ELSE post[v]
      /\ \A w \in Videos : w # v => post'[w] = post[w]
  <2>1. NoPost \in Post
    BY DEF NoPost, Post
  <2> QED BY <1>2, <2>1 DEF Unschedule, TypeInv, TypeOK
<1> QED BY <1>1, <1>3, <1>4, <1>5, <1>6 DEF Freed, TypeInv, TypeOK

\* save_cadence_and_regenerate_slots: the assigned slots stay as they are.
LEMMA CadenceRows ==
    ASSUME TypeInv, NEW times \in SUBSET Times, SaveCadence(times)
    PROVE  /\ slot' \in [Slots -> Slot]
           /\ \A s \in Slots : slot'[s].video = slot[s].video
           /\ \A s \in Slots : slot[s].status = "ASSIGNED" => slot'[s] = slot[s]
           /\ \A s \in Slots : slot'[s].status = "ASSIGNED" => slot[s].status = "ASSIGNED"
<1> DEFINE new == times \ {slot[s].time : s \in {s \in Slots : slot[s].status = "ASSIGNED"}}
           unused == {s \in Slots : slot[s].status = "ABSENT"}
<1>1. PICK ids \in [new -> unused] :
         slot' = [s \in Slots |->
                   CASE \E t \in new : ids[t] = s ->
                           [status |-> "OPEN", video |-> None,
                            time |-> CHOOSE t \in new : ids[t] = s]
                     [] slot[s].status = "OPEN" -> [slot[s] EXCEPT !.status = "DELETED"]
                     [] OTHER -> slot[s]]
  BY DEF SaveCadence
<1>2. ASSUME NEW s \in Slots
      PROVE  /\ slot'[s] \in Slot /\ slot'[s].video = slot[s].video
             /\ slot[s].status = "ASSIGNED" => slot'[s] = slot[s]
             /\ slot'[s].status = "ASSIGNED" => slot[s].status = "ASSIGNED"
  <2>0. slot[s] \in Slot
    BY DEF TypeInv, TypeOK
  <2>1. CASE \E t \in new : ids[t] = s
    <3>1. slot'[s] = [status |-> "OPEN", video |-> None,
                      time |-> CHOOSE t \in new : ids[t] = s]
      BY <1>1, <2>1
    <3>2. (CHOOSE t \in new : ids[t] = s) \in Times
      BY <2>1
    <3>3. slot[s].status = "ABSENT"
      BY <2>1
    <3> HIDE DEF new
    <3>4. slot[s].video = None
      BY <2>0, <3>3, SlotRow
    <3> QED BY <3>1, <3>2, <3>3, <3>4 DEF Slot
  <2>2. CASE ~(\E t \in new : ids[t] = s) /\ slot[s].status = "OPEN"
    <3>1. slot'[s] = [slot[s] EXCEPT !.status = "DELETED"]
      BY <1>1, <2>2
    <3>2. /\ slot[s] = [status |-> "OPEN", video |-> None, time |-> slot[s].time]
          /\ slot[s].time \in Times
      BY <2>0, <2>2, SlotRow
    <3>3. slot'[s] = [status |-> "DELETED", video |-> None, time |-> slot[s].time]
      BY <3>1, <3>2
    <3> QED BY <3>2, <3>3, <2>2 DEF Slot
  <2>3. CASE ~(\E t \in new : ids[t] = s) /\ slot[s].status # "OPEN"
    BY <1>1, <2>0, <2>3
  <2> QED BY <2>1, <2>2, <2>3
<1> HIDE DEF new, unused
<1>3. slot' = [s \in Slots |-> slot'[s]]
  BY <1>1
<1> QED BY <1>2, <1>3

LEMMA GoneVideo ==
    ASSUME NEW row \in Video
    PROVE  LET gone == [row EXCEPT !.stored = FALSE, !.slot = None]
           IN  gone \in Video /\ gone.slot = None /\ gone.media = row.media
BY DEF Video

\* delete_video, once it looks at the posts, ...
LEMMA DeleteMoves ==
    ASSUME TypeInv, NEW r \in Requests, DeletePosts(r) \/ DeleteMedia(r) \/ DeleteRow(r)
    PROVE  /\ UNCHANGED <<slot, post, cadence>> /\ req[r].video \in Videos
           /\ req[r].at \in Deletes /\ video' \in [Videos -> Video]
           /\ \A w \in Videos : w # req[r].video => video'[w] = video[w]
           /\ video'[req[r].video].slot \in {video[req[r].video].slot, None}
           /\ video'[req[r].video].media # video[req[r].video].media => req[r].at = "delete_media"
           /\ \/ End(r)
              \/ /\ Step(r, [req[r] EXCEPT !.at = "delete_media"])
                 /\ req[r].at = "delete_posts" /\ post[req[r].video] = NoPost
              \/ /\ Step(r, [req[r] EXCEPT !.at = "delete_row"])
                 /\ req[r].at = "delete_media"
<1> DEFINE v == req[r].video
<1>1. UNCHANGED <<slot, post, cadence>> /\ v \in Videos /\ req[r].at \in Deletes
  BY DEF DeletePosts, DeleteMedia, DeleteRow, TypeInv, Shaped, Deletes
<1>2. \/ End(r)
      \/ /\ Step(r, [req[r] EXCEPT !.at = "delete_media"])
         /\ req[r].at = "delete_posts" /\ post[v] = NoPost
      \/ Step(r, [req[r] EXCEPT !.at = "delete_row"]) /\ req[r].at = "delete_media"
  BY DEF DeletePosts, DeleteMedia, DeleteRow
<1>3. /\ video' \in [Videos -> Video]
      /\ \A w \in Videos : w # v => video'[w] = video[w]
      /\ video'[v].slot \in {video[v].slot, None}
      /\ video'[v].media # video[v].media => req[r].at = "delete_media"
  <2>0. video[v] \in Video /\ video \in [Videos -> Video]
    BY <1>1 DEF TypeInv, TypeOK
  <2>1. CASE video' = video
    BY <2>0, <2>1
  <2>2. CASE video' = [video EXCEPT ![v].media = FALSE] /\ req[r].at = "delete_media"
    BY <1>1, <2>0, <2>2 DEF Video
  <2>3. CASE video' = [video EXCEPT ![v].stored = FALSE, ![v].slot = None]
    <3>1. /\ video' = [video EXCEPT ![v] = video'[v]]
          /\ video'[v] = [video[v] EXCEPT !.stored = FALSE, !.slot = None]
      BY <1>1, <2>0, <2>3
    <3>2. video'[v] \in Video /\ video'[v].slot = None /\ video'[v].media = video[v].media
      BY <2>0, <3>1, GoneVideo
    <3>3. \A w \in Videos : w # v => video'[w] = video[w]
      BY <1>1, <2>0, <3>1
    <3> QED BY <1>1, <2>0, <3>1, <3>2, <3>3
  <2> QED BY <2>1, <2>2, <2>3 DEF DeletePosts, DeleteMedia, DeleteRow
<1> QED BY <1>1, <1>2, <1>3

\* ... of a video that has no slot, and, from there on, no post.
LEMMA DeleteRows ==
    ASSUME CallInv, NEW r \in Requests, DeletePosts(r) \/ DeleteMedia(r) \/ DeleteRow(r)
    PROVE  /\ \A w \in Videos : video'[w].slot = video[w].slot
           /\ \A w \in Videos : video'[w].media # video[w].media
                 => video[w].slot = None /\ post[w] = NoPost
           /\ End(r) \/ post[req[r].video] = NoPost
<1>1. /\ TypeInv /\ req[r].video \in Videos
      /\ req[r].at \in Deletes => video[req[r].video].slot = None
      /\ req[r].at \in {"delete_media", "delete_row"} => post[req[r].video] = NoPost
  BY DeleteMoves DEF CallInv, GoesBy, Busy, Deletes
<1> QED BY <1>1, DeleteMoves

\* claim_platform_post, and the retry.
LEMMA PublishingRows ==
    ASSUME TypeInv, NEW v \in Videos, Publishing(v)
    PROVE  /\ UNCHANGED <<slot, video, cadence, req>> /\ post' \in [Videos -> Post]
           /\ post[v] # NoPost /\ post'[v].status # "ABSENT" /\ post'[v].time = post[v].time
           /\ \A w \in Videos : w # v => post'[w] = post[w]
<1>1. PICK status \in {"PENDING", "STARTED"} :
         post' = [post EXCEPT ![v].status = status] /\ post[v].status \in {"PENDING", "STARTED"}
  BY DEF Publishing
<1>2. post[v] \in Post /\ post[v] # NoPost
  BY <1>1 DEF TypeInv, TypeOK, NoPost
<1> QED BY <1>1, <1>2 DEF Publishing, TypeInv, TypeOK, Post

-----------------------------------------------------------------------------
(* Types, for any requests that overlap in any way.                        *)

\* A request goes from one stage to another.
LEMMA NextStage ==
    ASSUME NEW c \in Request, Shaped(c), c.at # "idle",
           NEW at \in Placed \cup Claims \cup Deletes,
           at \in Placed \cup Claims => c.at \in Placed \cup Claims,
           at \in {"claim", "unassign_posts", "unassign_write"} => ~Serialized,
           NEW next, next = [c EXCEPT !.at = at]
    PROVE  /\ next \in Request /\ Shaped(next)
           /\ next.at = at /\ next.video = c.video /\ next.slot = c.slot
BY DEF Request, Shaped, Placed, Claims, Deletes

\* Where a request can go, and with what.
LEMMA RequestMoves ==
    ASSUME TypeInv, NEW r \in Requests, RequestStep(r)
    PROVE  \E next \in Request :
             /\ Step(r, next) /\ Shaped(next)
             /\ \/ next = Done
                \/ /\ next.video = req[r].video /\ next.slot = req[r].slot /\ Busy(r)
                \/ MayStart(next.video) /\ req[r] = Done
<1> DEFINE Moves(next) ==
              /\ Step(r, next) /\ Shaped(next)
              /\ \/ next = Done
                 \/ /\ next.video = req[r].video /\ next.slot = req[r].slot /\ Busy(r)
                 \/ MayStart(next.video) /\ req[r] = Done
<1> SUFFICES \E next \in Request : Moves(next)
  OBVIOUS
<1>0. TypeInv /\ req[r] \in Request /\ Shaped(req[r])
  BY DEF TypeInv, TypeOK
<1>1. CASE End(r)
  BY <1>1, DoneIsIdle DEF End
<1>2. ASSUME NEW at \in Placed \cup Claims \cup Deletes, Busy(r),
             at \in Placed \cup Claims => req[r].at \in Placed \cup Claims,
             at \in {"claim", "unassign_posts", "unassign_write"} => ~Serialized,
             Step(r, [req[r] EXCEPT !.at = at])
      PROVE  \E next \in Request : Moves(next)
  <2> DEFINE c == req[r]  next == [req[r] EXCEPT !.at = at]
  <2>1. next = [c EXCEPT !.at = at] /\ c \in Request /\ Shaped(c) /\ c.at # "idle"
    BY <1>0, <1>2 DEF Busy
  <2>2. at \in Placed \cup Claims => c.at \in Placed \cup Claims
    BY <1>2
  <2> HIDE DEF next, c
  <2>3. /\ next \in Request /\ Shaped(next)
        /\ next.at = at /\ next.video = c.video /\ next.slot = c.slot
    BY <1>2, <2>1, <2>2, NextStage
  <2>4. Step(r, next)
    BY <1>2 DEF next
  <2> QED BY <1>2, <2>3, <2>4 DEF c
<1>3. ASSUME NEW next \in Request, Shaped(next), Step(r, next), MayStart(next.video), req[r] = Done
      PROVE  \E other \in Request : Moves(other)
  BY <1>3
<1> HIDE DEF Moves
<1>4. CASE Assign(r) \/ Claim(r)
  <2>1. req[r].at \in Claims /\ Busy(r)
    BY <1>0, <1>4, AssignRows DEF Busy, Claims
  <2>2. \/ End(r)
        \/ Step(r, [req[r] EXCEPT !.at = "claim"]) /\ ~Serialized
        \/ Step(r, [req[r] EXCEPT !.at = "materialize"])
    BY <1>0, <1>4, AssignRows
  <2>3. {"claim", "materialize"} \subseteq Placed \cup Claims
    BY DEF Placed, Claims
  <2> QED BY <1>1, <1>2, <2>1, <2>2, <2>3
<1>5. CASE DeletePosts(r) \/ DeleteMedia(r) \/ DeleteRow(r)
  <2>1. req[r].at \in Deletes /\ Busy(r)
    BY <1>5, DeleteMoves DEF Busy, Deletes
  <2>2. \/ End(r)
        \/ Step(r, [req[r] EXCEPT !.at = "delete_media"])
        \/ Step(r, [req[r] EXCEPT !.at = "delete_row"])
    BY <1>5, DeleteMoves
  <2>3. /\ {"delete_media", "delete_row"} \subseteq Deletes
        /\ {"delete_media", "delete_row"} \cap (Placed \cup Claims) = {}
    BY DEF Placed, Claims, Deletes
  <2> QED BY <1>1, <1>2, <2>1, <2>2, <2>3
<1>6. CASE Materialize(r) \/ UnassignWrite(r) \/ Crash(r)
  BY <1>1, <1>6 DEF Materialize, UnassignWrite, Unschedule, Crash
<1>7. CASE UnassignPosts(r)
  <2>1. req[r].at \in Placed /\ Busy(r) /\ ~Serialized /\ "unassign_write" \in Placed
    BY <1>0, <1>7 DEF UnassignPosts, Shaped, Placed, Busy
  <2> QED BY <1>1, <1>2, <1>7, <2>1 DEF UnassignPosts
<1>8. ASSUME NEW v \in Videos, NEW s \in Slots, AssignStart(r, v, s)
      PROVE  \E next \in Request : Moves(next)
  <2> DEFINE next == [at |-> "assign", video |-> v, slot |-> s]
  <2>1. next \in Request /\ Shaped(next) /\ next.video = v
    BY DEF Request, Shaped, Claims, Placed
  <2> QED BY <1>3, <1>8, <2>1 DEF AssignStart
<1>9. ASSUME NEW v \in Videos, DeleteStart(r, v)
      PROVE  \E next \in Request : Moves(next)
  <2> DEFINE next == [at |-> "delete_posts", video |-> v, slot |-> None]
  <2>1. next \in Request /\ Shaped(next) /\ next.video = v
    BY DEF Request, Shaped, Claims, Placed
  <2> QED BY <1>3, <1>9, <2>1 DEF DeleteStart
<1>10. ASSUME NEW s \in Slots, Unassign(r, s)
       PROVE  \E next \in Request : Moves(next)
  <2>1. CASE Serialized
    BY <1>1, <1>10, <2>1 DEF Unassign, Unschedule
  <2>2. CASE ~Serialized
    <3> DEFINE v == slot[s].video
               next == [at |-> "unassign_posts", video |-> v, slot |-> s]
    <3>1. v \in Videos
      BY <1>0, <1>10, SlotRow DEF Unassign, TypeInv, TypeOK
    <3>2. Step(r, next) /\ MayStart(v) /\ req[r] = Done
      BY <1>10, <2>2 DEF Unassign
    <3> HIDE DEF v
    <3>3. next \in Request /\ Shaped(next) /\ next.video = v
      BY <2>2, <3>1 DEF Request, Shaped, Claims, Placed
    <3> QED BY <1>3, <3>2, <3>3
  <2> QED BY <2>1, <2>2
<1> QED BY <1>4, <1>5, <1>6, <1>7, <1>8, <1>9, <1>10 DEF RequestStep

LEMMA TypeInit == Init => TypeInv
BY DoneIsIdle DEF Init, TypeInv, TypeOK, Slot, Video, Post, NoPost, Request, Done, Shaped,
                  Placed, Claims

\* The rows a request writes are rows of their tables.
LEMMA RequestTypes ==
    ASSUME TypeInv, NEW r \in Requests, RequestStep(r)
    PROVE  /\ slot' \in [Slots -> Slot] /\ video' \in [Videos -> Video]
           /\ post' \in [Videos -> Post] /\ cadence' = cadence
<1>0. /\ slot \in [Slots -> Slot] /\ video \in [Videos -> Video] /\ post \in [Videos -> Post]
      /\ Shaped(req[r])
  BY DEF TypeInv, TypeOK
<1>1. CASE Assign(r) \/ Claim(r)
  BY <1>0, <1>1, AssignRows DEF Claimed
<1>2. CASE DeletePosts(r) \/ DeleteMedia(r) \/ DeleteRow(r)
  BY <1>0, <1>2, DeleteMoves
<1>3. CASE Materialize(r)
  <2> DEFINE s == req[r].slot  v == req[r].video
             p == [status |-> "PENDING", time |-> slot[s].time]
  <2>1. s \in Slots /\ v \in Videos
    BY <1>0, <1>3 DEF Materialize, Shaped, Placed
  <2>2. Exists(s) => p \in Post
    BY <1>0, <2>1, SlotRow DEF Exists, Post
  <2>3. post' = post \/ (Exists(s) /\ post' = [post EXCEPT ![v] = p])
    BY <1>3 DEF Materialize
  <2> HIDE DEF p
  <2> QED BY <1>0, <1>3, <2>1, <2>2, <2>3 DEF Materialize
<1>4. CASE UnassignWrite(r)
  <2>1. req[r].slot \in Slots /\ req[r].video \in Videos
    BY <1>0, <1>4 DEF UnassignWrite, Shaped, Placed
  <2> QED BY <1>4, <2>1, FreeRows DEF UnassignWrite, Freed
<1>5. ASSUME NEW s \in Slots, Unassign(r, s)
      PROVE  /\ slot' \in [Slots -> Slot] /\ video' \in [Videos -> Video]
             /\ post' \in [Videos -> Post] /\ cadence' = cadence
  <2>1. slot[s].video \in Videos
    BY <1>0, <1>5, SlotRow DEF Unassign
  <2>2. CASE Unschedule(r, s, slot[s].video)
    BY <1>5, <2>1, <2>2, FreeRows DEF Unassign, Freed
  <2> QED BY <1>0, <1>5, <2>2 DEF Unassign
<1> QED BY <1>0, <1>1, <1>2, <1>3, <1>4, <1>5
        DEF RequestStep, UnassignPosts, Crash, AssignStart, DeleteStart

LEMMA TypeStep ==
    ASSUME TypeInv, [Next]_vars
    PROVE  TypeInv'
<1>0. TypeOK /\ \A q \in Requests : Shaped(req[q])
  BY DEF TypeInv
<1>1. CASE \E r \in Requests : RequestStep(r)
  <2>1. PICK r \in Requests : RequestStep(r)
    BY <1>1
  <2>2. PICK next \in Request : Step(r, next) /\ Shaped(next)
    BY <2>1, RequestMoves
  <2>3. /\ req' \in [Requests -> Request] /\ req'[r] = next
        /\ \A q \in Requests : q # r => req'[q] = req[q]
    BY <1>0, <2>2 DEF Step, TypeOK
  <2>4. TypeOK'
    BY <1>0, <2>1, <2>3, RequestTypes DEF TypeOK
  <2>5. ASSUME NEW q \in Requests PROVE Shaped(req[q])'
    <3>1. Shaped(req'[q])
      BY <1>0, <2>2, <2>3
    <3> QED BY <3>1 DEF Shaped, Placed, Claims, Done
  <2> QED BY <2>4, <2>5 DEF TypeInv
<1>2. CASE \E times \in SUBSET Times : SaveCadence(times)
  <2>1. PICK times \in SUBSET Times : SaveCadence(times)
    BY <1>2
  <2>2. slot' \in [Slots -> Slot] /\ UNCHANGED <<video, post, req>> /\ cadence' = times
    BY <2>1, CadenceRows DEF SaveCadence
  <2> QED BY <1>0, <2>2 DEF TypeInv, TypeOK, Shaped, Done
<1>3. CASE \E v \in Videos : Publishing(v)
  <2>1. UNCHANGED <<slot, video, cadence, req>> /\ post' \in [Videos -> Post]
    BY <1>3, PublishingRows
  <2> QED BY <1>0, <2>1 DEF TypeInv, TypeOK, Shaped, Done
<1>4. CASE UNCHANGED vars
  BY <1>0, <1>4 DEF vars, TypeInv, TypeOK, Shaped, Done
<1> QED BY <1>1, <1>2, <1>3, <1>4 DEF Next

-----------------------------------------------------------------------------
(* What a step of a request does to the three tables.                      *)

\* v is the video r is at work on, or the one it starts with.
Mine(r, v) == v \in Videos /\ (v = req[r].video \/ (req[r] = Done /\ MayStart(v)))

\* No slot and no post changes, and the media of no video that has one ...
Quiet ==
    /\ slot' = slot /\ post' = post /\ video' \in [Videos -> Video]
    /\ \A w \in Videos : video'[w].slot = video[w].slot
    /\ \A w \in Videos : video'[w].media # video[w].media => video[w].slot = None /\ post[w] = NoPost
\* ... or a post is made for the slot the video is in.
Posted(s, v) ==
    /\ slot' = slot /\ video' = video /\ post' \in [Videos -> Post] /\ video[v].slot = s
    /\ \A w \in Videos : w # v => post'[w] = post[w]
    /\ \/ post'[v] = post[v]
       \/ post'[v] = [status |-> "PENDING", time |-> slot[s].time]

\* assign_slot claims what it found open, unassign_slot frees the slot the video
\* is in.
Rows(r, v) ==
    \/ Quiet
    \/ /\ Claimed(req[r].slot, v) /\ post' = post
       /\ req[r].at \in Claims /\ v = req[r].video /\ req[r].slot \in Slots
       /\ req[r].at = "assign" => slot[req[r].slot].status = "OPEN"
    \/ \E s \in Slots : Freed(s, v) /\ video[v].slot = s
                          /\ (Serialized => post[v].status # "STARTED")
    \/ \E s \in Slots : Posted(s, v)

LEMMA QuietRows ==
    ASSUME CallInv, UNCHANGED <<slot, video, post>>
    PROVE  Quiet
BY DEF Quiet, CallInv, TypeInv, TypeOK

LEMMA RequestRows ==
    ASSUME CallInv, NEW r \in Requests, RequestStep(r)
    PROVE  /\ \E v \in Videos : Mine(r, v) /\ Rows(r, v)
           /\ Busy(r)' => GoesBy(req[r])'
<1> DEFINE Goal == /\ \E v \in Videos : Mine(r, v) /\ Rows(r, v)
                   /\ Busy(r)' => GoesBy(req[r])'
<1> SUFFICES Goal
  OBVIOUS
<1>0. /\ TypeInv /\ req[r] \in Request /\ Shaped(req[r]) /\ req \in [Requests -> Request]
      /\ Busy(r) => GoesBy(req[r]) /\ req[r].video \in Videos /\ Mine(r, req[r].video)
  BY DEF CallInv, TypeInv, TypeOK, Shaped, Busy, Mine
<1>1. ASSUME NEW next, Step(r, next)
      PROVE  req'[r] = next
  BY <1>0, <1>1 DEF Step
<1>2. ASSUME End(r)
      PROVE  ~Busy(r)'
  BY <1>1, <1>2, DoneIsIdle DEF End, Busy
\* Nothing but the request itself moves.
<1>3. ASSUME UNCHANGED <<slot, video, post, cadence>>, NEW v \in Videos, Mine(r, v),
             Busy(r)' => GoesBy(req[r])'
      PROVE  Goal
  BY <1>3, QuietRows DEF Rows
<1>4. CASE Assign(r) \/ Claim(r)
  <2> DEFINE s == req[r].slot  v == req[r].video
  <2>1. /\ req[r].at \in Claims /\ s \in Slots /\ v \in Videos /\ Busy(r)
        /\ UNCHANGED <<post, cadence>> /\ Mine(r, v) /\ video[v].slot = None
    BY <1>0, <1>4, AssignRows DEF Busy, Claims, GoesBy
  <2>2. CASE UNCHANGED <<slot, video>> /\ End(r)
    BY <1>2, <1>3, <2>1, <2>2
  <2>3. CASE UNCHANGED <<slot, video>> /\ Step(r, [req[r] EXCEPT !.at = "claim"])
    <3>1. req'[r] = [req[r] EXCEPT !.at = "claim"]
      BY <1>1, <2>3
    <3>2. req'[r].at = "claim" /\ req'[r].video = v
      BY <1>0, <3>1 DEF Request
    <3>3. GoesBy(req[r])'
      BY <2>1, <2>3, <3>2 DEF GoesBy, Claims, Placed, Deletes
    <3> QED BY <1>3, <2>1, <2>3, <3>3
  <2>4. CASE /\ Claimed(s, v) /\ Step(r, [req[r] EXCEPT !.at = "materialize"])
             /\ req[r].at = "assign" => slot[s].status = "OPEN"
    <3>1. req'[r] = [req[r] EXCEPT !.at = "materialize"]
      BY <1>1, <2>4
    <3>2. req'[r].at = "materialize" /\ req'[r].video = v /\ req'[r].slot = s
      BY <1>0, <3>1 DEF Request
    <3>3. GoesBy(req[r])'
      BY <2>4, <3>2 DEF GoesBy, Claims, Placed, Deletes, Claimed
    <3>4. Rows(r, v)
      BY <2>1, <2>4 DEF Rows
    <3> QED BY <2>1, <3>3, <3>4
  <2> QED BY <1>0, <1>4, <2>2, <2>3, <2>4, AssignRows
<1>5. CASE DeletePosts(r) \/ DeleteMedia(r) \/ DeleteRow(r)
  <2> DEFINE v == req[r].video
  <2>1. /\ UNCHANGED <<slot, post, cadence>> /\ v \in Videos
        /\ req[r].at \in Deletes /\ video' \in [Videos -> Video]
        /\ \A w \in Videos : video'[w].slot = video[w].slot
        /\ \A w \in Videos : video'[w].media # video[w].media => video[w].slot = None /\ post[w] = NoPost
    BY <1>0, <1>5, DeleteMoves, DeleteRows
  <2>2. Quiet /\ Mine(r, v) /\ Busy(r) /\ video[v].slot = None
    BY <1>0, <2>1 DEF Quiet, Mine, Busy, Deletes, GoesBy
  <2>3. CASE End(r)
    BY <1>2, <2>1, <2>2, <2>3 DEF Rows
  <2>4. ASSUME NEW at \in {"delete_media", "delete_row"},
               Step(r, [req[r] EXCEPT !.at = at]), post[v] = NoPost
        PROVE  Goal
    <3>1. req'[r] = [req[r] EXCEPT !.at = at]
      BY <1>1, <2>4
    <3>2. req'[r].at = at /\ req'[r].video = v
      BY <1>0, <3>1 DEF Request
    <3>3. GoesBy(req[r])'
      BY <2>1, <2>2, <2>4, <3>2 DEF GoesBy, Claims, Placed, Deletes
    <3> QED BY <2>1, <2>2, <3>3 DEF Rows
  <2> QED BY <1>0, <1>5, <2>3, <2>4, DeleteMoves, DeleteRows
<1>6. CASE Materialize(r)
  <2> DEFINE s == req[r].slot  v == req[r].video
  <2>1. s \in Slots /\ v \in Videos /\ video[v].slot = s /\ Mine(r, v) /\ End(r)
    BY <1>0, <1>6 DEF Materialize, Busy, Shaped, GoesBy, Placed
  <2>2. UNCHANGED <<slot, video, cadence>>
    BY <1>6 DEF Materialize
  <2>3. Posted(s, v)
    <3> DEFINE p == [status |-> "PENDING", time |-> slot[s].time]
    <3>1. post' = post \/ (Exists(s) /\ post' = [post EXCEPT ![v] = p])
      BY <1>6 DEF Materialize
    <3>2. Exists(s) => p \in Post
      BY <1>0, <2>1, SlotRow DEF Exists, Post, TypeInv, TypeOK
    <3> HIDE DEF p
    <3>3. /\ post' \in [Videos -> Post] /\ (post'[v] = post[v] \/ post'[v] = p)
          /\ \A w \in Videos : w # v => post'[w] = post[w]
      BY <1>0, <2>1, <3>1, <3>2 DEF TypeInv, TypeOK
    <3> QED BY <2>1, <2>2, <3>3 DEF Posted, p
  <2> QED BY <1>2, <2>1, <2>2, <2>3 DEF Rows
<1>7. CASE UnassignWrite(r)
  <2> DEFINE s == req[r].slot  v == req[r].video
  <2>1. /\ s \in Slots /\ v \in Videos /\ video[v].slot = s /\ Mine(r, v) /\ ~Serialized
        /\ Unschedule(r, s, v) /\ cadence' = cadence
    BY <1>0, <1>7 DEF UnassignWrite, Busy, Shaped, GoesBy, Placed
  <2>2. Freed(s, v) /\ End(r)
    BY <1>0, <2>1, FreeRows
  <2> QED BY <1>2, <2>1, <2>2 DEF Rows
<1>8. CASE UnassignPosts(r)
  <2> DEFINE s == req[r].slot  v == req[r].video
  <2>1. /\ v \in Videos /\ video[v].slot = s /\ Mine(r, v)
        /\ UNCHANGED <<slot, video, post, cadence>>
    BY <1>0, <1>8 DEF UnassignPosts, Busy, Shaped, GoesBy, Placed
  <2>2. CASE End(r)
    BY <1>2, <1>3, <2>1, <2>2
  <2>3. CASE Step(r, [req[r] EXCEPT !.at = "unassign_write"])
    <3>1. req'[r] = [req[r] EXCEPT !.at = "unassign_write"]
      BY <1>1, <2>3
    <3>2. req'[r].at = "unassign_write" /\ req'[r].video = v /\ req'[r].slot = s
      BY <1>0, <3>1 DEF Request
    <3>3. GoesBy(req[r])'
      BY <2>1, <3>2 DEF GoesBy, Claims, Placed, Deletes
    <3> QED BY <1>3, <2>1, <3>3
  <2> QED BY <1>8, <2>2, <2>3 DEF UnassignPosts
<1>9. CASE Crash(r)
  <2>1. End(r) /\ Busy(r) /\ UNCHANGED <<slot, video, post, cadence>>
    BY <1>0, <1>9 DEF Crash, Busy, Shaped
  <2> QED BY <1>0, <1>2, <1>3, <2>1
<1>10. ASSUME NEW v \in Videos, NEW s \in Slots, AssignStart(r, v, s)
       PROVE  Goal
  <2>1. Mine(r, v) /\ video[v].slot = None /\ UNCHANGED <<slot, video, post, cadence>>
    BY <1>10 DEF AssignStart, Mine
  <2>2. req'[r] = [at |-> "assign", video |-> v, slot |-> s]
    BY <1>1, <1>10 DEF AssignStart
  <2>3. GoesBy(req[r])'
    BY <2>1, <2>2 DEF GoesBy, Claims, Placed, Deletes
  <2> QED BY <1>3, <2>1, <2>3
<1>11. ASSUME NEW v \in Videos, DeleteStart(r, v)
       PROVE  Goal
  <2>1. Mine(r, v) /\ video[v].slot = None /\ UNCHANGED <<slot, video, post, cadence>>
    BY <1>11 DEF DeleteStart, Mine
  <2>2. req'[r] = [at |-> "delete_posts", video |-> v, slot |-> None]
    BY <1>1, <1>11 DEF DeleteStart
  <2>3. GoesBy(req[r])'
    BY <2>1, <2>2 DEF GoesBy, Claims, Placed, Deletes
  <2> QED BY <1>3, <2>1, <2>3
<1>12. ASSUME NEW s \in Slots, Unassign(r, s)
       PROVE  Goal
  <2> DEFINE v == slot[s].video
  <2>1. v \in Videos
    BY <1>0, <1>12, SlotRow DEF Unassign, TypeInv, TypeOK
  <2>2. Mine(r, v) /\ video[v].slot = s /\ cadence' = cadence
    BY <1>12, <2>1 DEF Unassign, Mine, CallInv
  <2>3. CASE Serialized
    <3>1. post[v].status # "STARTED" /\ Unschedule(r, s, v)
      BY <1>12, <2>3 DEF Unassign
    <3> HIDE DEF v
    <3>2. Freed(s, v) /\ End(r)
      BY <1>0, <2>1, <3>1, FreeRows
    <3> QED BY <1>2, <2>1, <2>2, <3>1, <3>2 DEF Rows
  <2>4. CASE ~Serialized
    <3>1. /\ UNCHANGED <<slot, video, post>>
          /\ Step(r, [at |-> "unassign_posts", video |-> v, slot |-> s])
      BY <1>12, <2>4 DEF Unassign
    <3> HIDE DEF v
    <3>2. req'[r] = [at |-> "unassign_posts", video |-> v, slot |-> s]
      BY <1>1, <3>1
    <3>3. GoesBy(req[r])'
      BY <2>2, <3>1, <3>2 DEF GoesBy, Claims, Placed, Deletes
    <3> QED BY <1>3, <2>1, <2>2, <3>1, <3>3
  <2> QED BY <2>3, <2>4
<1> QED BY <1>4, <1>5, <1>6, <1>7, <1>8, <1>9, <1>10, <1>11, <1>12 DEF RequestStep

-----------------------------------------------------------------------------
(* One request at a time: what a request goes by stays true.               *)

\* The step keeps the types, changes no video but v, and leaves no slot named
\* by a video that is elsewhere.
Within(v) ==
    /\ slot' \in [Slots -> Slot] /\ video' \in [Videos -> Video] /\ post' \in [Videos -> Post]
    /\ \A w \in Videos : w # v => video'[w].slot = video[w].slot /\ post'[w] = post[w]
    /\ \A s \in Slots, w \in Videos : slot'[s].video = w => video'[w].slot = s

LEMMA RowsWithin ==
    ASSUME CallInv, NEW r \in Requests, NEW v \in Videos, Rows(r, v)
    PROVE  Within(v)
<1>0. /\ slot \in [Slots -> Slot] /\ video \in [Videos -> Video] /\ post \in [Videos -> Post]
      /\ \A s \in Slots, w \in Videos : slot[s].video = w => video[w].slot = s
      /\ None \notin Slots \cup Videos
  BY SlotAssignmentAssumption DEF CallInv, TypeInv, TypeOK
<1>1. CASE Quiet
  BY <1>0, <1>1 DEF Quiet, Within
<1>2. CASE /\ Claimed(req[r].slot, v) /\ post' = post
           /\ req[r].at \in Claims /\ v = req[r].video /\ req[r].slot \in Slots
  <2>1. video[v].slot = None
    BY <1>2 DEF CallInv, Busy, GoesBy, Claims
  <2>2. ASSUME NEW t \in Slots, NEW w \in Videos, slot'[t].video = w
        PROVE  video'[w].slot = t
    BY <1>0, <1>2, <2>1, <2>2 DEF Claimed
  <2> QED BY <1>0, <1>2, <2>2 DEF Claimed, Within
<1>3. ASSUME NEW s \in Slots, Freed(s, v), video[v].slot = s
      PROVE  Within(v)
  <2>1. ASSUME NEW t \in Slots, NEW w \in Videos, slot'[t].video = w
        PROVE  video'[w].slot = t
    BY <1>0, <1>3, <2>1 DEF Freed
  <2> QED BY <1>0, <1>3, <2>1 DEF Freed, Within
<1>4. ASSUME NEW s \in Slots, Posted(s, v)
      PROVE  Within(v)
  BY <1>0, <1>4 DEF Posted, Within
<1> QED BY <1>1, <1>2, <1>3, <1>4 DEF Rows

LEMMA RequestKeepsCalls ==
    ASSUME OneAtATime, CallInv, NEW r \in Requests, RequestStep(r)
    PROVE  CallInv'
<1>0. /\ TypeInv /\ None \notin Videos /\ req \in [Requests -> Request]
      /\ \A q \in Requests : Shaped(req[q]) /\ (Busy(q) => GoesBy(req[q]))
      /\ \A q, p \in Requests : q # p /\ Busy(q) /\ Busy(p) => req[q].video # req[p].video
      /\ \A q \in Requests : Busy(q) => req[q].video \in Videos
  BY SlotAssignmentAssumption DEF CallInv, TypeInv, TypeOK, Shaped, Busy
<1>1. PICK v \in Videos : Mine(r, v) /\ Rows(r, v)
  BY RequestRows
<1>2. Within(v) /\ (Busy(r)' => GoesBy(req[r])')
  BY <1>1, RowsWithin, RequestRows
<1>3. PICK next \in Request :
         /\ Step(r, next) /\ Shaped(next)
         /\ \/ next = Done
            \/ /\ next.video = req[r].video /\ next.slot = req[r].slot /\ Busy(r)
            \/ MayStart(next.video) /\ req[r] = Done
  BY <1>0, RequestMoves
<1>4. /\ req' \in [Requests -> Request] /\ req'[r] = next
      /\ \A q \in Requests : q # r => req'[q] = req[q]
  BY <1>0, <1>3 DEF Step
<1>5. TypeInv'
  BY TypeStep DEF CallInv, Next
\* Nobody else is at work on v.
<1>6. ASSUME NEW q \in Requests, q # r, Busy(q)
      PROVE  req[q].video # v
  <2>1. CASE v = req[r].video
    <3>1. Busy(r)
      BY <1>0, <2>1 DEF Busy, Shaped, Done
    <3> QED BY <1>0, <1>6, <2>1, <3>1
  <2>2. CASE req[r] = Done /\ MayStart(v)
    BY <1>6, <2>2 DEF MayStart, OneAtATime, Alone
  <2> QED BY <1>1, <2>1, <2>2 DEF Mine
<1>7. ASSUME NEW q \in Requests, q # r, Busy(q)
      PROVE  Busy(r)' => req'[r].video # req[q].video
  <2>1. CASE next = Done
    BY <1>4, <2>1, DoneIsIdle DEF Busy
  <2>2. CASE next.video = req[r].video /\ Busy(r)
    BY <1>0, <1>4, <1>7, <2>2
  <2>3. CASE MayStart(next.video) /\ req[r] = Done
    BY <1>4, <1>7, <2>3 DEF MayStart, OneAtATime, Alone
  <2> QED BY <1>3, <2>1, <2>2, <2>3
<1>8. \A q, p \in Requests : q # p /\ Busy(q)' /\ Busy(p)' => req'[q].video # req'[p].video
  <2>1. ASSUME NEW q \in Requests, q # r PROVE Busy(q)' <=> Busy(q)
    BY <1>4, <2>1 DEF Busy
  <2> QED BY <1>0, <1>4, <1>7, <2>1
<1>9. ASSUME NEW q \in Requests, Busy(q)' PROVE GoesBy(req[q])'
  <2>1. CASE q = r
    BY <1>2, <1>9, <2>1
  <2>2. CASE q # r
    <3>1. Busy(q) /\ GoesBy(req[q]) /\ req'[q] = req[q] /\ req[q].video \in Videos
      BY <1>0, <1>4, <1>9, <2>2 DEF Busy
    <3>2. video'[req[q].video].slot = video[req[q].video].slot /\ post'[req[q].video] = post[req[q].video]
      BY <1>2, <1>6, <2>2, <3>1 DEF Within
    <3> QED BY <3>1, <3>2 DEF GoesBy
  <2> QED BY <2>1, <2>2
<1> QED BY <1>2, <1>5, <1>8, <1>9 DEF CallInv, Within

\* Neither the cadence nor the worker touches what a request goes by.
LEMMA OthersKeepCalls ==
    ASSUME CallInv,
           \/ \E times \in SUBSET Times : SaveCadence(times)
           \/ \E v \in Videos : Publishing(v)
           \/ UNCHANGED vars
    PROVE  CallInv'
<1>0. TypeInv /\ TypeInv'
  BY TypeStep DEF CallInv, Next
<1>1. CASE \E times \in SUBSET Times : SaveCadence(times)
  <2>1. PICK times \in SUBSET Times : SaveCadence(times)
    BY <1>1
  <2>2. UNCHANGED <<video, post, req>> /\ cadence' = times
    BY <2>1 DEF SaveCadence
  <2>3. slot' \in [Slots -> Slot] /\ \A s \in Slots : slot'[s].video = slot[s].video
    BY <1>0, <2>1, CadenceRows
  <2> QED BY <1>0, <2>2, <2>3 DEF CallInv, GoesBy, Busy
<1>2. CASE \E v \in Videos : Publishing(v)
  <2>1. PICK v \in Videos : Publishing(v)
    BY <1>2
  <2>2. /\ UNCHANGED <<slot, video, cadence, req>> /\ post' \in [Videos -> Post]
        /\ post[v] # NoPost /\ \A w \in Videos : w # v => post'[w] = post[w]
    BY <1>0, <2>1, PublishingRows
  <2>3. ASSUME NEW r \in Requests, Busy(r)' PROVE GoesBy(req[r])'
    <3>1. Busy(r) /\ GoesBy(req[r]) /\ req[r].video \in Videos
      BY <2>2, <2>3 DEF CallInv, Busy, TypeInv, Shaped
    <3>2. post[req[r].video] = NoPost => post'[req[r].video] = NoPost
      BY <2>2, <3>1
    <3> QED BY <2>2, <3>1, <3>2 DEF GoesBy, NoPost
  <2> QED BY <1>0, <2>2, <2>3 DEF CallInv, Busy
<1>3. CASE UNCHANGED vars
  BY <1>0, <1>3 DEF vars, CallInv, GoesBy, Busy, NoPost
<1> QED BY <1>1, <1>2, <1>3

LEMMA CallStep ==
    ASSUME OneAtATime, CallInv, [Next]_vars
    PROVE  CallInv'
<1>1. \/ \E r \in Requests : RequestStep(r)
      \/ \/ \E times \in SUBSET Times : SaveCadence(times)
         \/ \E v \in Videos : Publishing(v)
         \/ UNCHANGED vars
  BY DEF Next
<1> QED BY <1>1, RequestKeepsCalls, OthersKeepCalls

LEMMA CallInit == Init => CallInv
<1> SUFFICES ASSUME Init PROVE CallInv
  OBVIOUS
<1>1. TypeInv
  BY TypeInit
<1>2. \A r \in Requests : ~Busy(r)
  BY DEF Init, Done, Busy
<1>3. \A s \in Slots, v \in Videos : slot[s].video # v
  BY SlotAssignmentAssumption DEF Init
<1> QED BY <1>1, <1>2, <1>3 DEF CallInv

LEMMA CallsInvariant == ASSUME OneAtATime PROVE Spec => []CallInv
<1>1. CallInv /\ [Next]_vars => CallInv'
  BY CallStep
<1> QED BY <1>1, CallInit, PTL DEF Spec

-----------------------------------------------------------------------------
(* The slot a request writes is the one it read: transactions are          *)
(* serialized, or there is one request at all.                             *)

Reads == Serialized \/ Alone

AgreeInv ==
    /\ CallInv /\ SidesAgree
    /\ \A r \in Requests : req[r].at = "claim" => slot[req[r].slot].status # "ASSIGNED"

LEMMA SidesSame ==
    ASSUME SidesAgree, \A s \in Slots : slot'[s].video = slot[s].video,
           \A v \in Videos : video'[v].slot = video[v].slot
    PROVE  SidesAgree'
BY DEF SidesAgree

\* A slot that is claimed was free.
LEMMA ClaimOfFree ==
    ASSUME AgreeInv, NEW r \in Requests, NEW v \in Videos, req[r].at \in Claims,
           v = req[r].video, req[r].slot \in Slots,
           req[r].at = "assign" => slot[req[r].slot].status = "OPEN"
    PROVE  slot[req[r].slot].video = None /\ video[v].slot = None
<1>1. slot[req[r].slot].status # "ASSIGNED"
  BY DEF AgreeInv, Claims
<1>2. slot[req[r].slot] \in Slot
  BY DEF AgreeInv, CallInv, TypeInv, TypeOK
<1>3. video[v].slot = None
  BY DEF AgreeInv, CallInv, Busy, GoesBy, Claims
<1> QED BY <1>1, <1>2, <1>3, SlotRow

LEMMA AgreeStep ==
    ASSUME OneAtATime, Reads, AgreeInv, [Next]_vars
    PROVE  AgreeInv'
<1>0. /\ CallInv /\ CallInv' /\ SidesAgree /\ TypeInv /\ None \notin Slots \cup Videos
      /\ video \in [Videos -> Video]
  BY CallStep, SlotAssignmentAssumption DEF AgreeInv, CallInv, TypeInv, TypeOK
<1>1. CASE \E r \in Requests : RequestStep(r)
  <2>1. PICK r \in Requests : RequestStep(r)
    BY <1>1
  <2>2. PICK v \in Videos : Mine(r, v) /\ Rows(r, v)
    BY <1>0, <2>1, RequestRows
  <2>3. SidesAgree'
    <3>1. CASE Quiet
      BY <1>0, <3>1, SidesSame DEF Quiet
    <3>2. CASE /\ Claimed(req[r].slot, v) /\ post' = post
               /\ req[r].at \in Claims /\ v = req[r].video /\ req[r].slot \in Slots
               /\ req[r].at = "assign" => slot[req[r].slot].status = "OPEN"
      <4>1. slot[req[r].slot].video = None /\ video[v].slot = None
        BY <3>2, ClaimOfFree
      <4> QED BY <1>0, <3>2, <4>1 DEF Claimed, SidesAgree
    <3>3. ASSUME NEW s \in Slots, Freed(s, v), video[v].slot = s
          PROVE  SidesAgree'
      BY <1>0, <3>3 DEF Freed, SidesAgree
    <3>4. ASSUME NEW s \in Slots, Posted(s, v)
          PROVE  SidesAgree'
      BY <1>0, <3>4, SidesSame DEF Posted
    <3> QED BY <2>2, <3>1, <3>2, <3>3, <3>4 DEF Rows
  <2>4. ASSUME NEW q \in Requests, req'[q].at = "claim"
        PROVE  slot'[req'[q].slot].status # "ASSIGNED"
    <3>1. CASE Serialized
      BY <1>0, <2>4, <3>1 DEF CallInv, TypeInv, Shaped
    <3>2. CASE Alone
      <4>1. q = r /\ req[r] \in Request /\ req \in [Requests -> Request]
        BY <1>0, <3>2 DEF Alone, TypeInv, TypeOK
      <4>2. ASSUME NEW next, Step(r, next) PROVE req'[r] = next
        BY <4>1, <4>2 DEF Step
      <4>3. CASE Assign(r) \/ Claim(r)
        <5>1. CASE End(r)
          BY <2>4, <4>1, <4>2, <5>1, DoneIsIdle DEF End
        <5>2. CASE UNCHANGED slot /\ slot[req[r].slot].status = "OPEN" /\ Step(r, [req[r] EXCEPT !.at = "claim"])
          <6>1. req'[r] = [req[r] EXCEPT !.at = "claim"]
            BY <4>2, <5>2
          <6> QED BY <4>1, <5>2, <6>1 DEF Request
        <5>3. CASE Step(r, [req[r] EXCEPT !.at = "materialize"])
          <6>1. req'[r] = [req[r] EXCEPT !.at = "materialize"]
            BY <4>2, <5>3
          <6> QED BY <2>4, <4>1, <6>1 DEF Request
        <5> QED BY <1>0, <4>3, <5>1, <5>2, <5>3, AssignRows
      <4>4. CASE ~(Assign(r) \/ Claim(r))
        <5>1. CASE End(r)
          BY <2>4, <4>1, <4>2, <5>1, DoneIsIdle DEF End
        <5>2. CASE \/ DeletePosts(r) \/ DeleteMedia(r) \/ DeleteRow(r)
          <6>1. ASSUME NEW at \in {"delete_media", "delete_row"}, Step(r, [req[r] EXCEPT !.at = at])
                PROVE  req'[r].at # "claim"
            BY <4>1, <4>2, <6>1 DEF Request
          <6> QED BY <1>0, <2>4, <4>1, <5>1, <5>2, <6>1, DeleteMoves
        <5>3. CASE UnassignPosts(r)
          <6>1. CASE Step(r, [req[r] EXCEPT !.at = "unassign_write"])
            <7>1. req'[r] = [req[r] EXCEPT !.at = "unassign_write"]
              BY <4>2, <6>1
            <7> QED BY <2>4, <4>1, <7>1 DEF Request
          <6> QED BY <5>1, <5>3, <6>1 DEF UnassignPosts
        <5>4. ASSUME NEW w \in Videos, NEW s \in Slots, AssignStart(r, w, s) PROVE FALSE
          BY <2>4, <4>1, <4>2, <5>4 DEF AssignStart
        <5>5. ASSUME NEW w \in Videos, DeleteStart(r, w) PROVE FALSE
          BY <2>4, <4>1, <4>2, <5>5 DEF DeleteStart
        <5>6. ASSUME NEW s \in Slots, Unassign(r, s), ~End(r) PROVE FALSE
          BY <2>4, <4>1, <4>2, <5>6 DEF Unassign, Unschedule
        <5> QED BY <2>1, <4>4, <5>1, <5>2, <5>3, <5>4, <5>5, <5>6
                DEF RequestStep, Materialize, UnassignWrite, Unschedule, Crash
      <4> QED BY <4>3, <4>4
    <3> QED BY <3>1, <3>2 DEF Reads
  <2> QED BY <1>0, <2>3, <2>4 DEF AgreeInv
<1>2. CASE \E times \in SUBSET Times : SaveCadence(times)
  <2>1. PICK times \in SUBSET Times : SaveCadence(times)
    BY <1>2
  <2>2. UNCHANGED <<video, req>>
    BY <2>1 DEF SaveCadence
  <2>3. \A s \in Slots : /\ slot'[s].video = slot[s].video
                         /\ slot'[s].status = "ASSIGNED" => slot[s].status = "ASSIGNED"
    BY <1>0, <2>1, CadenceRows
  <2>4. SidesAgree'
    BY <1>0, <2>2, <2>3, SidesSame
  <2>5. \A r \in Requests : req[r].at = "claim" => req[r].slot \in Slots
    BY <1>0 DEF TypeInv, Shaped, Claims
  <2> QED BY <1>0, <2>2, <2>3, <2>4, <2>5 DEF AgreeInv
<1>3. CASE (\E v \in Videos : Publishing(v)) \/ UNCHANGED vars
  <2>1. UNCHANGED <<slot, video, req>>
    BY <1>3 DEF Publishing, vars
  <2> QED BY <1>0, <2>1, SidesSame DEF AgreeInv
<1> QED BY <1>1, <1>2, <1>3 DEF Next

LEMMA AgreeInvariant == ASSUME OneAtATime, Reads PROVE Spec => []AgreeInv
<1>1. Init => AgreeInv
  <2>1. Init => SidesAgree
    BY SlotAssignmentAssumption DEF Init, SidesAgree
  <2> QED BY <2>1, CallInit DEF AgreeInv, Init, Done
<1>2. AgreeInv /\ [Next]_vars => AgreeInv'
  BY AgreeStep
<1> QED BY <1>1, <1>2, PTL DEF Spec

-----------------------------------------------------------------------------
(* The posts, on a store that serializes: a removal sees the attempt.      *)

\* A post keeps the time of its slot after it started: a retry puts it back.
PostsInTime ==
    \A v \in Videos : post[v] # NoPost =>
        /\ post[v].status # "ABSENT" /\ video[v].slot # None
        /\ post[v].time = slot[video[v].slot].time

SlotInv == AgreeInv /\ PostsInTime

LEMMA PostsStep ==
    ASSUME OneAtATime, Serialized, SlotInv, [Next]_vars
    PROVE  PostsInTime'
<1>0. /\ AgreeInv /\ CallInv /\ TypeInv /\ PostsInTime /\ SidesAgree /\ None \notin Slots \cup Videos
      /\ slot \in [Slots -> Slot] /\ video \in [Videos -> Video] /\ post \in [Videos -> Post]
      /\ \A v \in Videos : video[v].slot \in Slots \cup {None}
  BY SlotAssignmentAssumption DEF SlotInv, AgreeInv, CallInv, TypeInv, TypeOK, Video
<1>1. CASE \E r \in Requests : RequestStep(r)
  <2>1. PICK r \in Requests : RequestStep(r)
    BY <1>1
  <2>2. PICK v \in Videos : Mine(r, v) /\ Rows(r, v)
    BY <1>0, <2>1, RequestRows
  <2>3. CASE Quiet
    BY <1>0, <2>3 DEF Quiet, PostsInTime
\* The claimed slot was free, so no post is due at it.
  <2>4. CASE /\ Claimed(req[r].slot, v) /\ post' = post
             /\ req[r].at \in Claims /\ v = req[r].video /\ req[r].slot \in Slots
             /\ req[r].at = "assign" => slot[req[r].slot].status = "OPEN"
    <3>1. slot[req[r].slot].video = None /\ video[v].slot = None
      BY <1>0, <2>4, ClaimOfFree
    <3>2. post[v] = NoPost
      BY <1>0, <3>1 DEF PostsInTime
    <3>3. ASSUME NEW w \in Videos, w # v, post[w] # NoPost
          PROVE  /\ video'[w].slot = video[w].slot
                 /\ slot'[video[w].slot] = slot[video[w].slot]
      <4>1. video[w].slot \in Slots /\ video[w].slot # req[r].slot
        BY <1>0, <2>4, <3>1, <3>3 DEF PostsInTime, SidesAgree
      <4> QED BY <2>4, <3>3, <4>1 DEF Claimed
    <3> QED BY <1>0, <2>4, <3>2, <3>3 DEF PostsInTime, NoPost
  <2>5. ASSUME NEW s \in Slots, Freed(s, v), video[v].slot = s, post[v].status # "STARTED"
        PROVE  PostsInTime'
    <3>1. post'[v] = NoPost
      BY <1>0, <2>5 DEF Freed, PostsInTime, Post
    <3>2. ASSUME NEW w \in Videos, w # v, post[w] # NoPost
          PROVE  /\ video'[w].slot = video[w].slot
                 /\ slot'[video[w].slot] = slot[video[w].slot]
      <4>1. video[w].slot \in Slots /\ video[w].slot # s
        BY <1>0, <2>5, <3>2 DEF PostsInTime, SidesAgree
      <4> QED BY <2>5, <3>2, <4>1 DEF Freed
    <3> QED BY <1>0, <2>5, <3>1, <3>2 DEF PostsInTime, Freed, NoPost
  <2>6. ASSUME NEW s \in Slots, Posted(s, v)
        PROVE  PostsInTime'
    BY <1>0, <2>6 DEF Posted, PostsInTime, NoPost
  <2> QED BY <2>2, <2>3, <2>4, <2>5, <2>6 DEF Rows
\* An assigned slot keeps its time.
<1>2. CASE \E times \in SUBSET Times : SaveCadence(times)
  <2>1. PICK times \in SUBSET Times : SaveCadence(times)
    BY <1>2
  <2>2. UNCHANGED <<video, post>>
    BY <2>1 DEF SaveCadence
  <2>3. ASSUME NEW v \in Videos, post[v] # NoPost
        PROVE  slot'[video[v].slot] = slot[video[v].slot]
    <3>1. video[v].slot \in Slots /\ slot[video[v].slot].video = v
      BY <1>0, <2>3 DEF PostsInTime, SidesAgree
    <3>2. slot[video[v].slot] \in Slot /\ v # None
      BY <1>0, <3>1
    <3>3. slot[video[v].slot].status = "ASSIGNED"
      BY <3>1, <3>2, SlotRow
    <3> QED BY <1>0, <2>1, <3>1, <3>3, CadenceRows
  <2> QED BY <1>0, <2>2, <2>3 DEF PostsInTime, NoPost
<1>3. CASE \E v \in Videos : Publishing(v)
  <2>1. PICK v \in Videos : Publishing(v)
    BY <1>3
  <2>2. /\ UNCHANGED <<slot, video>>
        /\ post[v] # NoPost /\ post'[v].status # "ABSENT" /\ post'[v].time = post[v].time
        /\ \A w \in Videos : w # v => post'[w] = post[w]
    BY <1>0, <2>1, PublishingRows
  <2> QED BY <1>0, <2>2 DEF PostsInTime, NoPost
<1>4. CASE UNCHANGED vars
  BY <1>0, <1>4 DEF vars, PostsInTime, NoPost
<1> QED BY <1>1, <1>2, <1>3, <1>4 DEF Next

LEMMA SlotInvariant == ASSUME OneAtATime, Serialized PROVE Spec => []SlotInv
<1>1. Init => PostsInTime
  BY DEF Init, PostsInTime
<1>2. SlotInv /\ [Next]_vars => PostsInTime'
  BY PostsStep
<1>3. Reads
  BY DEF Reads
<1>4. Spec => []AgreeInv
  BY <1>3, AgreeInvariant
<1> QED BY <1>1, <1>2, <1>4, PTL DEF Spec, SlotInv

-----------------------------------------------------------------------------
(* The theorems.                                                           *)

\* Every table holds rows of its type, on either store and whatever overlaps: a
\* slot that is gone, a video that was deleted and a request that died included.
THEOREM ScheduleTyped == Spec => []TypeOK
<1>1. TypeInv /\ [Next]_vars => TypeInv'
  BY TypeStep
<1>2. TypeInv => TypeOK
  BY DEF TypeInv
<1> QED BY <1>1, <1>2, TypeInit, PTL DEF Spec

\* assign_slot, unassign_slot, save_cadence_and_regenerate_slots: a slot and a
\* video always name each other, for any number of requests on SQLite, and on
\* Postgres as long as no two requests run at once.
THEOREM ScheduleAgrees == OneAtATime /\ Reads => (Spec => []SidesAgree)
<1> SUFFICES ASSUME OneAtATime, Reads PROVE Spec => []SidesAgree
  OBVIOUS
<1> QED BY AgreeInvariant, PTL DEF AgreeInv

\* queue_assignment.py: a post exists only for a scheduled video, and until it
\* starts it is due when its slot is.
THEOREM PostsFollow == OneAtATime /\ Serialized => (Spec => []PostFollowsSchedule)
<1> SUFFICES ASSUME OneAtATime, Serialized PROVE Spec => []PostFollowsSchedule
  OBVIOUS
<1>1. SlotInv => PostFollowsSchedule
  BY DEF SlotInv, PostsInTime, PostFollowsSchedule
<1> QED BY <1>1, SlotInvariant, PTL

\* assign_slot: a claim is never taken over, where ScheduleAgrees holds.
THEOREM ClaimsKept == OneAtATime /\ Reads => (Spec => ClaimIsKept)
<1> SUFFICES ASSUME OneAtATime, Reads PROVE Spec => ClaimIsKept
  OBVIOUS
<1> DEFINE ClaimKept == \A s \in Slots : slot[s].video # None => slot'[s].video \in {slot[s].video, None}
<1>1. ASSUME AgreeInv, Next PROVE ClaimKept
  <2>0. CallInv /\ TypeInv
    BY <1>1 DEF AgreeInv, CallInv
  <2>1. CASE \E r \in Requests : RequestStep(r)
    <3>1. PICK r \in Requests : RequestStep(r)
      BY <2>1
    <3>2. PICK v \in Videos : Mine(r, v) /\ Rows(r, v)
      BY <2>0, <3>1, RequestRows
    <3>3. CASE /\ Claimed(req[r].slot, v) /\ post' = post
               /\ req[r].at \in Claims /\ v = req[r].video /\ req[r].slot \in Slots
               /\ req[r].at = "assign" => slot[req[r].slot].status = "OPEN"
      BY <1>1, <3>3, ClaimOfFree DEF Claimed
    <3> QED BY <3>2, <3>3 DEF Rows, Quiet, Freed, Posted
  <2>2. CASE \E times \in SUBSET Times : SaveCadence(times)
    BY <2>0, <2>2, CadenceRows
  <2>3. CASE \E v \in Videos : Publishing(v)
    BY <2>3 DEF Publishing
  <2> QED BY <1>1, <2>1, <2>2, <2>3 DEF Next
<1>2. AgreeInv /\ [Next]_vars => [ClaimKept]_vars
  BY <1>1
<1> QED BY <1>2, AgreeInvariant, PTL DEF Spec, ClaimIsKept

\* unassign_slot, delete_video: no request takes the video of a post that was
\* attempted out of its slot.
THEOREM AttemptsKeepSlots == OneAtATime /\ Serialized => (Spec => AttemptKeepsSlot)
<1> SUFFICES ASSUME OneAtATime, Serialized PROVE Spec => AttemptKeepsSlot
  OBVIOUS
<1> DEFINE AttemptKept == \A v \in Videos : post[v].status = "STARTED" => video'[v].slot = video[v].slot
<1>1. ASSUME SlotInv, Next PROVE AttemptKept
  <2>0. CallInv /\ AgreeInv
    BY <1>1 DEF SlotInv, AgreeInv
  <2>1. CASE \E r \in Requests : RequestStep(r)
    <3>1. PICK r \in Requests : RequestStep(r)
      BY <2>1
    <3>2. PICK v \in Videos : Mine(r, v) /\ Rows(r, v)
      BY <2>0, <3>1, RequestRows
    <3>3. CASE /\ Claimed(req[r].slot, v) /\ post' = post
               /\ req[r].at \in Claims /\ v = req[r].video /\ req[r].slot \in Slots
               /\ req[r].at = "assign" => slot[req[r].slot].status = "OPEN"
      <4>1. post[v] = NoPost
        BY <1>1, <2>0, <3>3, ClaimOfFree DEF SlotInv, PostsInTime
      <4> QED BY <3>3, <4>1 DEF Claimed, NoPost
    <3> QED BY <3>2, <3>3 DEF Rows, Quiet, Freed, Posted
  <2>2. CASE \E times \in SUBSET Times : SaveCadence(times)
    BY <2>2 DEF SaveCadence
  <2>3. CASE \E v \in Videos : Publishing(v)
    BY <2>3 DEF Publishing
  <2> QED BY <1>1, <2>1, <2>2, <2>3 DEF Next
<1>2. SlotInv /\ [Next]_vars => [AttemptKept]_vars
  BY <1>1
<1> QED BY <1>2, SlotInvariant, PTL DEF Spec, AttemptKeepsSlot
=============================================================================
