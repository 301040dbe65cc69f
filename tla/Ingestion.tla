------------------------------ MODULE Ingestion ------------------------------
(***************************************************************************)
(* process_content: the command of the local installation that takes each  *)
(* file of content/incoming through inspection, transcription, caption,    *)
(* classification and the claim of a slot (media/processing.py, with       *)
(* media/{inspection,transcription,classification,caption}.py and the      *)
(* methods of the store it calls).  A file is known by its content when it *)
(* is processed and by its path when the files are put in order.  The      *)
(* command is run by a person, one run at a time, and may die between any  *)
(* two of its steps.  Other commands add slots whenever they like, and     *)
(* people rename the files that no run has still to do.                    *)
(***************************************************************************)
EXTENDS Naturals, Sequences, FiniteSets, SequencesExt

CONSTANTS
    Files,          \* the files, one per content
    Names,          \* the names a file can have in content/incoming
    Slots,          \* numbered in the order of their times
    PillarOf,       \* the pillar a slot is for
    Scores,         \* similarity scores and confidences
    MinSimilarity,  \* EMBEDDING_MIN_SIMILARITY, AUTO_ASSIGN_THRESHOLD
    MinMargin,      \* EMBEDDING_MIN_MARGIN
    CaptionModes,   \* CAPTION_MODE: some of "transcript_auto", "manual", "none"
    None

VARIABLES
    place,  \* where a file is: its name in content/incoming, or another directory
    row,    \* its row of videos
    seen,   \* the known videos, in the order of created_at
    slot,   \* content_slots: "absent", "open", or the video a slot is assigned to
    posts,  \* videos with a materialized post
    run,    \* the running command
    cut     \* history: videos whose run died between the claim and ASSIGNED

vars == <<place, row, seen, slot, posts, run, cut>>

Pillars == {PillarOf[s] : s \in Slots}
Modes == {"fifo", "pillar"}
NoRow == [status |-> "absent", inspected |-> FALSE, transcript |-> None, caption |-> None,
          pillar |-> None, slot |-> None, path |-> None, original |-> None]
Stages == {"idle", "next", "inspect", "transcribe", "caption", "classify", "select", "claim",
           "materialize", "move", "finish", "discard"}
Stopped == [at |-> "idle", todo |-> <<>>, slot |-> None, mode |-> "fifo",
            captions |-> "none", dry |-> FALSE, added |-> {}]

Statuses == {"absent", "DISCOVERED", "VALIDATED", "TRANSCRIBED", "TRANSCRIPTION_FAILED",
             "CLASSIFIED", "NEEDS_REVIEW", "FAILED", "ASSIGNED"}
Terminal == {"ASSIGNED", "FAILED", "NEEDS_REVIEW"}

TypeOK ==
    /\ place \in [Files -> Names \cup {"processed", "failed"}]
    /\ row \in [Files -> [status : Statuses, inspected : BOOLEAN,
                          transcript : {None, "speech", "silence"},
                          caption : CaptionModes \cup {"none", None},
                          pillar : Pillars \cup {None}, slot : Slots \cup {None},
                          path : Names \cup {None, "processed"},
                          original : Names \cup {None}]]
    /\ seen \in Seq(Files) /\ posts \subseteq Files /\ cut \subseteq Files
    /\ slot \in [Slots -> {"absent", "open"} \cup Files]
    /\ run.at \in Stages /\ run.mode \in Modes /\ run.captions \in CaptionModes \cup {"none"}
    /\ run.dry \in BOOLEAN /\ run.added \subseteq Slots /\ run.slot \in Slots \cup {None}
    /\ run.todo \in Seq(Files) /\ (run.at \notin {"idle", "next"} => run.todo # <<>>)

Init ==
    /\ place \in Injection(Files, Names)
    /\ row = [f \in Files |-> NoRow] /\ seen = <<>>
    /\ slot \in [Slots -> {"absent", "open"}]
    /\ posts = {} /\ run = Stopped /\ cut = {}

Incoming(f) == place[f] \in Names
File == Head(run.todo)
Video == row[File]
Goto(stage) == run' = [run EXCEPT !.at = stage]
NextFile == run' = [run EXCEPT !.at = "next", !.todo = Tail(run.todo), !.slot = None]
UpdateVideo(video) == row' = [row EXCEPT ![File] = video]

-----------------------------------------------------------------------------
(* Discovery.                                                              *)

\* All by modification time, which a touch or a copy changes.
FaultDiscoverByMtime(order) ==
    /\ ToSet(order) = {f \in Files : Incoming(f)} /\ IsInjective(order)

\* get_video_by_path: the rows, as numbered by created_at, that have a name for
\* their original_path.  It returns one of them.
VideosByPath(path) == {n \in DOMAIN seen : row[seen[n]].original = path}

\* discover_videos: known paths by the created_at of the row found for them, then
\* new ones by their modification time, which can be anything.
DiscoverVideos(order) ==
    /\ ToSet(order) = {f \in Files : Incoming(f)} /\ IsInjective(order)
    /\ \E key \in [ToSet(order) -> 1 .. Len(seen) + 1] :
          /\ \A f \in ToSet(order) :
                IF VideosByPath(place[f]) = {} THEN key[f] = Len(seen) + 1
                ELSE key[f] \in VideosByPath(place[f])
          /\ \A i, j \in DOMAIN order : i < j => key[order[i]] <= key[order[j]]

StartRun ==
    /\ run.at = "idle"
    /\ \E mode \in Modes, captions \in CaptionModes, dry \in BOOLEAN,
          order \in SeqOf(Files, Cardinality(Files)) :
          /\ DiscoverVideos(order) /\ order # <<>>
          /\ run' = [at |-> "next", todo |-> order, slot |-> None,
                     mode |-> mode, captions |-> captions, dry |-> dry, added |-> {}]
    /\ UNCHANGED <<place, row, seen, slot, posts, cut>>

EndRun ==
    /\ run.at = "next" /\ run.todo = <<>>
    /\ run' = Stopped
    /\ UNCHANGED <<place, row, seen, slot, posts, cut>>

-----------------------------------------------------------------------------
(* process_one.                                                            *)

\* get_video_by_hash, or insert_video.  A video that reached a terminal state
\* is left as it is.
Recognize ==
    /\ run.at = "next" /\ run.todo # <<>>
    /\ \/ /\ Video.status = "absent"
          /\ UpdateVideo([Video EXCEPT !.status = "DISCOVERED", !.original = place[File]])
          /\ seen' = Append(seen, File)
          /\ Goto("inspect")
       \/ Video.status \in Terminal /\ NextFile /\ UNCHANGED <<row, seen>>
       \/ Video.status \notin Terminal \cup {"absent"} /\ Goto("inspect") /\ UNCHANGED <<row, seen>>
    /\ UNCHANGED <<place, slot, posts, cut>>

\* A stage that finds the work of an earlier run done takes it as it is.
StageDone ==
    /\ \/ run.at = "inspect" /\ Video.inspected /\ Goto("transcribe")
       \/ /\ run.at = "transcribe" /\ Goto("caption")
          /\ Video.transcript # None \/ Video.status = "TRANSCRIPTION_FAILED"
       \/ run.at = "caption" /\ Video.caption # None /\ Goto("classify")
       \/ /\ run.at = "classify" /\ Goto("select")
          /\ run.mode = "fifo" \/ Video.pillar # None
    /\ UNCHANGED <<place, row, seen, slot, posts, cut>>

\* The row is FAILED first; then the file leaves content/incoming.
FailVideo ==
    /\ UpdateVideo([Video EXCEPT !.status = "FAILED"])
    /\ Goto("discard")

\* inspect_media, is_tiktok_compatible: ffprobe reads the file or not, and it
\* has the streams and the codecs or not.
Inspections == {"media", "MediaError"}

InspectMedia ==
    /\ run.at = "inspect" /\ ~Video.inspected
    /\ \E found \in Inspections :
       \/ /\ found = "media"
          /\ UpdateVideo([Video EXCEPT !.inspected = TRUE, !.status = "VALIDATED",
                                       !.path = place[File]])
          /\ Goto("transcribe")
       \/ found = "MediaError" /\ FailVideo
    /\ UNCHANGED <<place, seen, slot, posts, cut>>

MoveToFailed ==
    /\ run.at = "discard"
    /\ place' = [place EXCEPT ![File] = "failed"]
    /\ NextFile
    /\ UNCHANGED <<row, seen, slot, posts, cut>>

\* FasterWhisperTranscriber: a video without speech has an empty transcript.
Transcripts == {"speech", "silence"}

\* extract_audio and transcribe.  A failure of either stops the video only
\* where the pillar is needed.
Transcribe ==
    /\ run.at = "transcribe" /\ Video.transcript = None
    /\ Video.status # "TRANSCRIPTION_FAILED"
    /\ \/ /\ \E text \in Transcripts :
                UpdateVideo([Video EXCEPT !.transcript = text, !.status = "TRANSCRIBED"])
          /\ Goto("caption")
       \/ /\ run.mode = "fifo"
          /\ UpdateVideo([Video EXCEPT !.status = "TRANSCRIPTION_FAILED"])
          /\ Goto("caption")
       \/ run.mode = "pillar" /\ FailVideo
    /\ UNCHANGED <<place, seen, slot, posts, cut>>

\* The caption_source each CAPTION_MODE leaves; with transcript_auto and
\* neither a transcript nor a failure to get one, nothing is written yet.
CaptionSource ==
    IF run.captions = "transcript_auto"
    THEN IF Video.transcript # None THEN "transcript_auto"
         ELSE IF Video.status = "TRANSCRIPTION_FAILED" THEN "none" ELSE None
    ELSE run.captions

DeriveCaption ==
    /\ run.at = "caption" /\ Video.caption = None
    /\ UpdateVideo([Video EXCEPT !.caption = CaptionSource])
    /\ Goto("classify")
    /\ UNCHANGED <<place, seen, slot, posts, cut>>

\* _gate_decision: the best pillar must be similar enough, and clearly ahead of
\* the second.  Without speech there is nothing to embed.
GateDecision(top, second) ==
    Video.transcript = "speech" /\ top >= MinSimilarity /\ top - second >= MinMargin

\* The Claude classifier's own threshold; it is asked about silence, too.
ConfidentEnough(confidence) == Video.transcript # None /\ confidence >= MinSimilarity

\* EmbeddingClassifier.score: the similarities, the best first.
Rankings == {scores \in Scores \X Scores : scores[1] >= scores[2]}

Classify ==
    /\ run.at = "classify" /\ run.mode = "pillar" /\ Video.pillar = None
    /\ \/ \E pillar \in Pillars, scores \in Rankings :
                /\ GateDecision(scores[1], scores[2]) \/ ConfidentEnough(scores[1])
                /\ UpdateVideo([Video EXCEPT !.pillar = pillar, !.status = "CLASSIFIED"])
                /\ Goto("select")
       \/ \E scores \in Rankings :
                /\ ~(GateDecision(scores[1], scores[2]) /\ ConfidentEnough(scores[1]))
                /\ UpdateVideo([Video EXCEPT !.status = "NEEDS_REVIEW"])
                /\ NextFile
    /\ UNCHANGED <<place, seen, slot, posts, cut>>

\* No answer, or one that _validate_result does not accept.
ClassificationFails ==
    /\ run.at = "classify" /\ run.mode = "pillar" /\ Video.pillar = None
    /\ FailVideo
    /\ UNCHANGED <<place, seen, slot, posts, cut>>

\* The Claude classifier strips the transcript, and a video whose transcription
\* failed in an earlier fifo run has none: the exception ends the whole run.
ClassifyRaises ==
    /\ run.at = "classify" /\ run.mode = "pillar" /\ Video.pillar = None
    /\ Video.transcript = None
    /\ run' = Stopped
    /\ UNCHANGED <<place, row, seen, slot, posts, cut>>

\* select_slot_fifo, select_slot: the earliest open slot, of the video's pillar
\* in that mode.
Candidates ==
    {s \in Slots : slot[s] = "open" /\ (run.mode = "fifo" \/ PillarOf[s] = Video.pillar)}

SelectSlot ==
    /\ run.at = "select"
    /\ \/ (Candidates = {} \/ run.dry) /\ NextFile   \* WAITING_FOR_SLOT, WOULD_ASSIGN
       \/ /\ Candidates # {} /\ ~run.dry
          /\ \E s \in Candidates :
                /\ \A t \in Candidates : s <= t
                /\ run' = [run EXCEPT !.at = "claim", !.slot = s]
    /\ UNCHANGED <<place, row, seen, slot, posts, cut>>

\* The claim that also marks the video ASSIGNED.
FaultClaimMarksAssigned ==
    /\ run.at = "claim"
    /\ slot' = [slot EXCEPT ![run.slot] = File]
    /\ UpdateVideo([Video EXCEPT !.slot = run.slot, !.status = "ASSIGNED"])
    /\ Goto("materialize")
    /\ UNCHANGED <<place, seen, posts, cut>>

\* assign_slot: one transaction over both rows; the video's own slot is not
\* looked at, and its status does not change yet.
AssignSlot ==
    /\ run.at = "claim" /\ slot[run.slot] = "open"
    /\ slot' = [slot EXCEPT ![run.slot] = File]
    /\ UpdateVideo([Video EXCEPT !.slot = run.slot])
    /\ Goto("materialize")
    /\ UNCHANGED <<place, seen, posts, cut>>

MaterializePosts ==
    /\ run.at = "materialize"
    /\ posts' = posts \cup {File}
    /\ Goto("move")
    /\ UNCHANGED <<place, row, seen, slot, cut>>

MoveToProcessed ==
    /\ run.at = "move"
    /\ place' = [place EXCEPT ![File] = "processed"]
    /\ Goto("finish")
    /\ UNCHANGED <<row, seen, slot, posts, cut>>

\* The row that keeps the path of content/incoming.
FaultMarkAssigned ==
    /\ run.at = "finish"
    /\ UpdateVideo([Video EXCEPT !.status = "ASSIGNED"])
    /\ NextFile
    /\ UNCHANGED <<place, seen, slot, posts, cut>>

MarkAssigned ==
    /\ run.at = "finish"
    /\ UpdateVideo([Video EXCEPT !.status = "ASSIGNED", !.path = "processed"])
    /\ NextFile
    /\ UNCHANGED <<place, seen, slot, posts, cut>>

-----------------------------------------------------------------------------
\* The process dies, or the person interrupts it.
Die ==
    /\ run.at # "idle"
    /\ cut' = IF run.at \in {"materialize", "move", "finish"} THEN cut \cup {File} ELSE cut
    /\ run' = Stopped
    /\ UNCHANGED <<place, row, seen, slot, posts>>

\* generate_calendar adds a slot, whether or not process_content runs; run.added
\* is history and remembers the slots a run did not find at its start.
AddSlot(s) ==
    /\ slot[s] = "absent"
    /\ slot' = [slot EXCEPT ![s] = "open"]
    /\ run' = IF run.at = "idle" THEN run ELSE [run EXCEPT !.added = run.added \cup {s}]
    /\ UNCHANGED <<place, row, seen, posts, cut>>

\* A person renames a file that no run has still to do.
RenameFile(f, path) ==
    /\ Incoming(f) /\ f \notin ToSet(run.todo)
    /\ \A g \in Files : place[g] # path
    /\ place' = [place EXCEPT ![f] = path]
    /\ UNCHANGED <<row, seen, slot, posts, run, cut>>

ProcessOne ==
    \/ Recognize \/ StageDone \/ InspectMedia \/ MoveToFailed \/ Transcribe \/ DeriveCaption
    \/ Classify \/ ClassificationFails \/ ClassifyRaises \/ SelectSlot \/ AssignSlot
    \/ MaterializePosts \/ MoveToProcessed \/ MarkAssigned

Command == StartRun \/ EndRun \/ ProcessOne \/ Die

Next ==
    \/ Command
    \/ \E s \in Slots : AddSlot(s)
    \/ \E f \in Files, path \in Names : RenameFile(f, path)

Spec == Init /\ [][Next]_vars

-----------------------------------------------------------------------------
\* discover_videos keeps a waiting video's place: in fifo mode no slot that was
\* there when the run began goes to a video while one that was seen before it,
\* and was not refused, has none.  The order goes by paths, so this needs the
\* earlier video to lie, alone, under the path it was first seen at, and the
\* later one under a path that was not known before the earlier one was.
Waiting(f) == Incoming(f) /\ row[f].slot = None /\ row[f].status \notin Terminal
SamePath(f) ==
    row[f].original = place[f] /\ \A g \in Files \ {f} : row[g].original # place[f]
NotOvertaken ==
    [][\A i \in DOMAIN seen, j \in DOMAIN seen :
          /\ i < j /\ run.mode = "fifo"
          /\ row'[seen[j]].slot \notin {row[seen[j]].slot} \cup run.added
          /\ SamePath(seen[i])
          /\ \A k \in 1 .. i : row[seen[k]].original # place[seen[j]]
          => ~Waiting(seen[i])]_vars

\* A video that is reported ASSIGNED has all of it: the slot is its own, its
\* post exists, and its file is where the row says the publisher finds it.
AssignedIsComplete ==
    \A f \in Files :
        row[f].status = "ASSIGNED" =>
            /\ row[f].slot # None /\ slot[row[f].slot] = f
            /\ f \in posts
            /\ row[f].path = "processed" /\ place[f] = "processed"

\* A slot is lost to a video that has moved on, or a scheduled video is left
\* with a path to a file that is gone, only if a run died between the claim of
\* the slot and the row's ASSIGNED.
Astray(f) ==
    \/ \E s \in Slots : slot[s] = f /\ row[f].slot # s
    \/ run.at = "idle" /\ row[f].slot # None /\ row[f].path # place[f]
StrayNeedsDeath == \A f \in Files : Astray(f) => f \in cut
=============================================================================
