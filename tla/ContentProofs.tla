---------------------------- MODULE ContentProofs ----------------------------
(***************************************************************************)
(* Proofs about Captions, Ingestion and MediaStorage as MCContent puts     *)
(* them side by side, for any number of requests, texts, files, slots and  *)
(* videos; an owner may type what the generator makes.                     *)
(***************************************************************************)
EXTENDS MCContent, SequenceTheorems, TLAPS

(***************************************************************************)
(* Captions.                                                               *)
(***************************************************************************)
RequestState == [at : {"idle", "check", "write"}, kind : {"save", "generate"},
                 seen : [text : Captions, source : Sources], new : Captions, clear : BOOLEAN]

RowTypes == video \in Row /\ req \in [Requests -> RequestState]

\* Text that counts as the generator's own is what the generator makes.
Honest(text, source) == source = "transcript_auto" /\ text # None => text = Generated

\* What a request saw was honest when it saw it, and stays so: a write that
\* goes by it is honest whatever the video says by then.
ProvenanceInv ==
    /\ RowTypes
    /\ Honest(video.text, video.source) /\ video.hashtags = video.text
    /\ \A r \in Requests : req[r].at # "idle" =>
          /\ Honest(req[r].seen.text, req[r].seen.source)
          /\ req[r].kind = "generate" => req[r].new = Generated

\* A claimed post locks the caption: a write that saw it unlocked after the
\* worker read it is what raced records.
SentInv ==
    /\ RowTypes
    /\ post \in [status : {"PENDING", "PUBLISHING", "PUBLISHED", "FAILED", "UNKNOWN"}, id : BOOLEAN]
    /\ worker \in [at : {"idle", "read", "send"}, caption : Captions] /\ raced \in BOOLEAN
    /\ \A r \in Requests : req[r].at = "write" => req[r].clear
    /\ worker.at # "idle" => post.status = "PUBLISHING" /\ ~post.id
    /\ post.status = "PENDING" => ~post.id
    /\ post.status = "PUBLISHED" => post.id
    /\ ~raced /\ worker.at = "send" => worker.caption = video.text
    /\ ~raced /\ post.id => sent = video.text

-----------------------------------------------------------------------------
LEMMA AcceptedState ==
    ASSUME RowTypes, NEW r \in Requests, NEW b \in BOOLEAN
    PROVE  [req[r] EXCEPT !.at = "write", !.clear = b] \in RequestState
<1>1. PICK q \in RequestState : q = req[r]
  BY DEF RowTypes
<1>2. [q EXCEPT !.at = "write", !.clear = b] \in RequestState
  BY DEF RequestState
<1> QED BY <1>1, <1>2

LEMMA CaptionInit == Init => ProvenanceInv /\ SentInv
<1> SUFFICES ASSUME Init PROVE ProvenanceInv /\ SentInv
  OBVIOUS
<1>1. NoRequest \in RequestState /\ NoRequest.at = "idle"
  BY DEF NoRequest, RequestState, Captions, Sources
<1>2. req = [r \in Requests |-> NoRequest]
  BY DEF Init
<1>3. /\ video \in Row /\ video.hashtags = video.text
      /\ Honest(video.text, video.source)
  BY DEF Init, Row, Captions, Sources, Honest
<1>4. ProvenanceInv
  BY <1>1, <1>2, <1>3 DEF ProvenanceInv, RowTypes
<1>5. SentInv
  BY <1>1, <1>2, <1>4 DEF Init, SentInv, ProvenanceInv, Captions
<1> QED BY <1>4, <1>5

LEMMA EditedSource ==
    ASSUME NEW source \in Sources, NEW old, NEW new, Honest(old, source)
    PROVE  /\ SourceAfterManualEdit(source, old, new) \in Sources
           /\ Honest(new, SourceAfterManualEdit(source, old, new))
<1>1. CASE new = old
  BY <1>1 DEF SourceAfterManualEdit
<1>2. CASE new # old /\ new # None /\ GeneratedBase(source)
  BY <1>2 DEF SourceAfterManualEdit, Sources, Honest
<1>3. CASE new # old /\ ~(new # None /\ GeneratedBase(source))
  BY <1>3 DEF SourceAfterManualEdit, Sources, Honest
<1> QED BY <1>1, <1>2, <1>3

\* What a write leaves in the row.
LEMMA WrittenRow ==
    ASSUME ProvenanceInv, NEW r \in Requests, WriteCaption(r)
    PROVE  video' \in Row /\ Honest(video'.text, video'.source) /\ video'.hashtags = video'.text
<1> DEFINE source == IF req[r].kind = "generate" THEN "transcript_auto"
                     ELSE SourceAfterManualEdit(req[r].seen.source, req[r].seen.text, req[r].new)
<1>1. /\ req[r].at = "write" /\ req[r].new \in Captions
      /\ req[r].seen.source \in Sources /\ req[r].kind \in {"save", "generate"}
      /\ Honest(req[r].seen.text, req[r].seen.source)
  BY DEF ProvenanceInv, RowTypes, RequestState, WriteCaption
<1>2. source \in Sources /\ Honest(req[r].new, source)
  <2>1. CASE req[r].kind = "generate"
    BY <1>1, <2>1 DEF ProvenanceInv, Honest, Sources
  <2>2. CASE req[r].kind # "generate"
    BY <1>1, <2>2, EditedSource
  <2> QED BY <2>1, <2>2
<1> HIDE DEF source
<1>3. video' = video \/ video' = [text |-> req[r].new, source |-> source, hashtags |-> req[r].new]
  BY DEF WriteCaption, source
<1> QED BY <1>1, <1>2, <1>3 DEF ProvenanceInv, RowTypes, Row

LEMMA ProvenanceStep == ProvenanceInv /\ [Next]_vars => ProvenanceInv'
<1> SUFFICES ASSUME ProvenanceInv, [Next]_vars PROVE ProvenanceInv'
  OBVIOUS
<1> USE DEF ProvenanceInv, RowTypes, RequestState
<1>1. ASSUME NEW r \in Requests, ReadVideo(r) PROVE ProvenanceInv'
  BY <1>1 DEF ReadVideo, Row, Captions
<1>2. ASSUME NEW r \in Requests, CheckLock(r) PROVE ProvenanceInv'
  <2>1. PICK q \in {NoRequest, [req[r] EXCEPT !.at = "write", !.clear = ~Locked]} :
           req' = [req EXCEPT ![r] = q] /\ video' = video
    BY <1>2 DEF CheckLock
  <2>2. q \in RequestState
    <3>1. NoRequest \in RequestState
      BY DEF NoRequest, Captions, Sources
    <3>2. [req[r] EXCEPT !.at = "write", !.clear = ~Locked] \in RequestState
      <4>1. ASSUME NEW b \in BOOLEAN
            PROVE  [req[r] EXCEPT !.at = "write", !.clear = b] \in RequestState
        BY AcceptedState
      <4>2. (~Locked) \in BOOLEAN
        BY Zenon
      <4> QED BY <4>1, <4>2, Zenon
    <3> QED BY <2>1, <3>1, <3>2
  <2> QED BY <1>2, <2>1, <2>2 DEF NoRequest, CheckLock
<1>3. ASSUME NEW r \in Requests, WriteCaption(r) PROVE ProvenanceInv'
  <2>1. req' = [req EXCEPT ![r] = NoRequest] /\ NoRequest \in RequestState
    BY <1>3 DEF WriteCaption, NoRequest, Captions, Sources
  <2> QED BY <1>3, <2>1, WrittenRow DEF NoRequest
<1>4. ASSUME NEW r \in Requests, RequestDies(r) PROVE ProvenanceInv'
  BY <1>4 DEF RequestDies, NoRequest, Captions, Sources
<1>5. CASE PostStep
  BY <1>5 DEF PostStep, Claim, ReadCaption, Submit, NotSubmitted, Settle, Retry
<1>6. CASE UNCHANGED vars
  BY <1>6 DEF vars
<1> QED BY <1>1, <1>2, <1>3, <1>4, <1>5, <1>6 DEF Next, RequestStep

\* caption_editing.py (source_after_manual_edit, caption_provenance): requests
\* that go by an older caption never make the owner's text count as generated.
THEOREM ProvenanceStaysTrue == Spec => []ProvenanceIsTrue
<1>1. ProvenanceInv => ProvenanceIsTrue
  BY DEF ProvenanceInv, ProvenanceIsTrue, Provenance, Honest
<1> QED BY <1>1, CaptionInit, ProvenanceStep, PTL DEF Spec

-----------------------------------------------------------------------------
LEMMA SentStep == ProvenanceInv /\ ProvenanceInv' /\ SentInv /\ [Next]_vars => SentInv'
<1> SUFFICES ASSUME ProvenanceInv, ProvenanceInv', SentInv, [Next]_vars PROVE SentInv'
  OBVIOUS
<1>0. RowTypes /\ RowTypes'
  BY DEF ProvenanceInv
<1> USE DEF SentInv
<1>1. ASSUME NEW r \in Requests, ReadVideo(r) PROVE SentInv'
  BY <1>0, <1>1 DEF ReadVideo, RowTypes, RequestState
<1>2. ASSUME NEW r \in Requests, CheckLock(r) PROVE SentInv'
  <2>1. PICK q : /\ req' = [req EXCEPT ![r] = q]
                 /\ UNCHANGED <<video, post, worker, sent, raced>>
                 /\ \/ q = NoRequest
                    \/ q = [req[r] EXCEPT !.at = "write", !.clear = ~Locked] /\ ~Locked
    BY <1>2 DEF CheckLock
  <2>2. q.at = "write" => q.clear
    <3>1. CASE q = NoRequest
      BY <3>1 DEF NoRequest
    <3>2. CASE q = [req[r] EXCEPT !.at = "write", !.clear = ~Locked] /\ ~Locked
      <4>1. req[r] \in RequestState
        BY <1>0 DEF RowTypes
      <4>2. q.clear = ~Locked
        BY <3>2, <4>1 DEF RequestState
      <4> QED BY <3>2, <4>2
    <3> QED BY <2>1, <3>1, <3>2
  <2> QED BY <1>0, <2>1, <2>2 DEF RowTypes
<1>3. ASSUME NEW r \in Requests, WriteCaption(r) PROVE SentInv'
  <2>1. /\ req' = [req EXCEPT ![r] = NoRequest] /\ NoRequest.at = "idle"
        /\ UNCHANGED <<post, worker, sent>> /\ req[r].clear
    BY <1>3 DEF WriteCaption, NoRequest
  <2>2. (video' = video /\ raced' = raced) \/ raced' = (raced \/ Locked)
    BY <1>3, <2>1 DEF WriteCaption
  <2>3. raced' \in BOOLEAN /\ (~raced' => ~raced /\ (video' = video \/ ~Locked))
    BY <2>2 DEF Locked
  <2>4. ~Locked => worker.at = "idle" /\ ~post.id
    BY DEF Locked
  <2>5. \A q \in Requests : req'[q].at = "write" => req'[q].clear
    BY <2>1 DEF RowTypes
  <2> QED BY <1>0, <2>1, <2>3, <2>4, <2>5
<1>4. ASSUME NEW r \in Requests, RequestDies(r) PROVE SentInv'
  BY <1>0, <1>4 DEF RequestDies, NoRequest, RowTypes
<1>5. CASE Claim
  BY <1>0, <1>5 DEF Claim
<1>6. CASE ReadCaption
  BY <1>0, <1>6 DEF ReadCaption, RowTypes, Row
<1>7. CASE Submit
  <2>1. /\ video' = video /\ req' = req /\ sent' = worker.caption
        /\ worker' = [at |-> "idle", caption |-> None]
        /\ raced' \in BOOLEAN /\ (~raced' => worker.caption = video.text)
    BY <1>7 DEF Submit
  <2>2. worker' \in [at : {"idle", "read", "send"}, caption : Captions] /\ worker'.at = "idle"
    BY <2>1 DEF Captions
  <2>3. \/ post' = [status |-> "PUBLISHING", id |-> TRUE]
        \/ post' = [status |-> "UNKNOWN", id |-> FALSE]
    BY <1>7 DEF Submit
  <2>4. CASE post' = [status |-> "PUBLISHING", id |-> TRUE]
    <3>1. post'.status = "PUBLISHING" /\ post'.id = TRUE
      BY <2>4
    <3>2. post' \in [status : {"PENDING", "PUBLISHING", "PUBLISHED", "FAILED", "UNKNOWN"},
                     id : BOOLEAN]
      BY <2>4
    <3> QED BY <1>0, <2>1, <2>2, <3>1, <3>2
  <2>5. CASE post' = [status |-> "UNKNOWN", id |-> FALSE]
    <3>1. post'.status = "UNKNOWN" /\ post'.id = FALSE
      BY <2>5
    <3>2. post' \in [status : {"PENDING", "PUBLISHING", "PUBLISHED", "FAILED", "UNKNOWN"},
                     id : BOOLEAN]
      BY <2>5
    <3> QED BY <1>0, <2>1, <2>2, <3>1, <3>2
  <2> QED BY <2>3, <2>4, <2>5
<1>8. CASE NotSubmitted
  <2>1. UNCHANGED <<video, req, sent, raced>> /\ worker' = [at |-> "idle", caption |-> None]
    BY <1>8 DEF NotSubmitted
  <2>2. worker' \in [at : {"idle", "read", "send"}, caption : Captions] /\ worker'.at = "idle"
    BY <2>1 DEF Captions
  <2>3. \/ post' = [status |-> "PENDING", id |-> FALSE]
        \/ post' = [status |-> "FAILED", id |-> FALSE]
    BY <1>8 DEF NotSubmitted
  <2>4. CASE post' = [status |-> "PENDING", id |-> FALSE]
    <3>1. post'.status = "PENDING" /\ post'.id = FALSE
      BY <2>4
    <3>2. post' \in [status : {"PENDING", "PUBLISHING", "PUBLISHED", "FAILED", "UNKNOWN"},
                     id : BOOLEAN]
      BY <2>4
    <3> QED BY <1>0, <2>1, <2>2, <3>1, <3>2
  <2>5. CASE post' = [status |-> "FAILED", id |-> FALSE]
    <3>1. post'.status = "FAILED" /\ post'.id = FALSE
      BY <2>5
    <3>2. post' \in [status : {"PENDING", "PUBLISHING", "PUBLISHED", "FAILED", "UNKNOWN"},
                     id : BOOLEAN]
      BY <2>5
    <3> QED BY <1>0, <2>1, <2>2, <3>1, <3>2
  <2> QED BY <2>3, <2>4, <2>5
<1>9. CASE Settle
  BY <1>0, <1>9 DEF Settle
<1>10. CASE Retry
  BY <1>0, <1>10 DEF Retry
<1>11. CASE UNCHANGED vars
  BY <1>0, <1>11 DEF vars
<1> QED
  BY <1>1, <1>2, <1>3, <1>4, <1>5, <1>6, <1>7, <1>8, <1>9, <1>10, <1>11
  DEF Next, RequestStep, PostStep

\* routes/captions.py, worker.py: the owner sees the caption that was published,
\* unless a request that had looked at the posts wrote after the claim.
THEOREM PublishedIsShown == Spec => []PublishedCaptionIsShown
<1>1. SentInv => PublishedCaptionIsShown
  BY DEF SentInv, PublishedCaptionIsShown
<1> QED BY <1>1, CaptionInit, ProvenanceStep, SentStep, PTL DEF Spec

(***************************************************************************)
(* process_content.                                                        *)
(***************************************************************************)
File == Intake!File
Places == Names \cup {"processed", "failed"}
RowState == [status : Intake!Statuses, inspected : BOOLEAN,
             transcript : {None, "speech", "silence"},
             caption : CaptionModes \cup {"none", None},
             pillar : Intake!Pillars \cup {None}, slot : Slots \cup {None},
             path : Places \cup {None}, original : Places \cup {None}]
RunState == [at : Intake!Stages, todo : Seq(Files), slot : Slots \cup {None},
             mode : Intake!Modes, captions : CaptionModes \cup {"none"}, dry : BOOLEAN,
             added : SUBSET Slots]

IntakeTypes ==
    /\ place \in [Files -> Places]
    /\ row \in [Files -> RowState] /\ seen \in Seq(Files)
    /\ slot \in [Slots -> {"absent", "open"} \cup Files]
    /\ posts \subseteq Files /\ cut \subseteq Files
    /\ run \in RunState /\ (run.at \notin {"idle", "next"} => run.todo # <<>>)

\* What the stage of a run says of the file it is at.
Working == run.at \notin {"idle", "next", "discard"}
Holding == run.at \in {"materialize", "move", "finish"}
RunInv ==
    /\ Working => row[File].status \notin Intake!Terminal \cup {"absent"}
    /\ run.at = "discard" => row[File].status = "FAILED"
    /\ run.at = "claim" => run.slot \in Slots /\ ~run.dry
    /\ Holding => run.slot \in Slots /\ row[File].slot = run.slot /\ slot[run.slot] = File
    /\ run.at \in {"move", "finish"} => File \in posts
    /\ run.at = "finish" => place[File] = "processed"

\* A slot and the row of its video name each other, and a row that names a slot
\* is ASSIGNED, or is about to be, unless a run died on it.
CutInv ==
    \A f \in Files \ cut :
        /\ \A s \in Slots : slot[s] = f => row[f].slot = s
        /\ row[f].slot # None => row[f].status = "ASSIGNED" \/ (Holding /\ File = f)

IntakeInv == IntakeTypes /\ RunInv /\ CutInv /\ Intake!AssignedIsComplete

\* Video n of seen comes before g: it is found by its path, and g's is a later one.
Ahead(n, g) ==
    /\ Intake!Incoming(g) /\ Intake!SamePath(seen[n])
    /\ \A k \in 1 .. n : row[seen[k]].original # place[g]

\* The files still to do lie in content/incoming, but for the one that was just
\* moved, and none comes after one it is ahead of.  A waiting file the run has
\* passed found no open slot, and there is none since but those added.
Known(f) == \E n \in DOMAIN seen : seen[n] = f
Todo == run.todo
NoneOpen(r, open) == \A s \in Slots : open[s] = "open" => s \in r.added
OrderInv ==
    /\ \A m, n \in DOMAIN seen : seen[m] = seen[n] => m = n
    /\ \A f \in Files : Known(f) <=> row[f].status # "absent"
    /\ \A i, j \in DOMAIN Todo : Todo[i] = Todo[j] => i = j
    /\ \A i \in DOMAIN Todo : Intake!Incoming(Todo[i]) \/ (i = 1 /\ run.at = "finish")
    /\ \A f \in Files :
          /\ row[f].path \in Names \cup {None, "processed"}
          /\ row[f].original \in Names \cup {None}
          /\ row[f].status = "absent" => row[f].original = None
    /\ \A i, j \in DOMAIN Todo, n \in DOMAIN seen :
          i < j /\ Todo[j] = seen[n] => ~Ahead(n, Todo[i])
    /\ \A f \in Files :
          run.at # "idle" /\ run.mode = "fifo" /\ Known(f) /\ Intake!Waiting(f)
              => \/ \E i \in DOMAIN Todo : Todo[i] = f
                 \/ run.dry \/ NoneOpen(run, slot)

LEMMA HeadOfTodo ==
    ASSUME IntakeTypes, Todo # <<>>
    PROVE  /\ File \in Files /\ File = Todo[1] /\ 1 \in DOMAIN Todo
           /\ Tail(Todo) \in Seq(Files) /\ Len(Tail(Todo)) = Len(Todo) - 1
           /\ \A i \in 1 .. Len(Tail(Todo)) : Tail(Todo)[i] = Todo[i + 1]
           /\ Len(Todo) \in Nat \ {0} /\ row[File] \in RowState
<1>1. Todo \in Seq(Files)
  BY DEF IntakeTypes, RunState, Todo
<1>2. Len(Todo) \in Nat \ {0} /\ 1 \in DOMAIN Todo /\ Head(Todo) = Todo[1]
  BY <1>1
<1> QED BY <1>1, <1>2, HeadTailProperties DEF File, Intake!File, Todo, IntakeTypes

LEMMA GotoRun ==
    ASSUME IntakeTypes, NEW stage \in Intake!Stages, Intake!Goto(stage)
    PROVE  /\ run' \in RunState /\ run'.at = stage /\ run'.todo = run.todo /\ run'.slot = run.slot
           /\ run'.mode = run.mode /\ run'.dry = run.dry /\ run'.added = run.added
           /\ File' = File
BY DEF IntakeTypes, RunState, Intake!Goto, File, Intake!File

LEMMA NextRun ==
    ASSUME IntakeTypes, Todo # <<>>, Intake!NextFile
    PROVE  /\ run' \in RunState /\ run'.at = "next" /\ run'.todo = Tail(run.todo)
           /\ run'.mode = run.mode /\ run'.dry = run.dry /\ run'.added = run.added
<1>1. Tail(run.todo) \in Seq(Files)
  BY HeadOfTodo DEF Todo
<1> QED BY <1>1 DEF IntakeTypes, RunState, Intake!NextFile, Intake!Stages

LEMMA StopRun ==
    ASSUME run' = Intake!Stopped
    PROVE  run' \in RunState /\ run'.at = "idle" /\ run'.todo = <<>>
<1>1. <<>> \in Seq(Files)
  OBVIOUS
<1> QED BY <1>1 DEF RunState, Intake!Stopped, Intake!Stages, Intake!Modes

\* A step that neither takes nor gives up a slot, and leaves what is ASSIGNED as
\* it is.
LEMMA PassStep ==
    ASSUME IntakeInv, (~Holding /\ ~Holding') \/ (Holding /\ Holding' /\ File' = File),
           IntakeTypes', RunInv', UNCHANGED <<posts, cut>>,
           \A f \in Files : /\ row'[f].slot = row[f].slot
                            /\ row'[f].status = "ASSIGNED" <=> row[f].status = "ASSIGNED"
                            /\ row[f].status = "ASSIGNED" =>
                                  row'[f].path = row[f].path /\ place'[f] = place[f],
           \A s \in Slots, f \in Files : slot'[s] = f <=> slot[s] = f
    PROVE  IntakeInv'
<1>1. CutInv'
  BY DEF IntakeInv, CutInv
<1>2. Intake!AssignedIsComplete'
  <2> SUFFICES ASSUME NEW f \in Files, row'[f].status = "ASSIGNED"
               PROVE  /\ row'[f].slot # None /\ slot'[row'[f].slot] = f /\ f \in posts'
                      /\ row'[f].path = "processed" /\ place'[f] = "processed"
    BY DEF Intake!AssignedIsComplete
  <2>1. /\ row[f].slot # None /\ slot[row[f].slot] = f /\ f \in posts
        /\ row[f].path = "processed" /\ place[f] = "processed"
    BY DEF IntakeInv, Intake!AssignedIsComplete
  <2>2. row[f].slot \in Slots
    BY <2>1 DEF IntakeInv, IntakeTypes, RowState
  <2> QED BY <2>1, <2>2
<1> QED BY <1>1, <1>2 DEF IntakeInv

\* The next stage of the file, with what its row says then.
LEMMA StageStep ==
    ASSUME IntakeInv, Todo # <<>>, ~Holding, row[File].status \notin Intake!Terminal,
           NEW stage \in {"inspect", "transcribe", "caption", "classify", "select", "discard"},
           Intake!Goto(stage), NEW new \in RowState, row' = [row EXCEPT ![File] = new],
           new.slot = row[File].slot,
           IF stage = "discard" THEN new.status = "FAILED"
           ELSE new.status \notin Intake!Terminal \cup {"absent"},
           UNCHANGED <<place, slot, posts, cut>>, seen' \in Seq(Files)
    PROVE  IntakeInv'
<1>1. /\ run' \in RunState /\ run'.at = stage /\ run'.todo = run.todo /\ File' = File
  BY GotoRun DEF IntakeInv, Intake!Stages
<1>2. /\ File \in Files /\ row' \in [Files -> RowState] /\ row'[File] = new
      /\ \A f \in Files \ {File} : row'[f] = row[f]
  BY HeadOfTodo DEF IntakeInv, IntakeTypes
<1>3. IntakeTypes'
  BY <1>1, <1>2 DEF IntakeInv, IntakeTypes, Todo
<1>4. RunInv' /\ ~Holding'
  BY <1>1, <1>2 DEF RunInv, Working, Holding, Intake!Terminal
<1>5. new.status # "ASSIGNED" /\ row[File].status # "ASSIGNED"
  BY DEF Intake!Terminal
<1> QED BY <1>2, <1>3, <1>4, <1>5, PassStep

\* The run is done with the file.
LEMMA NextStep ==
    ASSUME IntakeInv, Todo # <<>>, ~Holding, Intake!NextFile,
           row' \in [Files -> RowState],
           \A f \in Files : /\ row'[f].slot = row[f].slot
                            /\ row'[f].status = "ASSIGNED" <=> row[f].status = "ASSIGNED"
                            /\ row[f].status = "ASSIGNED" =>
                                  row'[f].path = row[f].path /\ place'[f] = place[f],
           place' \in [Files -> Places],
           UNCHANGED <<seen, slot, posts, cut>>
    PROVE  IntakeInv'
<1>1. run' \in RunState /\ run'.at = "next"
  BY NextRun DEF IntakeInv
<1>2. IntakeTypes'
  BY <1>1 DEF IntakeInv, IntakeTypes
<1>3. RunInv' /\ ~Holding'
  BY <1>1 DEF RunInv, Working, Holding
<1> QED BY <1>2, <1>3, PassStep

LEMMA IntakeInit == Intake!Init => IntakeInv
<1> SUFFICES ASSUME Intake!Init PROVE IntakeInv
  OBVIOUS
<1>1. run \in RunState /\ run.at = "idle"
  BY StopRun DEF Intake!Init, RunState, Intake!Stopped, Intake!Stages, Intake!Modes
<1>2. Intake!NoRow \in RowState /\ Intake!NoRow.slot = None /\ Intake!NoRow.status = "absent"
  BY DEF Intake!NoRow, RowState, Intake!Statuses
<1>3. IntakeTypes
  BY <1>1, <1>2 DEF Intake!Init, IntakeTypes, Intake!Injection, Places
<1>4. RunInv
  BY <1>1 DEF RunInv, Working, Holding
<1>5. CutInv /\ Intake!AssignedIsComplete
  BY <1>2, ContentAssumption DEF Intake!Init, CutInv, Intake!AssignedIsComplete
<1> QED BY <1>3, <1>4, <1>5 DEF IntakeInv

\* process_one up to the claim: what becomes of the row, and of the run.
StageRow(new) ==
    /\ new \in RowState /\ row' = [row EXCEPT ![File] = new] /\ new.slot = row[File].slot
    /\ new.original = row[File].original /\ new.path \in {row[File].path, place[File]}
    /\ \/ \E stage \in {"inspect", "transcribe", "caption", "classify", "select"} :
             Intake!Goto(stage) /\ new.status \notin Intake!Terminal \cup {"absent"}
       \/ Intake!Goto("discard") /\ new.status = "FAILED"
       \/ Intake!NextFile /\ new.status = "NEEDS_REVIEW"

LEMMA StageRows ==
    ASSUME IntakeInv,
           \/ Intake!StageDone \/ Intake!InspectMedia \/ Intake!Transcribe \/ Intake!DeriveCaption
           \/ Intake!Classify \/ Intake!ClassificationFails
    PROVE  /\ \E new \in RowState : StageRow(new)
           /\ run.at \in {"inspect", "transcribe", "caption", "classify"} /\ Todo # <<>>
           /\ row[File].status \notin Intake!Terminal \cup {"absent"}
           /\ UNCHANGED <<place, seen, slot, posts, cut>>
<1> DEFINE old == row[File]
<1>0. /\ run.at \in {"inspect", "transcribe", "caption", "classify"}
      /\ UNCHANGED <<place, seen, slot, posts, cut>>
  BY DEF Intake!StageDone, Intake!InspectMedia, Intake!Transcribe, Intake!DeriveCaption,
         Intake!Classify, Intake!ClassificationFails
<1>1. /\ Todo # <<>> /\ old \in RowState /\ old.status \notin Intake!Terminal \cup {"absent"}
      /\ row = [row EXCEPT ![File] = old] /\ place[File] \in Places
  BY <1>0, HeadOfTodo DEF IntakeInv, IntakeTypes, Todo, RunInv, Working
<1>2. File = Intake!File /\ Intake!Video = old
  BY DEF File, Intake!Video
<1> SUFFICES \E new \in RowState : StageRow(new)
  BY <1>0, <1>1
<1>3. ASSUME NEW new \in RowState, row' = [row EXCEPT ![File] = new], new.slot = old.slot,
             new.original = old.original, new.path \in {old.path, place[File]},
             \/ \E stage \in {"transcribe", "caption", "classify", "select"} :
                   Intake!Goto(stage) /\ new.status \notin Intake!Terminal \cup {"absent"}
             \/ Intake!Goto("discard") /\ new.status = "FAILED"
             \/ Intake!NextFile /\ new.status = "NEEDS_REVIEW"
      PROVE  \E n \in RowState : StageRow(n)
  <2>1. StageRow(new)
    BY <1>3 DEF StageRow
  <2> QED BY <2>1
<1>4. ASSUME Intake!FailVideo PROVE \E n \in RowState : StageRow(n)
  <2> DEFINE new == [old EXCEPT !.status = "FAILED"]
  <2>1. /\ new \in RowState /\ new.status = "FAILED" /\ new.slot = old.slot
        /\ new.original = old.original /\ new.path \in {old.path, place[File]}
    BY <1>1 DEF RowState, Intake!Statuses
  <2>2. row' = [row EXCEPT ![File] = new] /\ Intake!Goto("discard")
    BY <1>2, <1>4 DEF Intake!FailVideo, Intake!UpdateVideo
  <2> HIDE DEF new, old
  <2> QED BY <1>3, <2>1, <2>2
<1>5. CASE Intake!StageDone
  <2>1. row' = [row EXCEPT ![File] = old]
    BY <1>1, <1>5 DEF Intake!StageDone
  <2>2. PICK stage \in {"transcribe", "caption", "classify", "select"} : Intake!Goto(stage)
    BY <1>5 DEF Intake!StageDone
  <2> HIDE DEF old
  <2> QED BY <1>1, <1>3, <2>1, <2>2
<1>6. CASE Intake!InspectMedia
  <2> DEFINE new == [old EXCEPT !.inspected = TRUE, !.status = "VALIDATED", !.path = place[File]]
  <2>1. /\ new \in RowState /\ new.status = "VALIDATED" /\ new.slot = old.slot
        /\ new.original = old.original /\ new.path \in {old.path, place[File]}
    BY <1>1 DEF RowState, Intake!Statuses
  <2>2. \/ Intake!FailVideo
        \/ row' = [row EXCEPT ![File] = new] /\ Intake!Goto("transcribe")
    BY <1>2, <1>6 DEF Intake!InspectMedia, Intake!UpdateVideo
  <2> HIDE DEF new, old
  <2> QED BY <1>3, <1>4, <2>1, <2>2 DEF Intake!Terminal
<1>7. CASE Intake!Transcribe
  <2>1. CASE \E text \in Intake!Transcripts :
                /\ row' = [row EXCEPT ![File] = [old EXCEPT !.transcript = text,
                                                            !.status = "TRANSCRIBED"]]
                /\ Intake!Goto("caption")
    <3>1. PICK text \in Intake!Transcripts :
                /\ row' = [row EXCEPT ![File] = [old EXCEPT !.transcript = text,
                                                            !.status = "TRANSCRIBED"]]
                /\ Intake!Goto("caption")
      BY <2>1
    <3> DEFINE new == [old EXCEPT !.transcript = text, !.status = "TRANSCRIBED"]
    <3>2. /\ new \in RowState /\ new.status = "TRANSCRIBED" /\ new.slot = old.slot
          /\ new.original = old.original /\ new.path \in {old.path, place[File]}
      BY <1>1 DEF RowState, Intake!Statuses, Intake!Transcripts
    <3>3. row' = [row EXCEPT ![File] = new]
      BY <3>1
    <3> HIDE DEF new, old
    <3> QED BY <1>3, <3>1, <3>2, <3>3 DEF Intake!Terminal
  <2>2. CASE /\ row' = [row EXCEPT ![File] = [old EXCEPT !.status = "TRANSCRIPTION_FAILED"]]
             /\ Intake!Goto("caption")
    <3> DEFINE new == [old EXCEPT !.status = "TRANSCRIPTION_FAILED"]
    <3>1. /\ new \in RowState /\ new.status = "TRANSCRIPTION_FAILED" /\ new.slot = old.slot
          /\ new.original = old.original /\ new.path \in {old.path, place[File]}
      BY <1>1 DEF RowState, Intake!Statuses
    <3>2. row' = [row EXCEPT ![File] = new]
      BY <2>2
    <3> HIDE DEF new, old
    <3> QED BY <1>3, <2>2, <3>1, <3>2 DEF Intake!Terminal
  <2> QED BY <1>2, <1>4, <1>7, <2>1, <2>2 DEF Intake!Transcribe, Intake!UpdateVideo
<1>8. CASE Intake!DeriveCaption
  <2> DEFINE new == [old EXCEPT !.caption = Intake!CaptionSource]
  <2>1. Intake!CaptionSource \in CaptionModes \cup {"none", None}
    BY DEF Intake!CaptionSource, IntakeInv, IntakeTypes, RunState
  <2>2. /\ new \in RowState /\ new.status = old.status /\ new.slot = old.slot
        /\ new.original = old.original /\ new.path \in {old.path, place[File]}
    BY <1>1, <2>1 DEF RowState
  <2>3. row' = [row EXCEPT ![File] = new] /\ Intake!Goto("classify")
    BY <1>2, <1>8 DEF Intake!DeriveCaption, Intake!UpdateVideo
  <2> HIDE DEF new, old
  <2> QED BY <1>1, <1>3, <2>2, <2>3
<1>9. CASE Intake!Classify
  <2>1. ASSUME NEW pillar \in Intake!Pillars, Intake!Goto("select"),
               row' = [row EXCEPT ![File] = [old EXCEPT !.pillar = pillar, !.status = "CLASSIFIED"]]
        PROVE  \E n \in RowState : StageRow(n)
    <3> DEFINE new == [old EXCEPT !.pillar = pillar, !.status = "CLASSIFIED"]
    <3>1. /\ new \in RowState /\ new.status = "CLASSIFIED" /\ new.slot = old.slot
          /\ new.original = old.original /\ new.path \in {old.path, place[File]}
      BY <1>1 DEF RowState, Intake!Statuses
    <3>2. row' = [row EXCEPT ![File] = new]
      BY <2>1
    <3> HIDE DEF new, old
    <3> QED BY <1>3, <2>1, <3>1, <3>2 DEF Intake!Terminal
  <2>2. ASSUME Intake!NextFile,
               row' = [row EXCEPT ![File] = [old EXCEPT !.status = "NEEDS_REVIEW"]]
        PROVE  \E n \in RowState : StageRow(n)
    <3> DEFINE new == [old EXCEPT !.status = "NEEDS_REVIEW"]
    <3>1. /\ new \in RowState /\ new.status = "NEEDS_REVIEW" /\ new.slot = old.slot
          /\ new.original = old.original /\ new.path \in {old.path, place[File]}
      BY <1>1 DEF RowState, Intake!Statuses
    <3>2. row' = [row EXCEPT ![File] = new]
      BY <2>2
    <3> HIDE DEF new, old
    <3> QED BY <1>3, <2>2, <3>1, <3>2
  <2> QED BY <1>2, <1>9, <2>1, <2>2 DEF Intake!Classify, Intake!UpdateVideo
<1>10. CASE Intake!ClassificationFails
  BY <1>4, <1>10 DEF Intake!ClassificationFails
<1> QED BY <1>5, <1>6, <1>7, <1>8, <1>9, <1>10

LEMMA StagesStep ==
    ASSUME IntakeInv,
           \/ Intake!StageDone \/ Intake!InspectMedia \/ Intake!Transcribe \/ Intake!DeriveCaption
           \/ Intake!Classify \/ Intake!ClassificationFails
    PROVE  IntakeInv'
<1>1. /\ run.at \in {"inspect", "transcribe", "caption", "classify"} /\ Todo # <<>> /\ ~Holding
      /\ row[File].status \notin Intake!Terminal \cup {"absent"}
      /\ UNCHANGED <<place, seen, slot, posts, cut>>
  BY StageRows DEF Holding
<1>2. PICK new \in RowState : StageRow(new)
  BY StageRows
<1>3. seen' \in Seq(Files) /\ place' \in [Files -> Places]
  BY <1>1 DEF IntakeInv, IntakeTypes
<1>4. ASSUME NEW stage \in {"inspect", "transcribe", "caption", "classify", "select"},
             Intake!Goto(stage), new.status \notin Intake!Terminal \cup {"absent"}
      PROVE  IntakeInv'
  BY <1>1, <1>2, <1>3, <1>4, StageStep DEF StageRow
<1>5. CASE Intake!Goto("discard") /\ new.status = "FAILED"
  BY <1>1, <1>2, <1>3, <1>5, StageStep DEF StageRow
<1>6. CASE Intake!NextFile /\ new.status = "NEEDS_REVIEW"
  <2>1. /\ row' \in [Files -> RowState] /\ row'[File] = new
        /\ \A f \in Files \ {File} : row'[f] = row[f]
    BY <1>1, <1>2, HeadOfTodo DEF StageRow, IntakeInv, IntakeTypes
  <2> QED BY <1>1, <1>2, <1>3, <1>6, <2>1, NextStep DEF Intake!Terminal, StageRow
<1> QED BY <1>2, <1>4, <1>5, <1>6 DEF StageRow

\* process_one after the claim: the file has its slot.
LEMMA HoldStep ==
    ASSUME IntakeInv, Todo # <<>>, row[File].status \notin Intake!Terminal \cup {"absent"},
           NEW stage \in {"materialize", "move", "finish"}, Intake!Goto(stage),
           NEW s \in Slots, run.slot = s, row' \in [Files -> RowState],
           row'[File].status = row[File].status, row'[File].slot = s,
           \A f \in Files \ {File} : row'[f] = row[f] /\ place'[f] = place[f],
           slot' \in [Slots -> {"absent", "open"} \cup Files], slot'[s] = File,
           \A r \in Slots \ {s} : slot'[r] = slot[r],
           slot[s] = "open" \/ slot[s] = File,
           place' \in [Files -> Places],
           posts \subseteq posts', posts' \subseteq Files, UNCHANGED <<seen, cut>>,
           stage \in {"move", "finish"} => File \in posts',
           stage = "finish" => place'[File] = "processed"
    PROVE  IntakeInv'
<1>1. /\ run' \in RunState /\ run'.at = stage /\ run'.todo = run.todo /\ run'.slot = s
      /\ File' = File /\ File \in Files
  BY GotoRun, HeadOfTodo DEF IntakeInv, Intake!Stages
<1>2. IntakeTypes'
  BY <1>1 DEF IntakeInv, IntakeTypes, Todo
<1>3. RunInv' /\ Holding'
  BY <1>1 DEF RunInv, Working, Holding
<1>4. CutInv'
  <2> SUFFICES ASSUME NEW f \in Files \ cut
               PROVE  /\ \A r \in Slots : slot'[r] = f => row'[f].slot = r
                      /\ row'[f].slot # None =>
                            row'[f].status = "ASSIGNED" \/ (Holding' /\ File' = f)
    BY DEF CutInv
  <2>1. CASE f # File
    <3>1. ~(Holding /\ File = f) /\ row'[f] = row[f]
      BY <2>1
    <3>2. /\ \A r \in Slots : slot[r] = f => row[f].slot = r
          /\ row[f].slot # None => row[f].status = "ASSIGNED"
      BY <3>1 DEF IntakeInv, CutInv
    <3> QED BY <2>1, <3>1, <3>2
  <2>2. CASE f = File
    <3>1. \A r \in Slots : slot[r] = File => row[File].slot = r
      BY <2>2 DEF IntakeInv, CutInv
    <3>2. row[File].slot # None => row[File].slot = s
      BY <2>2 DEF IntakeInv, CutInv, RunInv, Intake!Terminal
    <3>3. \A r \in Slots \ {s} : slot[r] # File
      BY <3>1, <3>2, ContentAssumption
    <3> QED BY <1>1, <1>3, <2>2, <3>3
  <2> QED BY <2>1, <2>2
<1>5. Intake!AssignedIsComplete'
  <2> SUFFICES ASSUME NEW f \in Files, row'[f].status = "ASSIGNED"
               PROVE  /\ row'[f].slot # None /\ slot'[row'[f].slot] = f /\ f \in posts'
                      /\ row'[f].path = "processed" /\ place'[f] = "processed"
    BY DEF Intake!AssignedIsComplete
  <2>1. f # File /\ row[f].status = "ASSIGNED"
    BY DEF Intake!Terminal
  <2>2. /\ row[f].slot # None /\ slot[row[f].slot] = f /\ f \in posts
        /\ row[f].path = "processed" /\ place[f] = "processed"
    BY <2>1 DEF IntakeInv, Intake!AssignedIsComplete
  <2>3. row[f].slot \in Slots \ {s}
    BY <1>1, <2>1, <2>2, ContentAssumption DEF IntakeInv, IntakeTypes, RowState
  <2> QED BY <2>1, <2>2, <2>3
<1> QED BY <1>2, <1>3, <1>4, <1>5 DEF IntakeInv

LEMMA AssignSlotStep == IntakeInv /\ Intake!AssignSlot => IntakeInv'
<1> SUFFICES ASSUME IntakeInv, Intake!AssignSlot PROVE IntakeInv'
  OBVIOUS
<1> DEFINE old == row[File]
           new == [old EXCEPT !.slot = run.slot]
<1>1. PICK s \in Slots : s = run.slot
  BY DEF IntakeInv, RunInv, Intake!AssignSlot
<1>2. /\ run.at = "claim" /\ slot[s] = "open" /\ slot' = [slot EXCEPT ![s] = File]
      /\ row' = [row EXCEPT ![File] = new] /\ Intake!Goto("materialize")
      /\ UNCHANGED <<place, seen, posts, cut>>
  BY <1>1 DEF Intake!AssignSlot, Intake!UpdateVideo, File, Intake!Video
<1>3. /\ Todo # <<>> /\ File \in Files /\ old \in RowState
      /\ old.status \notin Intake!Terminal \cup {"absent"}
  BY <1>2, HeadOfTodo DEF IntakeInv, IntakeTypes, Todo, RunInv, Working
<1>4. new \in RowState /\ new.status = old.status /\ new.slot = s
  BY <1>1, <1>3 DEF RowState
<1> HIDE DEF new
<1>5. /\ row' \in [Files -> RowState] /\ row'[File] = new
      /\ \A f \in Files \ {File} : row'[f] = row[f]
  BY <1>2, <1>3, <1>4 DEF IntakeInv, IntakeTypes
<1>6. /\ slot' \in [Slots -> {"absent", "open"} \cup Files] /\ slot'[s] = File
      /\ \A r \in Slots \ {s} : slot'[r] = slot[r]
  BY <1>2, <1>3 DEF IntakeInv, IntakeTypes
<1>7. place' \in [Files -> Places] /\ posts' \subseteq Files
  BY <1>2 DEF IntakeInv, IntakeTypes
<1> QED BY <1>1, <1>2, <1>3, <1>4, <1>5, <1>6, <1>7, HoldStep

LEMMA AfterClaimStep ==
    IntakeInv /\ (Intake!MaterializePosts \/ Intake!MoveToProcessed) => IntakeInv'
<1> SUFFICES ASSUME IntakeInv, Intake!MaterializePosts \/ Intake!MoveToProcessed
             PROVE  IntakeInv'
  OBVIOUS
<1>1. run.at \in {"materialize", "move"} /\ Holding
  BY DEF Intake!MaterializePosts, Intake!MoveToProcessed, Holding
<1>2. PICK s \in Slots : s = run.slot /\ row[File].slot = s /\ slot[s] = File
  BY <1>1 DEF IntakeInv, RunInv
<1>3. /\ Todo # <<>> /\ File \in Files /\ File = Intake!File
      /\ row[File].status \notin Intake!Terminal \cup {"absent"}
  BY <1>1, HeadOfTodo DEF IntakeInv, IntakeTypes, Todo, RunInv, Working, File
<1>4. /\ row \in [Files -> RowState] /\ slot \in [Slots -> {"absent", "open"} \cup Files]
      /\ place \in [Files -> Places] /\ posts \subseteq Files
  BY DEF IntakeInv, IntakeTypes
<1>5. CASE Intake!MaterializePosts
  <2>1. /\ posts' = posts \cup {File} /\ Intake!Goto("move")
        /\ UNCHANGED <<place, row, seen, slot, cut>>
    BY <1>3, <1>5 DEF Intake!MaterializePosts
  <2> QED BY <1>2, <1>3, <1>4, <2>1, HoldStep
<1>6. CASE Intake!MoveToProcessed
  <2>1. /\ place' = [place EXCEPT ![File] = "processed"] /\ Intake!Goto("finish")
        /\ UNCHANGED <<row, seen, slot, posts, cut>> /\ File \in posts
    BY <1>3, <1>6 DEF Intake!MoveToProcessed, IntakeInv, RunInv
  <2>2. /\ place' \in [Files -> Places]
        /\ place'[File] = "processed" /\ \A f \in Files \ {File} : place'[f] = place[f]
    BY <1>3, <1>4, <2>1 DEF Places
  <2> QED BY <1>2, <1>3, <1>4, <2>1, <2>2, HoldStep
<1> QED BY <1>5, <1>6

LEMMA MarkAssignedStep == IntakeInv /\ Intake!MarkAssigned => IntakeInv'
<1> SUFFICES ASSUME IntakeInv, Intake!MarkAssigned PROVE IntakeInv'
  OBVIOUS
<1> DEFINE old == row[File]
           new == [old EXCEPT !.status = "ASSIGNED", !.path = "processed"]
<1>1. /\ run.at = "finish" /\ Intake!NextFile /\ row' = [row EXCEPT ![File] = new]
      /\ UNCHANGED <<place, seen, slot, posts, cut>> /\ Holding
  BY DEF Intake!MarkAssigned, Intake!UpdateVideo, File, Intake!Video, Holding
<1>2. Todo # <<>> /\ File \in Files /\ old \in RowState
  BY <1>1, HeadOfTodo DEF IntakeInv, IntakeTypes, Todo
<1>3. /\ new \in RowState /\ new.status = "ASSIGNED" /\ new.slot = old.slot
      /\ new.path = "processed"
  BY <1>2 DEF Places, RowState, Intake!Statuses
<1> HIDE DEF new
<1>4. /\ row' \in [Files -> RowState] /\ row'[File] = new
      /\ \A f \in Files \ {File} : row'[f] = row[f]
  BY <1>1, <1>2, <1>3 DEF IntakeInv, IntakeTypes
<1>5. /\ old.slot \in Slots /\ slot[old.slot] = File /\ File \in posts
      /\ place[File] = "processed"
  BY <1>1 DEF IntakeInv, RunInv
<1>6. IntakeTypes' /\ RunInv' /\ ~Holding'
  <2>1. run' \in RunState /\ run'.at = "next"
    BY <1>1, <1>2, NextRun DEF IntakeInv
  <2>2. IntakeTypes'
    BY <1>1, <1>4, <2>1 DEF IntakeInv, IntakeTypes
  <2> QED BY <2>1, <2>2 DEF RunInv, Working, Holding
<1>7. CutInv'
  BY <1>1, <1>3, <1>4 DEF IntakeInv, CutInv
<1>8. Intake!AssignedIsComplete'
  BY <1>1, <1>3, <1>4, <1>5, ContentAssumption DEF IntakeInv, Intake!AssignedIsComplete
<1> QED BY <1>6, <1>7, <1>8 DEF IntakeInv

\* discover_videos, get_video_by_hash and insert_video, the move of a refused
\* file, the choice of a slot, a new slot, and the end of a run.
LEMMA StartRunStep == IntakeInv /\ (Intake!StartRun \/ Intake!EndRun) => IntakeInv'
<1> SUFFICES ASSUME IntakeInv, Intake!StartRun \/ Intake!EndRun PROVE IntakeInv'
  OBVIOUS
<1>1. /\ run.at \in {"idle", "next"} /\ UNCHANGED <<place, row, seen, slot, posts, cut>>
      /\ run' \in RunState /\ run'.at \in {"idle", "next"}
  <2>1. CASE Intake!StartRun
    <3>1. PICK mode \in Intake!Modes, captions \in CaptionModes, dry \in BOOLEAN,
               order \in Intake!SeqOf(Files, Intake!Cardinality(Files)) :
               run' = [at |-> "next", todo |-> order, slot |-> None, mode |-> mode,
                       captions |-> captions, dry |-> dry, added |-> {}]
      BY <2>1 DEF Intake!StartRun
    <3>2. order \in Seq(Files)
      BY DEF Intake!SeqOf
    <3> QED BY <2>1, <3>1, <3>2 DEF Intake!StartRun, RunState, Intake!Stages
  <2>2. CASE Intake!EndRun
    BY <2>2, StopRun DEF Intake!EndRun
  <2> QED BY <2>1, <2>2
<1>2. IntakeTypes' /\ RunInv' /\ ~Holding /\ ~Holding'
  BY <1>1 DEF IntakeInv, IntakeTypes, RunInv, Working, Holding
<1> QED BY <1>1, <1>2, PassStep

LEMMA RecognizeStep == IntakeInv /\ Intake!Recognize => IntakeInv'
<1> SUFFICES ASSUME IntakeInv, Intake!Recognize PROVE IntakeInv'
  OBVIOUS
<1> DEFINE old == row[File]
           new == [old EXCEPT !.status = "DISCOVERED", !.original = place[File]]
<1>1. /\ run.at = "next" /\ Todo # <<>> /\ ~Holding /\ UNCHANGED <<place, slot, posts, cut>>
      /\ File = Intake!File /\ Intake!Video = old
  BY DEF Intake!Recognize, Holding, Todo, File, Intake!Video
<1>2. /\ File \in Files /\ old \in RowState /\ seen \in Seq(Files) /\ place[File] \in Places
      /\ row \in [Files -> RowState] /\ place' \in [Files -> Places]
  BY <1>1, HeadOfTodo DEF IntakeInv, IntakeTypes
<1>3. new \in RowState /\ new.status = "DISCOVERED" /\ new.slot = old.slot
  BY <1>2 DEF RowState, Intake!Statuses
<1>4. CASE /\ old.status = "absent" /\ row' = [row EXCEPT ![File] = new]
           /\ seen' = Append(seen, File) /\ Intake!Goto("inspect")
  <2>1. seen' \in Seq(Files)
    BY <1>2, <1>4
  <2> HIDE DEF new
  <2> QED BY <1>1, <1>3, <1>4, <2>1, StageStep DEF Intake!Terminal
<1>5. CASE Intake!NextFile /\ UNCHANGED <<row, seen>>
  BY <1>1, <1>2, <1>5, NextStep
<1>6. CASE /\ old.status \notin Intake!Terminal \cup {"absent"} /\ Intake!Goto("inspect")
           /\ UNCHANGED <<row, seen>>
  <2>1. row' = [row EXCEPT ![File] = old] /\ seen' \in Seq(Files)
    BY <1>2, <1>6
  <2> HIDE DEF new
  <2> QED BY <1>1, <1>2, <1>6, <2>1, StageStep
<1> QED BY <1>1, <1>4, <1>5, <1>6 DEF Intake!Recognize, Intake!UpdateVideo

LEMMA ClassifyRaisesStep == IntakeInv /\ Intake!ClassifyRaises => IntakeInv'
<1> SUFFICES ASSUME IntakeInv, Intake!ClassifyRaises PROVE IntakeInv'
  OBVIOUS
<1>1. /\ run.at = "classify" /\ run' \in RunState /\ run'.at = "idle"
      /\ UNCHANGED <<place, row, seen, slot, posts, cut>>
  BY StopRun DEF Intake!ClassifyRaises
<1>2. IntakeTypes' /\ RunInv' /\ ~Holding /\ ~Holding'
  BY <1>1 DEF IntakeInv, IntakeTypes, RunInv, Working, Holding
<1> QED BY <1>1, <1>2, PassStep

LEMMA SelectSlotStep == IntakeInv /\ Intake!SelectSlot => IntakeInv'
<1> SUFFICES ASSUME IntakeInv, Intake!SelectSlot PROVE IntakeInv'
  OBVIOUS
<1>1. /\ run.at = "select" /\ ~Holding /\ Todo # <<>>
      /\ UNCHANGED <<place, row, seen, slot, posts, cut>>
  BY DEF Intake!SelectSlot, Holding, IntakeInv, IntakeTypes, Todo
<1>2. CASE Intake!NextFile
  BY <1>1, <1>2, NextStep DEF IntakeInv, IntakeTypes
<1>3. CASE \E s \in Slots : ~run.dry /\ run' = [run EXCEPT !.at = "claim", !.slot = s]
  <2>1. PICK s \in Slots : ~run.dry /\ run' = [run EXCEPT !.at = "claim", !.slot = s]
    BY <1>3
  <2>2. /\ run' \in RunState /\ run'.at = "claim" /\ run'.slot = s /\ run'.todo = run.todo
        /\ ~run'.dry /\ File' = File
    BY <2>1 DEF IntakeInv, IntakeTypes, RunState, Intake!Stages, File, Intake!File
  <2>3. IntakeTypes'
    BY <1>1, <2>2 DEF IntakeInv, IntakeTypes, Todo
  <2>4. RunInv' /\ ~Holding'
    BY <1>1, <2>2 DEF IntakeInv, RunInv, Working, Holding
  <2> QED BY <1>1, <2>3, <2>4, PassStep
<1> QED BY <1>2, <1>3 DEF Intake!SelectSlot, Intake!Candidates

LEMMA MoveToFailedStep == IntakeInv /\ Intake!MoveToFailed => IntakeInv'
<1> SUFFICES ASSUME IntakeInv, Intake!MoveToFailed PROVE IntakeInv'
  OBVIOUS
<1>1. /\ run.at = "discard" /\ ~Holding /\ Todo # <<>> /\ Intake!NextFile
      /\ UNCHANGED <<row, seen, slot, posts, cut>>
      /\ place' = [place EXCEPT ![File] = "failed"] /\ row[File].status = "FAILED"
  BY DEF Intake!MoveToFailed, Holding, IntakeInv, IntakeTypes, Todo, RunInv, File
<1>2. /\ row' \in [Files -> RowState] /\ place' \in [Files -> Places]
      /\ \A f \in Files \ {File} : place'[f] = place[f]
  BY <1>1 DEF Places, IntakeInv, IntakeTypes
<1> QED BY <1>1, <1>2, NextStep

LEMMA AddSlotStep ==
    ASSUME IntakeInv, NEW s \in Slots, Intake!AddSlot(s)
    PROVE  IntakeInv'
<1>1. /\ slot[s] = "absent" /\ slot' = [slot EXCEPT ![s] = "open"]
      /\ UNCHANGED <<place, row, seen, posts, cut>>
  BY DEF Intake!AddSlot
<1>2. /\ run' \in RunState /\ run'.at = run.at /\ run'.todo = run.todo /\ run'.slot = run.slot
      /\ run'.dry = run.dry /\ File' = File
  <2>1. CASE run' = run
    BY <2>1 DEF IntakeInv, IntakeTypes, File, Intake!File
  <2>2. CASE run' = [run EXCEPT !.added = run.added \cup {s}]
    <3>1. run.added \cup {s} \in SUBSET Slots
      BY DEF IntakeInv, IntakeTypes, RunState
    <3> QED BY <2>2, <3>1 DEF IntakeInv, IntakeTypes, RunState, File, Intake!File
  <2> QED BY <2>1, <2>2 DEF Intake!AddSlot
<1>3. /\ slot' \in [Slots -> {"absent", "open"} \cup Files]
      /\ \A r \in Slots, f \in Files : slot'[r] = f <=> slot[r] = f
      /\ \A r \in Slots \ {s} : slot'[r] = slot[r]
  BY <1>1, ContentAssumption DEF IntakeInv, IntakeTypes
<1>4. IntakeTypes'
  BY <1>1, <1>2, <1>3 DEF IntakeInv, IntakeTypes
<1>5. run.at \notin {"idle", "next"} => File \in Files
  BY HeadOfTodo DEF IntakeInv, IntakeTypes, Todo
<1>6. RunInv'
  BY <1>1, <1>2, <1>3, <1>5 DEF IntakeInv, RunInv, Working, Holding
<1>7. (~Holding /\ ~Holding') \/ (Holding /\ Holding' /\ File' = File)
  BY <1>2 DEF Holding
<1> QED BY <1>1, <1>3, <1>4, <1>6, <1>7, PassStep

LEMMA RenameStep ==
    ASSUME IntakeInv, NEW f \in Files, NEW path \in Names, Intake!RenameFile(f, path)
    PROVE  IntakeInv'
<1>1. /\ place[f] \in Names /\ place' = [place EXCEPT ![f] = path]
      /\ UNCHANGED <<row, seen, slot, posts, run, cut>>
  BY DEF Intake!RenameFile, Intake!Incoming
<1>2. /\ place' \in [Files -> Places] /\ \A g \in Files \ {f} : place'[g] = place[g]
  BY <1>1 DEF IntakeInv, IntakeTypes, Places
<1>3. IntakeTypes' /\ File' = File
  BY <1>1, <1>2 DEF IntakeInv, IntakeTypes, File, Intake!File
<1>4. run.at = "finish" => File \in Files /\ File # f
  BY <1>1, HeadOfTodo, ContentAssumption DEF IntakeInv, IntakeTypes, RunInv, Todo
<1>5. RunInv'
  BY <1>1, <1>2, <1>3, <1>4 DEF IntakeInv, RunInv, Working, Holding
<1>6. \A g \in Files : row[g].status = "ASSIGNED" => place'[g] = place[g]
  BY <1>1, <1>2, ContentAssumption DEF IntakeInv, Intake!AssignedIsComplete
<1>7. (~Holding /\ ~Holding') \/ (Holding /\ Holding' /\ File' = File)
  BY <1>1, <1>3 DEF Holding
<1> QED BY <1>1, <1>3, <1>5, <1>6, <1>7, PassStep

LEMMA DieStep == IntakeInv /\ Intake!Die => IntakeInv'
<1> SUFFICES ASSUME IntakeInv, Intake!Die PROVE IntakeInv'
  OBVIOUS
<1>1. /\ run' \in RunState /\ run'.at = "idle" /\ UNCHANGED <<place, row, seen, slot, posts>>
      /\ cut' = IF Holding THEN cut \cup {File} ELSE cut
      /\ run.at # "idle"
  BY StopRun DEF Intake!Die, Holding, File
<1>2. Holding => File \in Files
  BY HeadOfTodo DEF Holding, IntakeInv, IntakeTypes, Todo
<1>3. IntakeTypes' /\ RunInv' /\ ~Holding'
  BY <1>1, <1>2 DEF IntakeInv, IntakeTypes, RunInv, Working, Holding
<1>4. CutInv'
  <2> SUFFICES ASSUME NEW f \in Files, f \notin cut'
               PROVE  /\ \A s \in Slots : slot'[s] = f => row'[f].slot = s
                      /\ row'[f].slot # None => row'[f].status = "ASSIGNED"
    BY DEF CutInv
  <2>1. f \notin cut /\ ~(Holding /\ File = f)
    BY <1>1
  <2> QED BY <1>1, <2>1 DEF IntakeInv, CutInv
<1> QED BY <1>1, <1>3, <1>4 DEF IntakeInv, Intake!AssignedIsComplete

LEMMA IntakeStep == IntakeInv /\ [Intake!Next]_(Intake!vars) => IntakeInv'
<1> SUFFICES ASSUME IntakeInv, [Intake!Next]_(Intake!vars) PROVE IntakeInv'
  OBVIOUS
<1>1. CASE UNCHANGED Intake!vars
  BY <1>1 DEF Intake!vars, IntakeInv, IntakeTypes, RunInv, CutInv, Working, Holding,
              File, Intake!File, Intake!AssignedIsComplete
<1>2. ASSUME Intake!ProcessOne PROVE IntakeInv'
  BY <1>2, StagesStep, RecognizeStep, MoveToFailedStep, ClassifyRaisesStep, SelectSlotStep,
     AssignSlotStep, AfterClaimStep, MarkAssignedStep
  DEF Intake!ProcessOne
<1> QED
  BY <1>1, <1>2, StartRunStep, DieStep, AddSlotStep, RenameStep
  DEF Intake!Next, Intake!Command

-----------------------------------------------------------------------------
\* What a step of process_one does to the order of the run: it stays at its
\* file, ends, or goes on to the next; a file that it goes on from does not wait
\* for a slot, or there is none for it.
Stays ==
    /\ run.at # "finish" /\ UNCHANGED <<run.todo, run.mode, run.dry, run.added>>
    /\ run'.at = "finish" \/ UNCHANGED place
Stops == run'.at = "idle" /\ run'.todo = <<>>
GoesOn ==
    /\ run'.todo = Tail(run.todo) /\ UNCHANGED <<run.mode, run.dry, run.added>>
    /\ \A f \in Files : f = File /\ run.mode = "fifo" /\ Intake!Waiting(f)'
          => run.dry \/ NoneOpen(run, slot')

FileStepped ==
    /\ Todo # <<>> /\ File \in Files /\ run.at # "idle" /\ (Stays \/ Stops \/ GoesOn)
    /\ \A f \in Files \ {File} : row'[f] = row[f] /\ place'[f] = place[f]
    /\ place'[File] \in {place[File], "processed", "failed"}
    /\ \/ row'[File].path \in {row[File].path, "processed"}
       \/ row'[File].path = place[File] /\ run.at # "finish"
    /\ \/ /\ UNCHANGED seen /\ row'[File].original = row[File].original
          /\ row'[File].status = "absent" <=> row[File].status = "absent"
       \/ /\ Stays /\ seen' = Append(seen, File) /\ row'[File].original = place[File]
          /\ row[File].status = "absent" /\ row'[File].status # "absent"
    /\ \A s \in Slots : slot'[s] = "open" => slot[s] = "open"
    /\ Intake!AssignSlot \/ row'[File].slot = row[File].slot

LEMMA RunMoves ==
    ASSUME IntakeInv, Todo # <<>>
    PROVE  /\ \A stage \in Intake!Stages :
                 Intake!Goto(stage) /\ run.at # "finish" /\ (stage = "finish" \/ UNCHANGED place)
                    => Stays
           /\ Intake!NextFile =>
                 run'.todo = Tail(run.todo) /\ UNCHANGED <<run.mode, run.dry, run.added>>
           /\ run' = Intake!Stopped => Stops
<1>1. ASSUME NEW stage \in Intake!Stages, Intake!Goto(stage), run.at # "finish",
             stage = "finish" \/ UNCHANGED place
      PROVE  Stays
  BY <1>1, GotoRun DEF IntakeInv, Stays
<1>2. Intake!NextFile =>
         run'.todo = Tail(run.todo) /\ UNCHANGED <<run.mode, run.dry, run.added>>
  BY NextRun DEF IntakeInv
<1>3. run' = Intake!Stopped => Stops
  BY StopRun DEF Stops
<1> QED BY <1>1, <1>2, <1>3

LEMMA FileStep == IntakeInv /\ Intake!ProcessOne => FileStepped
<1> SUFFICES ASSUME IntakeInv, Intake!ProcessOne PROVE FileStepped
  OBVIOUS
<1> DEFINE old == row[File]
<1>0. run.at # "idle" /\ Todo # <<>> /\ File = Intake!File /\ Intake!Video = old
  <2>1. run.at # "idle" /\ (run.at = "next" => Todo # <<>>)
    BY DEF Intake!ProcessOne, Intake!Recognize, Intake!StageDone, Intake!InspectMedia,
           Intake!MoveToFailed, Intake!Transcribe, Intake!DeriveCaption, Intake!Classify,
           Intake!ClassificationFails, Intake!ClassifyRaises, Intake!SelectSlot,
           Intake!AssignSlot, Intake!MaterializePosts, Intake!MoveToProcessed,
           Intake!MarkAssigned, Todo
  <2> QED BY <2>1 DEF IntakeInv, IntakeTypes, Todo, File, Intake!Video
<1>1. /\ File \in Files /\ old \in RowState /\ row \in [Files -> RowState]
      /\ place \in [Files -> Places] /\ place[File] \in Places
      /\ slot \in [Slots -> {"absent", "open"} \cup Files]
  BY <1>0, HeadOfTodo DEF IntakeInv, IntakeTypes
<1>2. ASSUME UNCHANGED <<place, row, seen, slot>>, Stays \/ Stops \/ GoesOn PROVE FileStepped
  BY <1>0, <1>1, <1>2 DEF FileStepped
<1>3. ASSUME NEW new \in RowState, row' = [row EXCEPT ![File] = new], UNCHANGED <<place, slot>>,
             new.slot = old.slot, Stays \/ GoesOn,
             \/ new.path \in {old.path, "processed"}
             \/ new.path = place[File] /\ run.at # "finish",
             \/ /\ UNCHANGED seen /\ old.status # "absent" /\ new.status # "absent"
                /\ new.original = old.original
             \/ /\ old.status = "absent" /\ new.status # "absent" /\ Stays
                /\ seen' = Append(seen, File) /\ new.original = place[File]
      PROVE  FileStepped
  <2>1. row'[File] = new /\ \A f \in Files \ {File} : row'[f] = row[f]
    BY <1>1, <1>3
  <2> QED BY <1>0, <1>1, <1>3, <2>1 DEF FileStepped
<1>4. CASE Intake!Recognize
  <2> DEFINE new == [old EXCEPT !.status = "DISCOVERED", !.original = place[File]]
  <2>1. /\ new \in RowState /\ new.status = "DISCOVERED" /\ new.slot = old.slot
        /\ new.path = old.path /\ new.original = place[File]
    BY <1>1 DEF RowState, Intake!Statuses
  <2>2. CASE /\ old.status = "absent" /\ row' = [row EXCEPT ![File] = new]
             /\ seen' = Append(seen, File) /\ Intake!Goto("inspect")
    <3>1. Stays /\ UNCHANGED <<place, slot>> /\ run.at = "next"
      BY <1>0, <1>4, <2>2, RunMoves DEF Intake!Stages, Intake!Recognize
    <3> HIDE DEF new, old
    <3> QED BY <1>3, <2>1, <2>2, <3>1
  <2>3. CASE old.status \in Intake!Terminal /\ Intake!NextFile /\ UNCHANGED <<row, seen>>
    <3>1. GoesOn
      BY <1>0, <2>3, RunMoves DEF GoesOn, Intake!Waiting
    <3> QED BY <1>2, <1>4, <2>3, <3>1 DEF Intake!Recognize
  <2>4. CASE Intake!Goto("inspect") /\ UNCHANGED <<row, seen>>
    <3>1. Stays
      BY <1>0, <1>4, <2>4, RunMoves DEF Intake!Stages, Intake!Recognize
    <3> QED BY <1>2, <1>4, <2>4, <3>1 DEF Intake!Recognize
  <2> QED BY <1>0, <1>4, <2>2, <2>3, <2>4 DEF Intake!Recognize, Intake!UpdateVideo
<1>5. CASE \/ Intake!StageDone \/ Intake!InspectMedia \/ Intake!Transcribe \/ Intake!DeriveCaption
           \/ Intake!Classify \/ Intake!ClassificationFails
  <2>1. /\ UNCHANGED <<place, seen, slot>> /\ old.status # "absent" /\ run.at # "finish"
        /\ \E new \in RowState : StageRow(new)
    BY <1>5, StageRows
  <2>2. PICK new \in RowState : StageRow(new)
    BY <2>1
  <2>3. row'[File] = new
    BY <1>1, <2>2 DEF StageRow
  <2>4. new.status # "absent" /\ (Stays \/ GoesOn)
    <3>1. CASE \E stage \in {"inspect", "transcribe", "caption", "classify", "select"} :
                  Intake!Goto(stage) /\ new.status \notin Intake!Terminal \cup {"absent"}
      BY <1>0, <2>1, <3>1, RunMoves DEF Intake!Stages
    <3>2. CASE Intake!Goto("discard") /\ new.status = "FAILED"
      BY <1>0, <2>1, <3>2, RunMoves DEF Intake!Stages
    <3>3. CASE Intake!NextFile /\ new.status = "NEEDS_REVIEW"
      <4>1. \A f \in Files : f = File => ~Intake!Waiting(f)'
        BY <2>3, <3>3 DEF Intake!Waiting, Intake!Terminal
      <4> QED BY <1>0, <3>3, <4>1, RunMoves DEF GoesOn
    <3> QED BY <2>2, <3>1, <3>2, <3>3 DEF StageRow
  <2> QED BY <1>3, <2>1, <2>2, <2>4 DEF StageRow
<1>6. CASE Intake!MoveToFailed
  <2>1. /\ Intake!NextFile /\ UNCHANGED <<row, seen, slot>>
        /\ place'[File] = "failed" /\ \A f \in Files \ {File} : place'[f] = place[f]
    BY <1>0, <1>1, <1>6 DEF Intake!MoveToFailed
  <2>2. GoesOn
    BY <1>0, <2>1, RunMoves, ContentAssumption DEF GoesOn, Intake!Waiting, Intake!Incoming
  <2> QED BY <1>0, <1>1, <2>1, <2>2 DEF FileStepped
<1>7. CASE Intake!ClassifyRaises
  BY <1>0, <1>2, <1>7, RunMoves DEF Intake!ClassifyRaises
<1>8. CASE Intake!SelectSlot
  <2>1. CASE (Intake!Candidates = {} \/ run.dry) /\ Intake!NextFile
    <3>1. run.mode = "fifo" /\ Intake!Candidates = {} => NoneOpen(run, slot)
      BY DEF Intake!Candidates, NoneOpen
    <3>2. GoesOn
      BY <1>0, <1>8, <2>1, <3>1, RunMoves DEF GoesOn, Intake!SelectSlot
    <3> QED BY <1>2, <1>8, <3>2 DEF Intake!SelectSlot
  <2>2. CASE \E s \in Slots : run' = [run EXCEPT !.at = "claim", !.slot = s]
    <3>1. Stays
      BY <1>8, <2>2 DEF Stays, Intake!SelectSlot, IntakeInv, IntakeTypes, RunState
    <3> QED BY <1>2, <1>8, <3>1 DEF Intake!SelectSlot
  <2> QED BY <1>8, <2>1, <2>2 DEF Intake!SelectSlot, Intake!Candidates
<1>9. CASE Intake!AssignSlot
  <2> DEFINE new == [old EXCEPT !.slot = run.slot]
  <2>1. /\ new.status = old.status /\ old.status # "absent"
        /\ new.path = old.path /\ new.original = old.original
    BY <1>1, <1>9 DEF RowState, Intake!AssignSlot, IntakeInv, RunInv, Working
  <2>2. row' = [row EXCEPT ![File] = new]
    BY <1>0, <1>9 DEF Intake!AssignSlot, Intake!UpdateVideo
  <2> HIDE DEF new
  <2>3. /\ row'[File].status = old.status /\ row'[File].path = old.path
        /\ row'[File].original = old.original /\ \A f \in Files \ {File} : row'[f] = row[f]
    BY <1>1, <2>1, <2>2
  <2>4. Stays
    BY <1>0, <1>9, RunMoves DEF Intake!AssignSlot, Intake!Stages
  <2>5. \A s \in Slots : slot'[s] = "open" => slot[s] = "open"
    BY <1>0, <1>1, <1>9 DEF Intake!AssignSlot
  <2> QED BY <1>0, <1>1, <1>9, <2>1, <2>3, <2>4, <2>5 DEF FileStepped, Intake!AssignSlot
<1>10. CASE Intake!MaterializePosts
  BY <1>0, <1>2, <1>10, RunMoves DEF Intake!MaterializePosts, Intake!Stages
<1>11. CASE Intake!MoveToProcessed
  <2>1. /\ Stays /\ UNCHANGED <<row, seen, slot>> /\ place'[File] = "processed"
        /\ \A f \in Files \ {File} : place'[f] = place[f]
    BY <1>0, <1>1, <1>11, RunMoves DEF Intake!MoveToProcessed, Intake!Stages
  <2> QED BY <1>0, <1>1, <2>1 DEF FileStepped
<1>12. CASE Intake!MarkAssigned
  <2> DEFINE new == [old EXCEPT !.status = "ASSIGNED", !.path = "processed"]
  <2>1. /\ new \in RowState /\ new.status = "ASSIGNED" /\ new.slot = old.slot
        /\ new.path = "processed" /\ new.original = old.original
    BY <1>1 DEF Places, RowState, Intake!Statuses
  <2>2. row' = [row EXCEPT ![File] = new] /\ UNCHANGED <<place, seen, slot>> /\ Intake!NextFile
    BY <1>0, <1>12 DEF Intake!MarkAssigned, Intake!UpdateVideo
  <2>3. old.status # "absent"
    BY <1>12 DEF Intake!MarkAssigned, IntakeInv, RunInv, Working
  <2> HIDE DEF new
  <2>4. row'[File] = new
    BY <1>1, <2>2
  <2>5. GoesOn
    BY <1>0, <2>1, <2>2, <2>4, RunMoves DEF GoesOn, Intake!Waiting, Intake!Terminal
  <2> HIDE DEF old
  <2> QED BY <1>3, <2>1, <2>2, <2>3, <2>5
<1> QED
  BY <1>4, <1>5, <1>6, <1>7, <1>8, <1>9, <1>10, <1>11, <1>12 DEF Intake!ProcessOne

\* The files still to do after the first.
LEMMA RestOfTodo ==
    ASSUME IntakeTypes, Todo # <<>>
    PROVE  /\ \A i \in DOMAIN Tail(Todo) : i + 1 \in DOMAIN Todo /\ Tail(Todo)[i] = Todo[i + 1]
           /\ \A i \in DOMAIN Todo :
                 i = 1 \/ (i - 1 \in DOMAIN Tail(Todo) /\ Tail(Todo)[i - 1] = Todo[i])
           /\ DOMAIN Tail(Todo) \subseteq Nat /\ DOMAIN Todo \subseteq Nat
<1>1. /\ Todo \in Seq(Files) /\ Tail(Todo) \in Seq(Files) /\ Len(Todo) \in Nat \ {0}
      /\ Len(Tail(Todo)) = Len(Todo) - 1
      /\ \A i \in 1 .. Len(Tail(Todo)) : Tail(Todo)[i] = Todo[i + 1]
  BY HeadOfTodo DEF IntakeTypes, RunState, Todo
<1>2. DOMAIN Todo = 1 .. Len(Todo) /\ DOMAIN Tail(Todo) = 1 .. Len(Todo) - 1
  BY <1>1
<1> QED BY <1>1, <1>2

LEMMA OrderInit == Intake!Init => OrderInv
<1> SUFFICES ASSUME Intake!Init PROVE OrderInv
  OBVIOUS
<1>1. DOMAIN seen = {} /\ DOMAIN Todo = {} /\ run.at = "idle"
  BY DEF Intake!Init, Intake!Stopped, Todo
<1>2. \A f \in Files : /\ row[f].status = "absent"
                       /\ row[f].path = None /\ row[f].original = None
  BY DEF Intake!Init, Intake!NoRow
<1> QED BY <1>1, <1>2 DEF OrderInv, Known

\* discover_videos puts no file before one that is ahead of it.
LEMMA Discovered ==
    ASSUME IntakeInv, OrderInv, NEW order \in Seq(Files), Intake!DiscoverVideos(order),
           NEW i \in DOMAIN order, NEW j \in DOMAIN order, NEW n \in DOMAIN seen,
           i < j, order[j] = seen[n]
    PROVE  ~Ahead(n, order[i])
<1> SUFFICES ASSUME Ahead(n, order[i]) PROVE FALSE
  OBVIOUS
<1>1. PICK key \in [Intake!ToSet(order) -> 1 .. Len(seen) + 1] :
         /\ \A f \in Intake!ToSet(order) :
               IF Intake!VideosByPath(place[f]) = {} THEN key[f] = Len(seen) + 1
               ELSE key[f] \in Intake!VideosByPath(place[f])
         /\ \A k, l \in DOMAIN order : k < l => key[order[k]] <= key[order[l]]
  BY DEF Intake!DiscoverVideos
<1>2. order[i] \in Intake!ToSet(order) /\ order[j] \in Intake!ToSet(order)
  BY DEF Intake!ToSet
<1>3. /\ seen \in Seq(Files) /\ Len(seen) \in Nat /\ n \in 1 .. Len(seen)
      /\ DOMAIN seen = 1 .. Len(seen) /\ seen[n] \in Files
  BY DEF IntakeInv, IntakeTypes
<1>4. Intake!VideosByPath(place[seen[n]]) = {n}
  <2>1. n \in Intake!VideosByPath(place[seen[n]])
    BY DEF Ahead, Intake!SamePath, Intake!VideosByPath
  <2>2. ASSUME NEW m \in Intake!VideosByPath(place[seen[n]]) PROVE m = n
    <3>1. m \in DOMAIN seen /\ seen[m] \in Files /\ row[seen[m]].original = place[seen[n]]
      BY <1>3 DEF Intake!VideosByPath
    <3>2. seen[m] = seen[n]
      BY <3>1 DEF Ahead, Intake!SamePath
    <3> QED BY <3>1, <3>2 DEF OrderInv
  <2> QED BY <2>1, <2>2
<1>5. key[order[j]] = n
  BY <1>1, <1>2, <1>4
<1>6. key[order[i]] <= n
  BY <1>1, <1>5
<1>7. key[order[i]] \in 1 .. n /\ Intake!VideosByPath(place[order[i]]) # {}
  BY <1>1, <1>2, <1>3, <1>6
<1>8. row[seen[key[order[i]]]].original = place[order[i]]
  BY <1>1, <1>2, <1>7 DEF Intake!VideosByPath
<1> QED BY <1>7, <1>8 DEF Ahead

LEMMA StartRunOrder == IntakeInv /\ OrderInv /\ Intake!StartRun => OrderInv'
<1> SUFFICES ASSUME IntakeInv, OrderInv, Intake!StartRun PROVE OrderInv'
  OBVIOUS
<1>1. PICK order \in Intake!SeqOf(Files, Intake!Cardinality(Files)) :
         Intake!DiscoverVideos(order) /\ Todo' = order
  BY DEF Intake!StartRun, Todo
<1>2. UNCHANGED <<place, row, seen, slot, posts, cut>> /\ order \in Seq(Files)
  BY DEF Intake!StartRun, Intake!SeqOf
<1>3. /\ \A i, j \in DOMAIN order : order[i] = order[j] => i = j
      /\ \A i \in DOMAIN order : Intake!Incoming(order[i])
      /\ \A f \in Files : Intake!Incoming(f) => \E i \in DOMAIN order : order[i] = f
  BY <1>1 DEF Intake!DiscoverVideos, Intake!IsInjective, Intake!ToSet
<1>4. \A i, j \in DOMAIN order, n \in DOMAIN seen :
         i < j /\ order[j] = seen[n] => ~Ahead(n, order[i])
  BY <1>1, <1>2, Discovered
<1>5. \A i, j \in DOMAIN Todo', n \in DOMAIN seen' :
         i < j /\ Todo'[j] = seen'[n] => ~Ahead(n, Todo[i])'
  BY <1>1, <1>2, <1>4 DEF Ahead, Intake!Incoming, Intake!SamePath
<1> QED BY <1>1, <1>2, <1>3, <1>5 DEF OrderInv, Known, Intake!Waiting, Intake!Incoming

\* A run that is not there has nothing to do.
LEMMA StoppedOrder ==
    ASSUME OrderInv, Todo' = <<>>, run'.at = "idle", UNCHANGED <<row, seen>>
    PROVE  OrderInv'
<1>1. DOMAIN Todo' = {}
  OBVIOUS
<1> QED BY <1>1 DEF OrderInv, Known

LEMMA StepKnown ==
    ASSUME IntakeInv, IntakeInv', OrderInv, FileStepped
    PROVE  /\ \A m, n \in DOMAIN seen' : seen'[m] = seen'[n] => m = n
           /\ \A f \in Files : Known(f)' <=> row'[f].status # "absent"
           /\ \A f \in Files : Known(f) => Known(f)'
           /\ \A f \in Files \ {File} : Known(f)' => Known(f)
           /\ \A n \in DOMAIN seen' : seen'[n] # File => n \in DOMAIN seen
           /\ \A n \in DOMAIN seen : n \in DOMAIN seen' /\ seen'[n] = seen[n]
<1>1. seen \in Seq(Files) /\ File \in Files
  BY DEF IntakeInv, IntakeTypes, FileStepped
<1>2. CASE UNCHANGED seen /\ (row'[File].status = "absent" <=> row[File].status = "absent")
  BY <1>1, <1>2 DEF OrderInv, Known, FileStepped
<1>3. CASE /\ seen' = Append(seen, File)
           /\ row[File].status = "absent" /\ row'[File].status # "absent"
  <2>1. /\ DOMAIN seen = 1 .. Len(seen) /\ DOMAIN seen' = 1 .. Len(seen) + 1
        /\ Len(seen) \in Nat /\ seen'[Len(seen) + 1] = File
        /\ \A n \in 1 .. Len(seen) : seen'[n] = seen[n]
    BY <1>1, <1>3
  <2>2. \A n \in DOMAIN seen : seen[n] # File
    BY <1>1, <1>3 DEF OrderInv, Known
  <2>3. \A f \in Files : Known(f)' <=> Known(f) \/ f = File
    BY <1>1, <2>1 DEF Known
  <2>4. \A m, n \in DOMAIN seen' : seen'[m] = seen'[n] => m = n
    BY <2>1, <2>2 DEF OrderInv
  <2>5. \A f \in Files \ {File} : row'[f] = row[f]
    BY DEF FileStepped
  <2> QED BY <1>1, <1>3, <2>1, <2>2, <2>3, <2>4, <2>5 DEF OrderInv
<1> QED BY <1>2, <1>3 DEF FileStepped

LEMMA StepWaits ==
    ASSUME IntakeInv, OrderInv, FileStepped, NEW f \in Files \ {File}, Intake!Waiting(f)'
    PROVE  Intake!Waiting(f)
BY DEF FileStepped, Intake!Waiting, Intake!Incoming

\* No step puts what is still to do ahead of a file that comes before it.
LEMMA StepAhead ==
    ASSUME IntakeInv, IntakeInv', OrderInv, FileStepped,
           NEW i \in DOMAIN Todo, NEW j \in DOMAIN Todo, NEW n \in DOMAIN seen', NEW g \in Files,
           i < j, Todo[j] = seen'[n], Todo[i] = g, Stays \/ i # 1
    PROVE  ~Ahead(n, g)'
<1> SUFFICES ASSUME Ahead(n, g)' PROVE FALSE
  OBVIOUS
<1>1. /\ File = Todo[1] /\ 1 \in DOMAIN Todo /\ i \in Nat \ {0} /\ j \in Nat /\ j # 1
      /\ seen \in Seq(Files) /\ File \in Files
  BY HeadOfTodo, RestOfTodo DEF FileStepped, IntakeInv, IntakeTypes, RunState, Todo
<1>2. Todo[j] # File
  BY <1>1 DEF OrderInv
<1>3. n \in DOMAIN seen /\ seen'[n] = seen[n]
  BY <1>1, <1>2, StepKnown
<1>4. \A k \in 1 .. n : k \in DOMAIN seen /\ seen'[k] = seen[k]
  BY <1>1, <1>3, StepKnown
<1>5. PICK h \in Files : h = seen[n] /\ h # File /\ h = Todo[j]
  BY <1>1, <1>2, <1>3
<1>6. place'[h] = place[h] /\ row'[h] = row[h] /\ place[h] \in Names
  BY <1>1, <1>5 DEF FileStepped, OrderInv, Intake!Incoming
<1>7. \/ row'[File].original = row[File].original
      \/ row[File].original = None /\ ~Known(File)
  BY <1>1 DEF FileStepped, OrderInv
<1>8. Intake!SamePath(seen[n])
  <2>1. Intake!SamePath(h)'
    BY <1>3, <1>5 DEF Ahead, Intake!SamePath
  <2>2. \A f \in Files \ {h} : row[f].original # place[h]
    BY <1>6, <1>7, <2>1, ContentAssumption DEF Intake!SamePath, FileStepped
  <2> QED BY <1>5, <1>6, <2>1, <2>2 DEF Intake!SamePath
<1>9. Intake!Incoming(g) /\ place'[g] = place[g]
  BY <1>1, ContentAssumption DEF Ahead, Intake!Incoming, FileStepped
<1>10. \A k \in 1 .. n : row[seen[k]].original # place[g]
  <2> SUFFICES ASSUME NEW k \in 1 .. n PROVE row[seen[k]].original # place[g]
    OBVIOUS
  <2>1. seen[k] \in Files /\ row'[seen[k]].original # place[g] /\ Known(seen[k])
    BY <1>1, <1>4, <1>9 DEF Ahead, Known
  <2> QED BY <1>7, <2>1 DEF FileStepped
<1>11. Ahead(n, g)
  BY <1>8, <1>9, <1>10 DEF Ahead
<1>12. ~Ahead(n, Todo[i])
  BY <1>3, <1>5 DEF OrderInv
<1> QED BY <1>11, <1>12

LEMMA StepPaths ==
    ASSUME IntakeInv, IntakeInv', OrderInv, FileStepped
    PROVE  \A f \in Files : /\ row'[f].path \in Names \cup {None, "processed"}
                            /\ row'[f].original \in Names \cup {None}
                            /\ row'[f].status = "absent" => row'[f].original = None
<1>1. File \in Files /\ File = Todo[1] /\ 1 \in DOMAIN Todo
  BY HeadOfTodo DEF FileStepped, IntakeInv
<1>2. run.at # "finish" => place[File] \in Names
  BY <1>1 DEF OrderInv, Intake!Incoming
<1>3. \A f \in Files \ {File} : row'[f] = row[f]
  BY DEF FileStepped
<1>4. row'[File].path \in Names \cup {None, "processed"}
  BY <1>1, <1>2 DEF FileStepped, OrderInv
<1>5. /\ row'[File].original \in Names \cup {None}
      /\ row'[File].status = "absent" => row'[File].original = None
  BY <1>1, <1>2 DEF FileStepped, OrderInv, Stays
<1> QED BY <1>3, <1>4, <1>5 DEF OrderInv

\* A step that stays at its file, or ends the run, or goes on.
LEMMA FileOrder == IntakeInv /\ IntakeInv' /\ OrderInv /\ FileStepped => OrderInv'
<1> SUFFICES ASSUME IntakeInv, IntakeInv', OrderInv, FileStepped PROVE OrderInv'
  OBVIOUS
<1>1. /\ \A m, n \in DOMAIN seen' : seen'[m] = seen'[n] => m = n
      /\ \A f \in Files : Known(f)' <=> row'[f].status # "absent"
      /\ \A f \in Files : /\ row'[f].path \in Names \cup {None, "processed"}
                          /\ row'[f].original \in Names \cup {None}
                          /\ row'[f].status = "absent" => row'[f].original = None
  BY StepKnown, StepPaths
<1>2. /\ Todo # <<>> /\ File \in Files /\ File = Todo[1] /\ 1 \in DOMAIN Todo
      /\ run.at # "idle" /\ DOMAIN Todo \subseteq Nat /\ seen \in Seq(Files)
      /\ \A i \in DOMAIN Todo : Todo[i] \in Files
  BY HeadOfTodo, RestOfTodo DEF FileStepped, IntakeInv, IntakeTypes, RunState, Todo
<1>3. \A i \in DOMAIN Todo : i # 1 => Intake!Incoming(Todo[i]) /\ place'[Todo[i]] = place[Todo[i]]
  BY <1>2 DEF OrderInv, FileStepped
<1>4. \A f \in Files \ {File} :
         run.mode = "fifo" /\ Known(f)' /\ Intake!Waiting(f)'
            => \/ \E i \in DOMAIN Todo : i # 1 /\ Todo[i] = f
               \/ run.dry \/ NoneOpen(run, slot')
  BY <1>2, StepKnown, StepWaits DEF OrderInv, FileStepped, NoneOpen
<1>5. CASE Stays
  <2>1. Todo' = Todo /\ UNCHANGED <<run.mode, run.dry, run.added>>
    BY <1>5 DEF Stays, Todo
  <2>2. \A i \in DOMAIN Todo : Intake!Incoming(Todo[i])' \/ (i = 1 /\ run'.at = "finish")
    BY <1>2, <1>3, <1>5, <2>1 DEF OrderInv, Stays, Intake!Incoming
  <2>3. ASSUME NEW i \in DOMAIN Todo', NEW j \in DOMAIN Todo', NEW n \in DOMAIN seen', NEW g \in Files,
               i < j, Todo'[j] = seen'[n], Todo'[i] = g
        PROVE  ~Ahead(n, g)'
    BY <1>5, <2>1, <2>3, StepAhead
  <2>4. \A i, j \in DOMAIN Todo', n \in DOMAIN seen' :
           i < j /\ Todo'[j] = seen'[n] => ~Ahead(n, Todo[i])'
    BY <1>2, <2>1, <2>3
  <2>5. \A f \in Files :
           run'.at # "idle" /\ run'.mode = "fifo" /\ Known(f)' /\ Intake!Waiting(f)'
              => \/ \E i \in DOMAIN Todo' : Todo'[i] = f
                 \/ run'.dry \/ NoneOpen(run, slot)'
    BY <1>2, <1>4, <2>1 DEF NoneOpen
  <2>6. \A i, j \in DOMAIN Todo' : Todo'[i] = Todo'[j] => i = j
    BY <2>1 DEF OrderInv
  <2> QED BY <1>1, <2>1, <2>2, <2>4, <2>5, <2>6 DEF OrderInv
<1>6. CASE Stops
  <2>1. DOMAIN Todo' = {} /\ run'.at = "idle"
    BY <1>6 DEF Stops, Todo
  <2> QED BY <1>1, <2>1 DEF OrderInv
<1>7. CASE GoesOn
  <2>1. Todo' = Tail(Todo) /\ UNCHANGED <<run.mode, run.dry, run.added>>
    BY <1>7 DEF GoesOn, Todo
  <2>2. /\ \A i \in DOMAIN Tail(Todo) : i + 1 \in DOMAIN Todo /\ Tail(Todo)[i] = Todo[i + 1]
        /\ \A i \in DOMAIN Todo :
              i = 1 \/ (i - 1 \in DOMAIN Tail(Todo) /\ Tail(Todo)[i - 1] = Todo[i])
        /\ DOMAIN Tail(Todo) \subseteq Nat \ {0}
    BY <1>2, RestOfTodo DEF IntakeInv
  <2>3. \A i, j \in DOMAIN Todo' : Todo'[i] = Todo'[j] => i = j
    BY <2>1, <2>2 DEF OrderInv
  <2>4. ASSUME NEW i \in DOMAIN Todo', NEW j \in DOMAIN Todo', NEW n \in DOMAIN seen', NEW g \in Files,
               i < j, Todo'[j] = seen'[n], Todo'[i] = g
        PROVE  ~Ahead(n, g)'
    <3>1. /\ i + 1 < j + 1 /\ Todo[j + 1] = seen'[n] /\ Todo[i + 1] = g /\ i + 1 # 1
          /\ i + 1 \in DOMAIN Todo /\ j + 1 \in DOMAIN Todo
      BY <2>1, <2>2, <2>4
    <3> QED BY <3>1, StepAhead
  <2>5. \A i, j \in DOMAIN Todo', n \in DOMAIN seen' :
           i < j /\ Todo'[j] = seen'[n] => ~Ahead(n, Todo[i])'
    <3>1. \A i \in DOMAIN Todo' : Todo'[i] \in Files
      BY <1>2, <2>1, <2>2
    <3> QED BY <2>4, <3>1
  <2>6. \A i \in DOMAIN Todo' : Intake!Incoming(Todo[i])'
    <3> SUFFICES ASSUME NEW i \in DOMAIN Todo' PROVE place'[Todo'[i]] \in Names
      BY DEF Intake!Incoming
    <3>1. i + 1 \in DOMAIN Todo /\ i + 1 # 1 /\ Todo'[i] = Todo[i + 1]
      BY <2>1, <2>2
    <3> QED BY <1>3, <3>1 DEF Intake!Incoming
  <2>7. ASSUME NEW f \in Files, run'.mode = "fifo", Known(f)', Intake!Waiting(f)'
        PROVE  \/ \E i \in DOMAIN Todo' : Todo'[i] = f
               \/ run'.dry \/ NoneOpen(run, slot)'
    <3>1. CASE f = File
      BY <1>7, <2>1, <2>7, <3>1 DEF GoesOn, NoneOpen
    <3>2. CASE f # File
      <4>1. \/ \E i \in DOMAIN Todo : i # 1 /\ Todo[i] = f
            \/ run.dry \/ NoneOpen(run, slot')
        BY <1>4, <2>1, <2>7, <3>2
      <4>2. ASSUME NEW i \in DOMAIN Todo, i # 1, Todo[i] = f
            PROVE  \E k \in DOMAIN Todo' : Todo'[k] = f
        BY <2>1, <2>2, <4>2
      <4> QED BY <2>1, <4>1, <4>2 DEF NoneOpen
    <3> QED BY <3>1, <3>2
  <2> QED BY <1>1, <2>3, <2>5, <2>6, <2>7 DEF OrderInv
<1> QED BY <1>5, <1>6, <1>7 DEF FileStepped

LEMMA AddSlotOrder ==
    ASSUME IntakeInv, OrderInv, NEW s \in Slots, Intake!AddSlot(s)
    PROVE  OrderInv'
<1>1. /\ run'.at = run.at /\ run'.todo = run.todo /\ run'.mode = run.mode /\ run'.dry = run.dry
      /\ run.at # "idle" => run'.added = run.added \cup {s}
  BY DEF Intake!AddSlot, IntakeInv, IntakeTypes, RunState
<1>2. Todo' = Todo /\ UNCHANGED <<place, row, seen>>
  BY <1>1 DEF Intake!AddSlot, Todo
<1>3. run.at # "idle" /\ NoneOpen(run, slot) => NoneOpen(run, slot)'
  BY <1>1 DEF Intake!AddSlot, NoneOpen, IntakeInv, IntakeTypes
<1>4. \A n \in DOMAIN seen, i \in DOMAIN Todo : Ahead(n, Todo[i])' => Ahead(n, Todo[i])
  BY <1>2 DEF Ahead, Intake!Incoming, Intake!SamePath
<1>5. \A f \in Files :
         run'.at # "idle" /\ run'.mode = "fifo" /\ Known(f)' /\ Intake!Waiting(f)'
            => \/ \E i \in DOMAIN Todo' : Todo'[i] = f
               \/ run'.dry \/ NoneOpen(run, slot)'
  BY <1>1, <1>2, <1>3 DEF OrderInv, Known, Intake!Waiting, Intake!Incoming
<1> QED BY <1>1, <1>2, <1>4, <1>5 DEF OrderInv, Known, Intake!Incoming

\* What a run still has to do keeps its names, and a file that waits goes on to.
LEMMA RenameOrder ==
    ASSUME IntakeInv, OrderInv, NEW f \in Files, NEW path \in Names, Intake!RenameFile(f, path)
    PROVE  OrderInv'
<1>1. /\ place[f] \in Names /\ place' = [place EXCEPT ![f] = path]
      /\ UNCHANGED <<row, seen, slot, run>> /\ Todo' = Todo
      /\ \A i \in DOMAIN Todo : Todo[i] # f
  BY DEF Intake!RenameFile, Intake!Incoming, Todo, Intake!ToSet
<1>2. place \in [Files -> Places] /\ \A i \in DOMAIN Todo : Todo[i] \in Files
  BY DEF IntakeInv, IntakeTypes, RunState, Todo
<1>3. /\ \A i \in DOMAIN Todo : place'[Todo[i]] = place[Todo[i]]
      /\ \A g \in Files : Intake!Incoming(g)' <=> Intake!Incoming(g)
  BY <1>1, <1>2 DEF Intake!Incoming
<1>4. ASSUME NEW i \in DOMAIN Todo, NEW j \in DOMAIN Todo, NEW n \in DOMAIN seen,
             i < j, Todo[j] = seen[n]
      PROVE  ~Ahead(n, Todo[i])'
  <2>1. Ahead(n, Todo[i])' => Ahead(n, Todo[i])
    BY <1>1, <1>2, <1>3, <1>4 DEF Ahead, Intake!Incoming, Intake!SamePath
  <2> QED BY <1>4, <2>1 DEF OrderInv
<1>5. \A g \in Files : Intake!Waiting(g)' => Intake!Waiting(g)
  BY <1>1, <1>3 DEF Intake!Waiting
<1>6. \A i \in DOMAIN Todo : Intake!Incoming(Todo[i])' \/ (i = 1 /\ run'.at = "finish")
  BY <1>1, <1>2, <1>3 DEF OrderInv, Intake!Incoming
<1> QED BY <1>1, <1>4, <1>5, <1>6 DEF OrderInv, Known, NoneOpen

LEMMA OrderStep ==
    IntakeInv /\ IntakeInv' /\ OrderInv /\ [Intake!Next]_(Intake!vars) => OrderInv'
<1> SUFFICES ASSUME IntakeInv, IntakeInv', OrderInv, [Intake!Next]_(Intake!vars)
             PROVE  OrderInv'
  OBVIOUS
<1>1. CASE UNCHANGED Intake!vars
  BY <1>1 DEF Intake!vars, OrderInv, Known, NoneOpen, Ahead, Intake!Waiting, Intake!Incoming,
              Intake!SamePath, Todo
<1>2. CASE Intake!EndRun \/ Intake!Die
  <2>1. Todo' = <<>> /\ run'.at = "idle" /\ UNCHANGED <<row, seen>>
    BY <1>2, StopRun DEF Intake!EndRun, Intake!Die, Todo
  <2> QED BY <2>1, StoppedOrder
<1> QED
  BY <1>1, <1>2, AddSlotOrder, RenameOrder, StartRunOrder, FileStep, FileOrder
  DEF Intake!Next, Intake!Command

\* A step of the command that is not the claim changes no video's slot.
LEMMA ClaimOnly ==
    ASSUME IntakeInv, Intake!Next, ~Intake!AssignSlot, NEW f \in Files
    PROVE  row'[f].slot = row[f].slot
<1>1. Intake!ProcessOne \/ row' = row
  BY DEF Intake!Next, Intake!Command, Intake!StartRun, Intake!EndRun, Intake!Die,
         Intake!AddSlot, Intake!RenameFile
<1> QED BY <1>1, FileStep DEF FileStepped

LEMMA ClaimKeepsOrder ==
    ASSUME IntakeInv, OrderInv, Intake!Next, NEW i \in DOMAIN seen, NEW j \in DOMAIN seen,
           i < j, run.mode = "fifo", row'[seen[j]].slot \notin {row[seen[j]].slot} \cup run.added,
           Intake!SamePath(seen[i]), \A k \in 1 .. i : row[seen[k]].original # place[seen[j]]
    PROVE  ~Intake!Waiting(seen[i])
<1> SUFFICES ASSUME Intake!Waiting(seen[i]) PROVE FALSE
  OBVIOUS
<1>1. seen[i] \in Files /\ seen[j] \in Files /\ i \in Nat /\ j \in Nat /\ 1 <= i
  BY DEF IntakeInv, IntakeTypes
<1>2. Intake!AssignSlot
  BY <1>1, ClaimOnly
<1>3. /\ run.at = "claim" /\ ~run.dry /\ run.slot \in Slots /\ slot[run.slot] = "open"
      /\ FileStepped
  BY <1>2, FileStep DEF Intake!AssignSlot, Intake!ProcessOne, IntakeInv, RunInv
<1>4. File = seen[j] /\ File = Todo[1] /\ 1 \in DOMAIN Todo
  BY <1>1, <1>3, HeadOfTodo DEF FileStepped, IntakeInv
<1>5. row'[seen[j]].slot = run.slot
  <2>1. row' = [row EXCEPT ![File] = [row[File] EXCEPT !.slot = run.slot]]
    BY <1>2 DEF Intake!AssignSlot, Intake!UpdateVideo, File, Intake!Video
  <2>2. File \in Files /\ row[File] \in RowState /\ row \in [Files -> RowState]
    BY <1>3 DEF FileStepped, IntakeInv, IntakeTypes
  <2> QED BY <1>4, <2>1, <2>2 DEF RowState
<1>6. ~NoneOpen(run, slot)
  BY <1>3, <1>5 DEF NoneOpen
<1>7. seen[i] # seen[j]
  BY <1>1 DEF OrderInv
<1>8. PICK k \in DOMAIN Todo : Todo[k] = seen[i]
  BY <1>1, <1>3, <1>6 DEF OrderInv, Known
<1>9. 1 < k
  BY <1>4, <1>7, <1>8 DEF IntakeInv, IntakeTypes, RunState, Todo
<1>10. Intake!Incoming(File)
  BY <1>3, <1>4 DEF OrderInv
<1>11. Ahead(i, File)
  BY <1>4, <1>10 DEF Ahead
<1> QED BY <1>4, <1>8, <1>9, <1>11 DEF OrderInv

-----------------------------------------------------------------------------
\* Every step of the whole is a step of each part, or leaves the part alone.
LEMMA PartsStep ==
    [MCNext]_<<focus, intakeVars, mediaVars, vars>> => [Next]_vars /\ [Intake!Next]_(Intake!vars)
BY DEF MCNext, vars, intakeVars, mediaVars, Intake!vars, Intake!Next

LEMMA IntakeHolds == Intake!Spec => [](IntakeInv /\ OrderInv)
<1>1. Intake!Init => IntakeInv /\ OrderInv
  BY IntakeInit, OrderInit
<1>2. IntakeInv /\ OrderInv /\ [Intake!Next]_(Intake!vars) => (IntakeInv /\ OrderInv)'
  BY IntakeStep, OrderStep
<1> QED BY <1>1, <1>2, PTL DEF Intake!Spec

LEMMA IntakePart == MCSpec => Intake!Spec
<1>1. MCInit => Intake!Init
  BY DEF MCInit
<1> QED BY <1>1, PartsStep, PTL DEF MCSpec, Intake!Spec

\* processing.py (process_one, assign_slot): whatever runs came before and died
\* where, a video that is reported ASSIGNED has its slot, its post and its file.
THEOREM AssignedIsWhole == Intake!Spec => []AssignedIsComplete
<1>1. IntakeInv => AssignedIsComplete
  BY DEF IntakeInv, AssignedIsComplete
<1> QED BY <1>1, IntakeHolds, PTL

\* processing.py: only a run that died between the claim and ASSIGNED leaves a
\* slot with a video that does not have it, or a row with a path that is gone.
THEOREM StrayIsDeath == Intake!Spec => []StrayNeedsDeath
<1>1. IntakeInv => StrayNeedsDeath
  <2> SUFFICES ASSUME IntakeInv, NEW f \in Files, Intake!Astray(f), f \notin cut PROVE FALSE
    BY DEF StrayNeedsDeath, Intake!StrayNeedsDeath
  <2>1. ~ \E s \in Slots : slot[s] = f /\ row[f].slot # s
    BY DEF IntakeInv, CutInv
  <2>2. run.at = "idle" /\ row[f].slot # None /\ row[f].path # place[f]
    BY <2>1 DEF Intake!Astray
  <2>3. row[f].status = "ASSIGNED"
    BY <2>2 DEF IntakeInv, CutInv, Holding
  <2> QED BY <2>2, <2>3 DEF IntakeInv, Intake!AssignedIsComplete
<1> QED BY <1>1, IntakeHolds, PTL

\* processing.py (discover_videos): in fifo mode no slot that was there when the
\* run began goes to a video while one that was seen before it waits, if that one
\* lies alone under the path it was first seen at and the other's path is a later
\* one; slots may be added, and other files renamed, while the command runs.
THEOREM OrderIsKept == Intake!Spec => NotOvertaken
<1>1. IntakeInv /\ OrderInv /\ [Intake!Next]_(Intake!vars)
         => [\A i \in DOMAIN seen, j \in DOMAIN seen :
                /\ i < j /\ run.mode = "fifo"
                /\ row'[seen[j]].slot \notin {row[seen[j]].slot} \cup run.added
                /\ Intake!SamePath(seen[i])
                /\ \A k \in 1 .. i : row[seen[k]].original # place[seen[j]]
                => ~Intake!Waiting(seen[i])]_(Intake!vars)
  BY ClaimKeepsOrder
<1> QED BY <1>1, IntakeHolds, PTL DEF Intake!Spec, NotOvertaken, Intake!NotOvertaken

(***************************************************************************)
(* Media.                                                                  *)
(***************************************************************************)
Exists(v) == Storage!Exists(v)
Busy(v) == Storage!Busy(v)
Stored(v) == object[v] # "none"
Matched(v) == media[v].key <=> Stored(v)

RequestAt == {"idle", "next", "check", "insert", "put", "stamp", "reread", "refused", "outcome"}
UploadRequest == [at : RequestAt, video : Videos \cup {None}, ok : BOOLEAN,
                  success : 0..MaxFiles, failure : 0..MaxFiles]
MediaRow == [status : {"absent", "DISCOVERED", "FAILED"}, key : BOOLEAN, local : BOOLEAN]
Attempt == [status : {None, "SUCCESS", "FAILED"}, video : Videos \cup {None}]
Batch == [files : 0..MaxFiles, status : {None, "STARTED", "COMPLETED"},
          success : 0..MaxFiles, failure : 0..MaxFiles]
MigrationState == [at : {"idle", "put", "stamp", "verify"}, video : Videos \cup {None},
                   left : SUBSET Videos, mismatch : BOOLEAN]

MediaTypes ==
    /\ media \in [Videos -> MediaRow] /\ object \in [Videos -> {"none", "same", "damaged"}]
    /\ late \subseteq Videos /\ troubled \subseteq Videos
    /\ batch \in Batch /\ attempts \in Seq(Attempt) /\ Len(attempts) <= batch.files
    /\ request \in UploadRequest
    /\ deletion \in [at : {"idle", "object", "row"}, video : Videos \cup {None}]
    /\ migration \in MigrationState

\* A batch counts its files: the request is at one more than it has counted.
CountInv ==
    /\ MediaTypes
    /\ request.at = "idle" => request.success = 0 /\ request.failure = 0
    /\ request.at = "next" => request.success + request.failure = Len(attempts)
    /\ request.at \notin {"idle", "next"} =>
          request.success + request.failure + 1 = Len(attempts)
    /\ batch.status = None => Len(attempts) = 0 /\ request.at = "idle"

\* Whom each process is at; one of upload and migration runs.
PlaceInv ==
    /\ request.video = None \/ migration.video = None
    /\ focus # "migration" => migration.at = "idle"
    /\ focus # "upload" => request.at = "idle"
    /\ request.at \in {"idle", "next", "check", "insert"} => request.video = None
    /\ request.at \in {"put", "stamp", "refused", "reread"} => request.video \in Videos
    /\ migration.at \in {"stamp", "verify"} <=> migration.video \in Videos
    /\ deletion.at = "idle" => deletion.video = None
    /\ deletion.at # "idle" => deletion.video \in Videos /\ Exists(deletion.video)
    /\ late \subseteq troubled

\* What the stages of the upload, the migration and the deletion of a video
\* say of its row and its object, as long as nothing went wrong.
StageInv ==
    \A v \in Videos \ troubled :
        /\ Storage!InUpload(v) => Exists(v) /\ deletion.video # v
        /\ request.video = v =>
              /\ request.at \in {"put", "refused"} => ~media[v].key /\ ~Stored(v)
              /\ request.at = "stamp" => ~media[v].key /\ Stored(v)
              /\ request.at \in {"reread", "outcome"} => Matched(v)
        /\ migration.video = v => Stored(v) /\ (migration.at = "verify" => media[v].key)
        /\ deletion.video = v => (deletion.at = "row" => ~Stored(v))
        /\ ~Busy(v) => Matched(v)

MediaInv == CountInv /\ PlaceInv /\ StageInv

-----------------------------------------------------------------------------
LEMMA RequestGoes ==
    ASSUME CountInv, NEW stage \in RequestAt, Storage!RequestTo(stage)
    PROVE  /\ request' \in UploadRequest /\ request'.at = stage
           /\ request'.video = request.video /\ request'.ok = request.ok
           /\ request'.success = request.success /\ request'.failure = request.failure
BY DEF CountInv, MediaTypes, UploadRequest, Storage!RequestTo

LEMMA MediaInit == Storage!Init => CountInv /\ StageInv
<1> SUFFICES ASSUME Storage!Init PROVE CountInv /\ StageInv
  OBVIOUS
<1>1. media \in [Videos -> MediaRow] /\ \A v \in Videos : ~media[v].key
  <2>1. /\ Storage!NoRow \in MediaRow /\ ~Storage!NoRow.key
        /\ [Storage!NoRow EXCEPT !.status = "DISCOVERED", !.local = TRUE] \in MediaRow
        /\ ~[Storage!NoRow EXCEPT !.status = "DISCOVERED", !.local = TRUE].key
    BY DEF Storage!NoRow, MediaRow
  <2> QED BY <2>1 DEF Storage!Init
<1>2. /\ object \in [Videos -> {"none", "same", "damaged"}] /\ late = {} /\ troubled = {}
      /\ \A v \in Videos : object[v] = "none"
  BY DEF Storage!Init
<1>3. batch \in Batch /\ attempts \in Seq(Attempt) /\ Len(attempts) = 0 /\ batch.files = 0
  BY ContentAssumption DEF Storage!Init, Batch
<1>4. request \in UploadRequest /\ request.at = "idle" /\ request.success = 0 /\ request.failure = 0
  BY ContentAssumption DEF Storage!Init, UploadRequest, RequestAt
<1>5. /\ deletion \in [at : {"idle", "object", "row"}, video : Videos \cup {None}]
      /\ deletion.video = None /\ migration.video = None /\ request.video = None
      /\ migration \in MigrationState
  BY DEF Storage!Init, Storage!Idle, MigrationState
<1>6. MediaTypes
  BY <1>1, <1>2, <1>3, <1>4, <1>5 DEF MediaTypes
<1>7. CountInv
  BY <1>3, <1>4, <1>6 DEF CountInv
<1>8. StageInv
  BY <1>1, <1>2, <1>5, ContentAssumption
  DEF StageInv, Storage!InUpload, Busy, Storage!Busy, Matched, Stored
<1> QED BY <1>7, <1>8

\* The row of a video is rewritten, if it is there.
LEMMA VideoWritten ==
    ASSUME CountInv, NEW v \in Videos, NEW new \in MediaRow, Storage!UpdateVideo(v, new)
    PROVE  /\ media' \in [Videos -> MediaRow] /\ \A u \in Videos \ {v} : media'[u] = media[u]
           /\ IF Exists(v) THEN media'[v] = new ELSE media'[v] = media[v]
BY DEF CountInv, MediaTypes, Storage!UpdateVideo, Exists

LEMMA RowsRewritten ==
    ASSUME CountInv, NEW v \in Videos
    PROVE  /\ [media[v] EXCEPT !.status = "FAILED"] \in MediaRow
           /\ [media[v] EXCEPT !.status = "FAILED"].key = media[v].key
           /\ [media[v] EXCEPT !.status = "FAILED"].status = "FAILED"
           /\ [media[v] EXCEPT !.key = TRUE] \in MediaRow
           /\ [media[v] EXCEPT !.key = TRUE].key
           /\ [media[v] EXCEPT !.key = TRUE].status = media[v].status
<1>1. PICK r \in MediaRow : r = media[v]
  BY DEF CountInv, MediaTypes
<1> QED BY <1>1 DEF MediaRow

\* The attempt of the file the request is at.
LEMMA AttemptClosed ==
    ASSUME CountInv, Len(attempts) >= 1, NEW status \in {"SUCCESS", "FAILED"},
           NEW video_ \in Videos \cup {None}, Storage!CloseAttempt(status, video_)
    PROVE  attempts' \in Seq(Attempt) /\ Len(attempts') = Len(attempts)
<1>1. attempts \in Seq(Attempt) /\ Len(attempts) \in 1 .. Len(attempts)
  BY DEF CountInv, MediaTypes
<1>2. [status |-> status, video |-> video_] \in Attempt
  BY DEF Attempt
<1> QED BY <1>1, <1>2 DEF Storage!CloseAttempt, Storage!FileNumber

LEMMA RequestEnds ==
    ASSUME Storage!EndRequest
    PROVE  /\ request' \in UploadRequest /\ request'.at = "idle" /\ request'.video = None
           /\ request'.success = 0 /\ request'.failure = 0
BY ContentAssumption DEF Storage!EndRequest, UploadRequest, RequestAt

LEMMA ObjectPut ==
    ASSUME CountInv, NEW v \in Videos,
           \/ Storage!PutAnswered(v) \/ Storage!PutRefused(v) \/ Storage!PutUnanswered(v)
    PROVE  /\ object' \in [Videos -> {"none", "same", "damaged"}] /\ late' \subseteq late \cup {v}
           /\ \A u \in Videos \ {v} : object'[u] = object[u]
           /\ Storage!PutAnswered(v) => object'[v] = "same" /\ late' = late
           /\ Storage!PutRefused(v) => object'[v] = object[v] /\ late' = late
BY DEF CountInv, MediaTypes, Storage!PutAnswered, Storage!PutRefused, Storage!PutUnanswered

\* _process_one_upload and the batch: each file is counted once.
LEMMA UploadCounts == CountInv /\ PlaceInv /\ Storage!UploadStep => CountInv'
<1> SUFFICES ASSUME CountInv, PlaceInv, Storage!UploadStep PROVE CountInv'
  OBVIOUS
<1>0. /\ media \in [Videos -> MediaRow] /\ object \in [Videos -> {"none", "same", "damaged"}]
      /\ late \subseteq Videos /\ troubled \subseteq Videos
      /\ batch \in Batch /\ attempts \in Seq(Attempt) /\ Len(attempts) <= batch.files
      /\ request \in UploadRequest /\ Len(attempts) \in Nat
      /\ deletion \in [at : {"idle", "object", "row"}, video : Videos \cup {None}]
      /\ migration \in MigrationState
  BY DEF CountInv, MediaTypes
<1>1. /\ request.success \in Nat /\ request.failure \in Nat /\ batch.files \in Nat
      /\ batch.files <= MaxFiles /\ MaxFiles \in Nat
  BY <1>0, ContentAssumption DEF UploadRequest, Batch
<1>2. CASE Storage!StartBatch
  <2>1. PICK n \in 1 .. MaxFiles :
           batch' = [files |-> n, status |-> "STARTED", success |-> 0, failure |-> 0]
    BY <1>2 DEF Storage!StartBatch
  <2>2. batch' \in Batch /\ batch'.files = n /\ batch'.status = "STARTED"
    BY <1>1, <2>1 DEF Batch
  <2>3. request' \in UploadRequest /\ request'.at = "next"
        /\ request'.success = request.success /\ request'.failure = request.failure
    BY <1>2, RequestGoes DEF Storage!StartBatch, RequestAt
  <2>4. /\ UNCHANGED <<media, object, late, attempts, deletion, migration, troubled>>
        /\ Len(attempts) = 0 /\ request.success = 0 /\ request.failure = 0
    BY <1>2 DEF Storage!StartBatch, CountInv
  <2>5. MediaTypes'
    BY <1>0, <2>2, <2>3, <2>4 DEF MediaTypes
  <2> QED BY <2>2, <2>3, <2>4, <2>5, ContentAssumption DEF CountInv
<1>3. CASE Storage!StartAttempt
  <2>1. /\ request' \in UploadRequest /\ request'.at = "check" /\ request.at = "next"
        /\ request'.success = request.success /\ request'.failure = request.failure
    BY <1>3, RequestGoes DEF Storage!StartAttempt, RequestAt
  <2>2. [status |-> None, video |-> None] \in Attempt
    BY DEF Attempt
  <2>3. attempts' \in Seq(Attempt) /\ Len(attempts') = Len(attempts) + 1
    BY <1>0, <1>3, <2>2 DEF Storage!StartAttempt
  <2>4. /\ UNCHANGED <<media, object, late, batch, deletion, migration, troubled>>
        /\ Len(attempts) < batch.files /\ batch.status # None
    BY <1>1, <1>3 DEF Storage!StartAttempt, Storage!FileNumber, CountInv
  <2>5. MediaTypes'
    BY <1>0, <1>1, <2>1, <2>3, <2>4 DEF MediaTypes
  <2> QED BY <1>0, <1>1, <2>1, <2>3, <2>4, <2>5 DEF CountInv
<1>4. CASE Storage!RejectType
  <2>1. /\ request' = [request EXCEPT !.at = "next", !.failure = @ + 1] /\ request.at = "check"
        /\ Storage!CloseAttempt("FAILED", None)
        /\ UNCHANGED <<media, object, late, batch, deletion, migration, troubled>>
    BY <1>4 DEF Storage!RejectType
  <2>2. request.success + request.failure + 1 = Len(attempts)
    BY <2>1 DEF CountInv
  <2>3. attempts' \in Seq(Attempt) /\ Len(attempts') = Len(attempts)
    BY <1>0, <1>1, <2>1, <2>2, AttemptClosed
  <2>4. /\ request' \in UploadRequest /\ request'.at = "next"
        /\ request'.success = request.success /\ request'.failure = request.failure + 1
    <3>1. PICK k \in 0 .. MaxFiles : k = request.failure + 1
      BY <1>0, <1>1, <2>2
    <3>2. request' = [request EXCEPT !.at = "next", !.failure = k]
      BY <2>1, <3>1
    <3> QED BY <1>0, <3>1, <3>2 DEF UploadRequest, RequestAt
  <2>5. MediaTypes'
    BY <1>0, <2>1, <2>3, <2>4 DEF MediaTypes
  <2> QED BY <1>0, <1>1, <2>1, <2>2, <2>3, <2>4, <2>5 DEF CountInv
<1>20. ASSUME request' \in UploadRequest, request.at \notin {"idle", "next"},
              request'.at \notin {"idle", "next"},
              request'.success = request.success, request'.failure = request.failure,
              UNCHANGED <<batch, attempts, deletion, migration>>,
              media' \in [Videos -> MediaRow],
              object' \in [Videos -> {"none", "same", "damaged"}],
              late' \subseteq Videos, troubled' \subseteq Videos
       PROVE  CountInv'
  <2>1. MediaTypes'
    BY <1>0, <1>20 DEF MediaTypes
  <2> QED BY <1>20, <2>1 DEF CountInv
<1>21. ASSUME NEW ok, ok \in BOOLEAN, request' = [request EXCEPT !.at = "outcome", !.ok = ok]
       PROVE  /\ request' \in UploadRequest /\ request'.at = "outcome"
              /\ request'.success = request.success /\ request'.failure = request.failure
  BY <1>0, <1>21 DEF UploadRequest, RequestAt
<1>22. request.at \in {"put", "stamp", "refused", "reread"} => request.video \in Videos
  BY DEF PlaceInv
<1>5. CASE Storage!SaveToTemp
  <2>1. CASE Storage!RequestTo("insert")
    BY <1>0, <1>5, <1>20, <2>1, RequestGoes DEF Storage!SaveToTemp, RequestAt
  <2>2. CASE request' = [request EXCEPT !.at = "outcome", !.ok = FALSE]
    BY <1>0, <1>5, <1>20, <1>21, <2>2 DEF Storage!SaveToTemp
  <2> QED BY <1>5, <2>1, <2>2 DEF Storage!SaveToTemp
<1>6. ASSUME NEW v \in Videos, Storage!InsertVideo(v) PROVE CountInv'
  <2>1. /\ request' = [request EXCEPT !.at = "put", !.video = v] /\ request.at = "insert"
        /\ media' = [media EXCEPT ![v] = [Storage!NoRow EXCEPT !.status = "DISCOVERED"]]
        /\ UNCHANGED <<object, late, batch, attempts, deletion, migration, troubled>>
    BY <1>6 DEF Storage!InsertVideo
  <2>2. [Storage!NoRow EXCEPT !.status = "DISCOVERED"] \in MediaRow
    BY DEF Storage!NoRow, MediaRow
  <2>3. media' \in [Videos -> MediaRow]
    BY <1>0, <2>1, <2>2
  <2>4. /\ request' \in UploadRequest /\ request'.at = "put"
        /\ request'.success = request.success /\ request'.failure = request.failure
    BY <1>0, <2>1 DEF UploadRequest, RequestAt
  <2> QED BY <1>0, <1>20, <2>1, <2>3, <2>4
<1>7. CASE Storage!PutObject
  <2>1. /\ request.at = "put" /\ request.video \in Videos
        /\ UNCHANGED <<media, batch, attempts, deletion, migration>>
        /\ Storage!RequestTo("stamp") \/ Storage!RequestTo("refused")
        /\ troubled' \in {troubled, troubled \cup {request.video}}
        /\ \/ Storage!PutAnswered(request.video) \/ Storage!PutRefused(request.video)
           \/ Storage!PutUnanswered(request.video)
    BY <1>7, <1>22 DEF Storage!PutObject, Storage!CurrentVideo, Storage!Trouble
  <2>2. object' \in [Videos -> {"none", "same", "damaged"}] /\ late' \subseteq Videos
    BY <1>0, <2>1, ObjectPut
  <2> QED BY <1>0, <1>20, <2>1, <2>2, RequestGoes DEF RequestAt
<1>8. CASE Storage!MarkFailed
  <2>1. /\ request.at = "refused" /\ request.video \in Videos
        /\ request' = [request EXCEPT !.at = "outcome", !.ok = FALSE]
        /\ UNCHANGED <<object, late, batch, attempts, deletion, migration>>
        /\ troubled' \in {troubled, troubled \cup {request.video}}
        /\ \/ UNCHANGED media
           \/ Storage!UpdateVideo(request.video, [media[request.video] EXCEPT !.status = "FAILED"])
    BY <1>8, <1>22 DEF Storage!MarkFailed, Storage!CurrentVideo, Storage!Trouble
  <2>2. media' \in [Videos -> MediaRow]
    BY <1>0, <2>1, VideoWritten, RowsRewritten
  <2> QED BY <1>0, <1>20, <1>21, <2>1, <2>2
<1>9. CASE Storage!StampKey
  <2>1. /\ request.at = "stamp" /\ request.video \in Videos
        /\ \/ request' = [request EXCEPT !.at = "outcome", !.ok = FALSE]
           \/ Storage!RequestTo("reread")
        /\ UNCHANGED <<object, late, batch, attempts, deletion, migration>>
        /\ troubled' \in {troubled, troubled \cup {request.video}}
        /\ \/ UNCHANGED media
           \/ Storage!UpdateVideo(request.video, [media[request.video] EXCEPT !.key = TRUE])
    BY <1>9, <1>22 DEF Storage!StampKey, Storage!CurrentVideo, Storage!Trouble
  <2>2. media' \in [Videos -> MediaRow]
    BY <1>0, <2>1, VideoWritten, RowsRewritten
  <2> QED BY <1>0, <1>20, <1>21, <2>1, <2>2, RequestGoes DEF RequestAt
<1>10. CASE Storage!RereadVideo
  <2>1. PICK ok \in {Storage!Exists(Storage!CurrentVideo), FALSE} :
           request' = [request EXCEPT !.at = "outcome", !.ok = ok]
    BY <1>10 DEF Storage!RereadVideo
  <2>2. ok \in BOOLEAN
    BY <2>1 DEF Storage!Exists
  <2> QED BY <1>0, <1>10, <1>20, <1>21, <2>1, <2>2 DEF Storage!RereadVideo
<1>11. CASE Storage!FinishFile
  <2> DEFINE s == request.success + (IF request.ok THEN 1 ELSE 0)
             f == request.failure + (IF request.ok THEN 0 ELSE 1)
  <2>1. /\ request' = [at |-> "next", video |-> None, ok |-> FALSE, success |-> s, failure |-> f]
        /\ request.at = "outcome"
        /\ UNCHANGED <<media, object, late, batch, deletion, migration, troubled>>
    BY <1>11 DEF Storage!FinishFile
  <2>2. PICK status \in {"SUCCESS", "FAILED"}, w \in Videos \cup {None} :
           Storage!CloseAttempt(status, w)
    BY <1>0, <1>11 DEF Storage!FinishFile, Storage!CurrentVideo, UploadRequest
  <2>3. request.success + request.failure + 1 = Len(attempts)
    BY <2>1 DEF CountInv
  <2>4. attempts' \in Seq(Attempt) /\ Len(attempts') = Len(attempts)
    BY <1>0, <1>1, <2>2, <2>3, AttemptClosed
  <2>5. s \in Nat /\ f \in Nat /\ s + f = Len(attempts)
    BY <1>0, <1>1, <2>3
  <2> HIDE DEF s, f
  <2>6. s \in 0 .. MaxFiles /\ f \in 0 .. MaxFiles
    BY <1>0, <1>1, <2>5
  <2>7. /\ request' \in UploadRequest /\ request'.at = "next"
        /\ request'.success = s /\ request'.failure = f
    BY <2>1, <2>6 DEF UploadRequest, RequestAt
  <2>8. MediaTypes'
    BY <1>0, <2>1, <2>4, <2>7 DEF MediaTypes
  <2> QED BY <2>1, <2>4, <2>5, <2>7, <2>8 DEF CountInv
<1>12. CASE Storage!CompleteBatch
  <2>1. /\ Storage!EndRequest /\ request.at = "next"
        /\ batch' \in {batch, [batch EXCEPT !.status = "COMPLETED", !.success = request.success,
                                            !.failure = request.failure]}
        /\ UNCHANGED <<media, object, late, attempts, deletion, migration, troubled>>
    BY <1>12 DEF Storage!CompleteBatch
  <2>2. /\ batch' \in Batch /\ batch'.files = batch.files
        /\ batch'.status = batch.status \/ batch'.status = "COMPLETED"
    <3>1. request.success \in 0 .. MaxFiles /\ request.failure \in 0 .. MaxFiles
      BY <1>0 DEF UploadRequest
    <3> QED BY <1>0, <2>1, <3>1 DEF Batch
  <2>3. MediaTypes'
    BY <1>0, <2>1, <2>2, RequestEnds DEF MediaTypes
  <2> QED BY <2>1, <2>2, <2>3, RequestEnds, ContentAssumption DEF CountInv
<1>13. CASE Storage!AbortRequest
  <2>1. /\ Storage!EndRequest /\ request.at # "idle"
        /\ troubled' = troubled
              \/ (request.video \in Videos /\ troubled' = troubled \cup {request.video})
        /\ UNCHANGED <<media, object, late, batch, attempts, deletion, migration>>
    BY <1>13, <1>22 DEF Storage!AbortRequest, Storage!CurrentVideo, Storage!Trouble
  <2>2. MediaTypes'
    BY <1>0, <2>1, RequestEnds DEF MediaTypes
  <2> QED BY <2>1, <2>2, RequestEnds DEF CountInv
<1> QED
  BY <1>2, <1>3, <1>4, <1>5, <1>6, <1>7, <1>8, <1>9, <1>10, <1>11, <1>12, <1>13
  DEF Storage!UploadStep

\* A step of the upload, which concerns one video at most.
RequestStages(v) ==
    /\ request.at \in {"put", "refused"} => ~media[v].key /\ ~Stored(v)
    /\ request.at = "stamp" => ~media[v].key /\ Stored(v)
    /\ request.at \in {"reread", "outcome"} => Matched(v)

LEMMA UploadMoves ==
    ASSUME MediaInv, CountInv', focus = "upload", UNCHANGED <<focus, migration, deletion>>,
           NEW c \in Videos \cup {None}, request.video \in {c, None}, request'.video \in {c, None},
           request'.at \in {"idle", "next", "check", "insert"} => request'.video = None,
           request'.at \in {"put", "stamp", "refused", "reread"} => request'.video \in Videos,
           \A u \in Videos \ {c} : media'[u] = media[u] /\ object'[u] = object[u],
           troubled \subseteq troubled', late' \subseteq troubled',
           c \in Videos => (Exists(c) => media'[c].status # "absent"),
           c \in Videos \ troubled' =>
               /\ deletion.video # c
               /\ request'.video = c => media'[c].status # "absent" /\ RequestStages(c)'
               /\ request'.video = None => (media'[c].key <=> object'[c] # "none")
    PROVE  PlaceInv' /\ StageInv'
<1>1. migration.at = "idle" /\ migration.video = None /\ migration'.video = None
  BY DEF MediaInv, PlaceInv, CountInv, MediaTypes, MigrationState
<1>2. PlaceInv'
  BY <1>1 DEF MediaInv, PlaceInv, Exists, Storage!Exists
<1>3. ASSUME NEW v \in Videos, v \notin troubled', v # c
      PROVE  /\ ~Storage!InUpload(v) /\ ~Storage!InUpload(v)'
             /\ deletion.video = v => (deletion.at = "row" => ~Stored(v)')
             /\ deletion.video # v => Matched(v)'
  <2>1. request.video # v /\ request'.video # v /\ migration.video # v /\ v \notin troubled
    BY <1>1, <1>3, ContentAssumption
  <2> QED BY <1>1, <1>3, <2>1
          DEF MediaInv, StageInv, Busy, Storage!Busy, Storage!InUpload, Matched, Stored
<1>4. ASSUME NEW v \in Videos, v \notin troubled', v = c, request'.video = c
      PROVE  /\ Exists(v)' /\ deletion.video # v /\ RequestStages(v)' /\ Storage!InUpload(v)'
             /\ migration'.video # v
  BY <1>1, <1>4, ContentAssumption DEF Storage!InUpload, Exists, Storage!Exists
<1>5. ASSUME NEW v \in Videos, v \notin troubled', v = c, request'.video # c
      PROVE  /\ deletion.video # v /\ Matched(v)' /\ ~Storage!InUpload(v)'
             /\ migration'.video # v
  BY <1>1, <1>5, ContentAssumption DEF Storage!InUpload, Matched, Stored
<1>6. StageInv'
  <2> SUFFICES ASSUME NEW v \in Videos, v \notin troubled'
      PROVE  /\ Storage!InUpload(v)' => Exists(v)' /\ deletion'.video # v
             /\ request'.video = v => RequestStages(v)'
             /\ migration'.video = v =>
                   Stored(v)' /\ (migration'.at = "verify" => media'[v].key)
             /\ deletion'.video = v => (deletion'.at = "row" => ~Stored(v)')
             /\ ~Busy(v)' => Matched(v)'
    BY DEF StageInv, RequestStages
  <2>1. CASE v # c
    <3>1. request'.video # v /\ migration'.video # v
      BY <1>1, <2>1, ContentAssumption
    <3> QED BY <1>3, <2>1, <3>1 DEF Busy, Storage!Busy
  <2>2. CASE v = c /\ request'.video = c
    BY <1>4, <2>2 DEF Busy, Storage!Busy
  <2>3. CASE v = c /\ request'.video # c
    BY <1>5, <2>3 DEF Busy, Storage!Busy
  <2> QED BY <2>1, <2>2, <2>3
<1> QED BY <1>2, <1>6

LEMMA UploadPlaces ==
    ASSUME MediaInv, CountInv', focus = "upload", UNCHANGED <<focus, migration>>,
           Storage!UploadStep
    PROVE  PlaceInv' /\ StageInv'
<1>0. /\ media \in [Videos -> MediaRow] /\ object \in [Videos -> {"none", "same", "damaged"}]
      /\ request \in UploadRequest /\ late \subseteq troubled /\ CountInv /\ PlaceInv
  BY DEF MediaInv, CountInv, MediaTypes, PlaceInv
<1>1. UNCHANGED deletion
  BY DEF Storage!UploadStep, Storage!StartBatch, Storage!StartAttempt, Storage!RejectType,
         Storage!SaveToTemp, Storage!InsertVideo, Storage!PutObject, Storage!MarkFailed,
         Storage!StampKey, Storage!RereadVideo, Storage!FinishFile, Storage!CompleteBatch,
         Storage!AbortRequest
<1>2. PICK c \in Videos \cup {None} : c = request.video
  BY <1>0 DEF UploadRequest
<1>3. /\ request.at \in {"idle", "next", "check", "insert"} => c = None
      /\ request.at \in {"put", "stamp", "refused", "reread"} => c \in Videos
      /\ c \in Videos \ troubled => Exists(c) /\ deletion.video # c /\ RequestStages(c)
  BY <1>0, <1>2, ContentAssumption
  DEF MediaInv, PlaceInv, StageInv, Storage!InUpload, RequestStages
<1>4. ASSUME NEW stage \in RequestAt, Storage!RequestTo(stage)
      PROVE  request'.at = stage /\ request'.video = c
  BY <1>0, <1>2, <1>4, RequestGoes
<1>5. ASSUME request' = [request EXCEPT !.at = "outcome", !.ok = FALSE]
      PROVE  request'.at = "outcome" /\ request'.video = c
  BY <1>0, <1>2, <1>5 DEF UploadRequest
\* A step without a video, or one that leaves it as it is.
<1>6. ASSUME UNCHANGED <<media, object, late, troubled>>,
             \/ request'.at \in {"idle", "next", "check", "insert", "outcome"}
                /\ request'.video = None /\ request.at \notin {"put", "stamp", "refused"}
             \/ request'.at \in {"next", "check", "insert", "outcome"}
                /\ request'.video = c /\ request.at \in {"idle", "next", "check", "insert"}
             \/ request'.at = "outcome" /\ request'.video = c /\ request.at = "reread"
      PROVE  PlaceInv' /\ StageInv'
  <2>1. c \in Videos \ troubled /\ request.at \notin {"put", "stamp", "refused"} => Matched(c)
    BY <1>0, <1>3, ContentAssumption DEF RequestStages, UploadRequest, RequestAt
  <2>2. c \in Videos \ troubled =>
          /\ request'.video = c => media'[c].status # "absent" /\ RequestStages(c)'
          /\ request'.video = None => (media'[c].key <=> object'[c] # "none")
    BY <1>3, <1>6, <2>1, ContentAssumption
    DEF RequestStages, Matched, Stored, Exists, Storage!Exists
  <2>3. /\ request'.at \in {"idle", "next", "check", "insert"} => request'.video = None
        /\ request'.at \in {"put", "stamp", "refused", "reread"} => request'.video \in Videos
    BY <1>3, <1>6
  <2> QED BY <1>0, <1>1, <1>2, <1>3, <1>6, <2>2, <2>3, UploadMoves
          DEF Exists, Storage!Exists
<1>7. CASE Storage!StartBatch \/ Storage!StartAttempt
  BY <1>4, <1>6, <1>7 DEF Storage!StartBatch, Storage!StartAttempt, RequestAt
<1>8. CASE Storage!RejectType
  <2>1. request'.at = "next" /\ request'.video = c /\ request.at = "check"
    BY <1>0, <1>2, <1>8 DEF Storage!RejectType, UploadRequest
  <2> QED BY <1>6, <1>8, <2>1 DEF Storage!RejectType
<1>9. CASE Storage!SaveToTemp
  BY <1>4, <1>5, <1>6, <1>9 DEF Storage!SaveToTemp, RequestAt
<1>10. ASSUME NEW v \in Videos, Storage!InsertVideo(v) PROVE PlaceInv' /\ StageInv'
  <2> DEFINE new == [Storage!NoRow EXCEPT !.status = "DISCOVERED"]
  <2>1. /\ c = None /\ request' = [request EXCEPT !.at = "put", !.video = v]
        /\ media' = [media EXCEPT ![v] = new] /\ ~Exists(v) /\ v \notin troubled
        /\ object[v] = "none" /\ UNCHANGED <<object, late, troubled>>
    BY <1>3, <1>10 DEF Storage!InsertVideo, Exists
  <2>2. new.status = "DISCOVERED" /\ ~new.key
    BY DEF Storage!NoRow
  <2> HIDE DEF new
  <2>3. media'[v] = new /\ \A u \in Videos \ {v} : media'[u] = media[u]
    BY <1>0, <2>1
  <2>4. request'.at = "put" /\ request'.video = v
    BY <1>0, <2>1 DEF UploadRequest
  <2>5. deletion.video # v
    BY <1>0, <2>1, ContentAssumption DEF PlaceInv
  <2>6. RequestStages(v)'
    BY <2>1, <2>2, <2>3, <2>4 DEF RequestStages, Stored
  <2> QED BY <1>0, <1>1, <1>2, <2>1, <2>2, <2>3, <2>4, <2>5, <2>6, ContentAssumption, UploadMoves
<1>11. CASE Storage!PutObject
  <2>1. c \in Videos /\ request.at = "put" /\ UNCHANGED media
    BY <1>3, <1>11 DEF Storage!PutObject
  <2>2. /\ \A u \in Videos \ {c} : object'[u] = object[u]
        /\ \/ /\ request'.at = "stamp" /\ object'[c] = "same" /\ UNCHANGED <<late, troubled>>
           \/ /\ request'.at = "refused" /\ object'[c] = object[c] /\ UNCHANGED <<late, troubled>>
           \/ /\ request'.at = "refused" /\ late' \subseteq late \cup {c}
              /\ troubled' = troubled \cup {c}
        /\ request'.video = c
    BY <1>0, <1>2, <1>4, <1>11, <2>1, ObjectPut
    DEF Storage!PutObject, Storage!CurrentVideo, Storage!Trouble, RequestAt
  <2>3. c \in Videos \ troubled' => deletion.video # c /\ Exists(c) /\ RequestStages(c)'
    BY <1>3, <2>1, <2>2 DEF RequestStages, Stored
  <2> QED BY <1>0, <1>1, <1>2, <2>1, <2>2, <2>3, UploadMoves, ContentAssumption
          DEF Exists, Storage!Exists
<1>12. CASE Storage!MarkFailed
  <2>1. /\ c \in Videos /\ request.at = "refused" /\ UNCHANGED <<object, late>>
        /\ request'.at = "outcome" /\ request'.video = c
        /\ \/ /\ Storage!UpdateVideo(c, [media[c] EXCEPT !.status = "FAILED"])
              /\ UNCHANGED troubled
           \/ UNCHANGED media /\ troubled' = troubled \cup {c}
    BY <1>2, <1>3, <1>5, <1>12
    DEF Storage!MarkFailed, Storage!CurrentVideo, Storage!Trouble
  <2>2. /\ \A u \in Videos \ {c} : media'[u] = media[u]
        /\ media'[c].key = media[c].key /\ (Exists(c) => media'[c].status # "absent")
    BY <1>0, <2>1, VideoWritten, RowsRewritten DEF Exists, Storage!Exists
  <2>3. c \in Videos \ troubled' => deletion.video # c /\ Exists(c) /\ RequestStages(c)'
    BY <1>3, <2>1, <2>2 DEF RequestStages, Stored, Matched
  <2> QED BY <1>0, <1>1, <1>2, <2>1, <2>2, <2>3, UploadMoves, ContentAssumption
<1>13. CASE Storage!StampKey
  <2>1. /\ c \in Videos /\ request.at = "stamp" /\ UNCHANGED <<object, late>>
        /\ request'.video = c
        /\ \/ /\ Storage!UpdateVideo(c, [media[c] EXCEPT !.key = TRUE])
              /\ UNCHANGED troubled /\ request'.at = "reread"
           \/ UNCHANGED media /\ troubled' = troubled \cup {c} /\ request'.at = "outcome"
    BY <1>2, <1>3, <1>4, <1>5, <1>13
    DEF Storage!StampKey, Storage!CurrentVideo, Storage!Trouble, RequestAt
  <2>2. /\ \A u \in Videos \ {c} : media'[u] = media[u]
        /\ Exists(c) => media'[c].status # "absent"
        /\ Exists(c) /\ c \notin troubled' => media'[c].key
    <3>1. PICK new \in MediaRow : /\ new = [media[c] EXCEPT !.key = TRUE]
                                 /\ new.key /\ new.status = media[c].status
      BY <1>0, <2>1, RowsRewritten
    <3>2. CASE UNCHANGED media /\ troubled' = troubled \cup {c}
      BY <3>2 DEF Exists, Storage!Exists
    <3>3. CASE Storage!UpdateVideo(c, new)
      <4>1. /\ \A u \in Videos \ {c} : media'[u] = media[u]
            /\ Exists(c) => media'[c] = new
        BY <1>0, <2>1, <3>3, VideoWritten
      <4> QED BY <3>1, <4>1 DEF Exists, Storage!Exists
    <3> QED BY <2>1, <3>1, <3>2, <3>3
  <2>3. c \in Videos \ troubled' => deletion.video # c /\ Exists(c) /\ RequestStages(c)'
    BY <1>3, <2>1, <2>2 DEF RequestStages, Stored, Matched
  <2> QED BY <1>0, <1>1, <1>2, <2>1, <2>2, <2>3, UploadMoves, ContentAssumption
<1>14. CASE Storage!RereadVideo
  <2>1. PICK ok \in {Storage!Exists(Storage!CurrentVideo), FALSE} :
           request' = [request EXCEPT !.at = "outcome", !.ok = ok]
    BY <1>14 DEF Storage!RereadVideo
  <2>2. request'.at = "outcome" /\ request'.video = c
    BY <1>0, <1>2, <2>1 DEF UploadRequest
  <2> QED BY <1>6, <1>14, <2>2 DEF Storage!RereadVideo
<1>15. CASE Storage!FinishFile
  <2>1. request'.at = "next" /\ request'.video = None
    BY <1>15 DEF Storage!FinishFile
  <2> QED BY <1>6, <1>15, <2>1 DEF Storage!FinishFile
<1>16. CASE Storage!CompleteBatch
  BY <1>6, <1>16, RequestEnds DEF Storage!CompleteBatch
<1>17. CASE Storage!AbortRequest
  <2>1. /\ request'.at = "idle" /\ request'.video = None /\ UNCHANGED <<media, object, late>>
        /\ \/ request.at \in {"put", "stamp", "refused"} /\ troubled' = troubled \cup {c}
           \/ request.at \notin {"put", "stamp", "refused"} /\ UNCHANGED troubled
    BY <1>2, <1>17, RequestEnds
    DEF Storage!AbortRequest, Storage!CurrentVideo, Storage!Trouble
  <2>2. CASE request.at \in {"put", "stamp", "refused"} /\ troubled' = troubled \cup {c}
    BY <1>0, <1>1, <1>2, <1>3, <2>1, <2>2, UploadMoves DEF Exists, Storage!Exists
  <2>3. CASE request.at \notin {"put", "stamp", "refused"} /\ UNCHANGED troubled
    BY <1>6, <2>1, <2>3
  <2> QED BY <2>1, <2>2, <2>3
<1> QED
  BY <1>7, <1>8, <1>9, <1>10, <1>11, <1>12, <1>13, <1>14, <1>15, <1>16, <1>17
  DEF Storage!UploadStep

\* A step of the deletion of a video.
DeletionState == [at : {"idle", "object", "row"}, video : Videos \cup {None}]

LEMMA DeletionMoves ==
    ASSUME MediaInv, UNCHANGED <<focus, late, batch, request, migration>>, NEW c \in Videos,
           media' \in [Videos -> MediaRow], object' \in [Videos -> {"none", "same", "damaged"}],
           troubled' \in {troubled, troubled \cup {c}},
           attempts' \in Seq(Attempt), Len(attempts') = Len(attempts),
           deletion' \in DeletionState, deletion.video \in {c, None},
           \/ deletion'.at # "idle" /\ deletion'.video = c /\ media'[c].status # "absent"
           \/ deletion'.at = "idle" /\ deletion'.video = None,
           \A u \in Videos \ {c} : media'[u] = media[u] /\ object'[u] = object[u],
           c \notin troubled' =>
               /\ ~Storage!InUpload(c)
               /\ IF deletion'.at = "idle" THEN media'[c].key <=> object'[c] # "none"
                  ELSE deletion'.at = "row" => object'[c] = "none"
    PROVE  MediaInv'
<1>1. MediaTypes'
  BY DEF MediaInv, CountInv, MediaTypes, DeletionState
<1>2. CountInv'
  BY <1>1 DEF MediaInv, CountInv
<1>3. PlaceInv'
  BY DEF MediaInv, PlaceInv, Exists, Storage!Exists
<1>4. StageInv'
  <2> SUFFICES ASSUME NEW v \in Videos, v \notin troubled'
      PROVE  /\ Storage!InUpload(v)' => Exists(v)' /\ deletion'.video # v
             /\ request'.video = v => RequestStages(v)'
             /\ migration'.video = v =>
                   Stored(v)' /\ (migration'.at = "verify" => media'[v].key)
             /\ deletion'.video = v => (deletion'.at = "row" => ~Stored(v)')
             /\ ~Busy(v)' => Matched(v)'
    BY DEF StageInv, RequestStages
  <2>1. CASE v # c
    <3>1. v \notin troubled /\ deletion.video # v /\ deletion'.video # v
      BY <2>1, ContentAssumption
    <3>2. media'[v] = media[v] /\ object'[v] = object[v]
      BY <2>1
    <3> QED BY <2>1, <3>1, <3>2
            DEF MediaInv, StageInv, RequestStages, Busy, Storage!Busy, Storage!InUpload,
                Matched, Stored, Exists, Storage!Exists
  <2>2. CASE v = c
    BY <2>2, ContentAssumption
    DEF Busy, Storage!Busy, Storage!InUpload, Matched, Stored
  <2> QED BY <2>1, <2>2
<1> QED BY <1>2, <1>3, <1>4 DEF MediaInv

LEMMA DeletionIsSafe ==
    ASSUME MediaInv, UNCHANGED <<focus, request, migration>>, Storage!DeletionStep
    PROVE  MediaInv'
<1>0. /\ media \in [Videos -> MediaRow] /\ object \in [Videos -> {"none", "same", "damaged"}]
      /\ attempts \in Seq(Attempt) /\ deletion \in DeletionState
  BY DEF MediaInv, CountInv, MediaTypes, DeletionState
<1>1. ASSUME NEW v \in Videos, Storage!StartDeletion(v) PROVE MediaInv'
  <2>1. /\ deletion.at = "idle" /\ Exists(v)
        /\ deletion' = [at |-> IF media[v].key THEN "object" ELSE "row", video |-> v]
        /\ troubled' = IF Storage!InUpload(v) THEN troubled \cup {v} ELSE troubled
        /\ UNCHANGED <<media, object, late, batch, attempts>>
    BY <1>1 DEF Storage!StartDeletion, Storage!Trouble, Exists
  <2>2. deletion.video = None
    BY <2>1 DEF MediaInv, PlaceInv
  <2>3. v \notin troubled' => ~Storage!InUpload(v) /\ Matched(v)
    BY <2>1, <2>2, ContentAssumption DEF MediaInv, StageInv, Busy, Storage!Busy
  <2>4. /\ deletion' \in DeletionState /\ deletion'.video = v /\ deletion'.at # "idle"
        /\ deletion'.at = "row" => ~media[v].key
    BY <2>1 DEF DeletionState
  <2> QED BY <1>0, <2>1, <2>2, <2>3, <2>4, DeletionMoves
          DEF Matched, Stored, Exists, Storage!Exists
<1>2. ASSUME deletion.at # "idle"
      PROVE  /\ deletion.video \in Videos /\ Exists(deletion.video)
             /\ deletion.video \notin troubled =>
                   /\ ~Storage!InUpload(deletion.video)
                   /\ deletion.at = "row" => ~Stored(deletion.video)
  BY <1>2 DEF MediaInv, PlaceInv, StageInv
<1>3. Storage!Idle \in DeletionState /\ Storage!Idle.at = "idle" /\ Storage!Idle.video = None
  BY DEF Storage!Idle, DeletionState
<1>4. CASE Storage!DeleteObject
  <2>1. PICK c \in Videos : c = deletion.video
    BY <1>2, <1>4 DEF Storage!DeleteObject
  <2>2. /\ deletion.at = "object" /\ UNCHANGED <<media, late, batch, attempts>>
        /\ \/ /\ object' = [object EXCEPT ![c] = "none"] /\ UNCHANGED troubled
              /\ deletion' = [deletion EXCEPT !.at = "row"]
           \/ /\ object' = [object EXCEPT ![c] = "none"] \/ UNCHANGED object
              /\ deletion' = Storage!Idle /\ troubled' = troubled \cup {c}
    BY <1>4, <2>1 DEF Storage!DeleteObject, Storage!DeleteAnswered, Storage!Trouble
  <2>3. object' \in [Videos -> {"none", "same", "damaged"}]
        /\ \A u \in Videos \ {c} : object'[u] = object[u]
    BY <1>0, <2>2
  <2>4. CASE /\ object' = [object EXCEPT ![c] = "none"] /\ UNCHANGED troubled
             /\ deletion' = [deletion EXCEPT !.at = "row"]
    <3>1. deletion' \in DeletionState /\ deletion'.at = "row" /\ deletion'.video = c
      BY <1>0, <2>1, <2>4 DEF DeletionState
    <3>2. object'[c] = "none"
      BY <1>0, <2>4
    <3> QED BY <1>0, <1>2, <2>1, <2>2, <2>3, <2>4, <3>1, <3>2, DeletionMoves
            DEF Exists, Storage!Exists
  <2>5. CASE deletion' = Storage!Idle /\ troubled' = troubled \cup {c}
    BY <1>0, <1>2, <1>3, <2>1, <2>2, <2>3, <2>5, DeletionMoves
  <2> QED BY <2>2, <2>4, <2>5
<1>5. CASE Storage!DeleteRow
  <2>1. PICK c \in Videos : c = deletion.video
    BY <1>2, <1>5 DEF Storage!DeleteRow
  <2>2. /\ deletion.at = "row" /\ deletion' = Storage!Idle
        /\ media' = [media EXCEPT ![c] = Storage!NoRow]
        /\ attempts' = [i \in DOMAIN attempts |->
                           IF attempts[i].video = c
                           THEN [attempts[i] EXCEPT !.video = None] ELSE attempts[i]]
        /\ UNCHANGED <<object, late, batch, troubled>>
    BY <1>5, <2>1 DEF Storage!DeleteRow
  <2>3. attempts' \in Seq(Attempt) /\ Len(attempts') = Len(attempts)
    <3>1. \A i \in DOMAIN attempts : attempts'[i] \in Attempt
      <4> SUFFICES ASSUME NEW i \in DOMAIN attempts PROVE attempts'[i] \in Attempt
        OBVIOUS
      <4>1. PICK a \in Attempt : a = attempts[i]
        BY <1>0
      <4>2. [a EXCEPT !.video = None] \in Attempt
        BY <4>1 DEF Attempt
      <4> QED BY <2>2, <4>1, <4>2
    <3>2. DOMAIN attempts' = 1 .. Len(attempts) /\ Len(attempts) \in Nat
      BY <1>0, <2>2
    <3>3. attempts' \in [1 .. Len(attempts) -> Attempt]
      BY <1>0, <2>2, <3>1, <3>2
    <3> QED BY <3>2, <3>3
  <2>4. /\ Storage!NoRow \in MediaRow /\ ~Storage!NoRow.key
    BY DEF Storage!NoRow, MediaRow
  <2>5. /\ media' \in [Videos -> MediaRow] /\ media'[c] = Storage!NoRow
        /\ \A u \in Videos \ {c} : media'[u] = media[u]
    BY <1>0, <2>2, <2>4
  <2> QED BY <1>0, <1>2, <1>3, <2>1, <2>2, <2>3, <2>4, <2>5, DeletionMoves DEF Stored
<1>6. CASE Storage!DeletionDies
  <2>1. PICK c \in Videos : c = deletion.video
    BY <1>2, <1>6 DEF Storage!DeletionDies
  <2>2. /\ deletion' = Storage!Idle /\ troubled' = troubled \cup {c}
        /\ UNCHANGED <<media, object, late, batch, attempts>>
    BY <1>6, <2>1 DEF Storage!DeletionDies, Storage!Trouble
  <2> QED BY <1>0, <1>3, <2>1, <2>2, DeletionMoves
<1> QED BY <1>1, <1>4, <1>5, <1>6 DEF Storage!DeletionStep

\* A step of the migration.
LEMMA MigrationMoves ==
    ASSUME MediaInv, focus = "migration",
           UNCHANGED <<focus, batch, attempts, request, deletion>>,
           media' \in [Videos -> MediaRow], object' \in [Videos -> {"none", "same", "damaged"}],
           migration' \in MigrationState, troubled' \subseteq Videos, troubled \subseteq troubled',
           late' \subseteq troubled', NEW c \in Videos \cup {None},
           migration.video \in {c, None}, migration'.video \in {c, None},
           migration'.at \in {"stamp", "verify"} <=> migration'.video \in Videos,
           \A u \in Videos \ {c} : media'[u] = media[u] /\ object'[u] = object[u],
           c \in Videos => (Exists(c) => media'[c].status # "absent"),
           c \in Videos \ troubled' =>
               /\ deletion.video # c
               /\ IF migration'.video = c
                  THEN /\ media'[c].status # "absent" /\ object'[c] # "none"
                       /\ migration'.at = "verify" => media'[c].key
                  ELSE media'[c].key <=> object'[c] # "none"
    PROVE  MediaInv'
<1>1. request.at = "idle" /\ request.video = None
  BY DEF MediaInv, PlaceInv
<1>2. MediaTypes'
  BY DEF MediaInv, CountInv, MediaTypes
<1>3. CountInv'
  BY <1>2 DEF MediaInv, CountInv
<1>4. PlaceInv'
  BY <1>1 DEF MediaInv, PlaceInv, Exists, Storage!Exists
<1>5. StageInv'
  <2> SUFFICES ASSUME NEW v \in Videos, v \notin troubled'
      PROVE  /\ Storage!InUpload(v)' => Exists(v)' /\ deletion'.video # v
             /\ request'.video # v
             /\ migration'.video = v =>
                   Stored(v)' /\ (migration'.at = "verify" => media'[v].key)
             /\ deletion'.video = v => (deletion'.at = "row" => ~Stored(v)')
             /\ ~Busy(v)' => Matched(v)'
    BY DEF StageInv
  <2>1. request'.video # v
    BY <1>1, ContentAssumption
  <2>2. CASE v # c
    <3>1. v \notin troubled /\ migration.video # v /\ migration'.video # v
      BY <2>2, ContentAssumption
    <3>2. media'[v] = media[v] /\ object'[v] = object[v]
      BY <2>2
    <3> QED BY <1>1, <2>1, <3>1, <3>2, ContentAssumption
            DEF MediaInv, StageInv, Busy, Storage!Busy, Storage!InUpload, Matched, Stored
  <2>3. CASE v = c
    BY <2>1, <2>3 DEF Busy, Storage!Busy, Storage!InUpload, Matched, Stored, Exists, Storage!Exists
  <2> QED BY <2>2, <2>3
<1> QED BY <1>3, <1>4, <1>5 DEF MediaInv

LEMMA MigrationIsSafe ==
    ASSUME MediaInv, focus = "migration", UNCHANGED <<focus, batch, request>>,
           Storage!MigrationStep
    PROVE  MediaInv'
<1>0. /\ media \in [Videos -> MediaRow] /\ object \in [Videos -> {"none", "same", "damaged"}]
      /\ migration \in MigrationState /\ late \subseteq troubled /\ troubled \subseteq Videos
      /\ CountInv
  BY DEF MediaInv, CountInv, MediaTypes, PlaceInv
<1>1. UNCHANGED <<attempts, deletion>>
  BY DEF Storage!MigrationStep, Storage!StartMigration, Storage!EndMigration,
         Storage!MigrateObject, Storage!MigrateStamp, Storage!MigrateVerify,
         Storage!MigrationDies
<1>2. /\ migration.at \in {"stamp", "verify"} => migration.video \in Videos
      /\ migration.at \notin {"stamp", "verify"} => migration.video = None
      /\ \A v \in Videos \ troubled :
            migration.video = v => /\ Exists(v) /\ deletion.video # v /\ Stored(v)
                                   /\ migration.at = "verify" => media[v].key
  BY <1>0 DEF MediaInv, PlaceInv, StageInv, Storage!InUpload, MigrationState
<1>3. ASSUME NEW v \in Videos, Storage!StopMigration(v)
      PROVE  /\ migration' \in MigrationState /\ migration'.at = "idle" /\ migration'.video = None
             /\ troubled' = troubled \cup {v}
  BY <1>3 DEF Storage!StopMigration, Storage!Trouble, MigrationState
<1>4. ASSUME migration' \in MigrationState, migration.video = None, migration'.video = None,
             migration'.at \in {"idle", "put"}, UNCHANGED <<media, object, late, troubled>>
      PROVE  MediaInv'
  BY <1>0, <1>1, <1>4, ContentAssumption, MigrationMoves DEF Exists, Storage!Exists
<1>5. CASE Storage!StartMigration
  <2>1. /\ migration' \in MigrationState /\ migration'.at = "put" /\ migration'.video = None
    BY <1>5 DEF Storage!StartMigration, MigrationState
  <2> QED BY <1>2, <1>4, <1>5, <2>1 DEF Storage!StartMigration
<1>6. CASE Storage!EndMigration
  <2>1. /\ migration' \in MigrationState /\ migration'.at = "idle"
        /\ migration'.video = migration.video
    BY <1>0, <1>6 DEF Storage!EndMigration, MigrationState
  <2> QED BY <1>2, <1>4, <1>6, <2>1 DEF Storage!EndMigration
<1>7. ASSUME NEW v \in Videos, Storage!MigrateObject(v) PROVE MediaInv'
  <2>1. migration.at = "put" /\ migration.video = None /\ UNCHANGED media
    BY <1>2, <1>7 DEF Storage!MigrateObject
  <2>2. CASE /\ object' \in {[object EXCEPT ![v] = "same"], [object EXCEPT ![v] = "damaged"]}
             /\ Exists(v) /\ UNCHANGED late
             /\ migration' = [migration EXCEPT !.at = "stamp", !.video = v,
                                               !.left = migration.left \ {v}]
             /\ IF deletion.video = v THEN Storage!Trouble(v) ELSE UNCHANGED troubled
    <3>1. /\ object' \in [Videos -> {"none", "same", "damaged"}] /\ object'[v] # "none"
          /\ \A u \in Videos \ {v} : object'[u] = object[u]
      BY <1>0, <2>2
    <3>2. migration' \in MigrationState /\ migration'.at = "stamp" /\ migration'.video = v
      <4>1. migration.left \ {v} \in SUBSET Videos
        BY <1>0 DEF MigrationState
      <4> QED BY <1>0, <2>2, <4>1 DEF MigrationState
    <3>3. /\ troubled' \subseteq Videos /\ troubled \subseteq troubled'
          /\ v \notin troubled' => deletion.video # v
      BY <1>0, <2>2 DEF Storage!Trouble
    <3> QED BY <1>0, <1>1, <2>1, <2>2, <3>1, <3>2, <3>3, MigrationMoves
            DEF Exists, Storage!Exists
  <2>3. CASE Storage!PutUnanswered(v) /\ Storage!StopMigration(v)
    <3>1. /\ migration' \in MigrationState /\ migration'.at = "idle" /\ migration'.video = None
          /\ troubled' = troubled \cup {v}
      BY <1>3, <2>3
    <3>2. /\ object' \in [Videos -> {"none", "same", "damaged"}] /\ late' \subseteq late \cup {v}
          /\ \A u \in Videos \ {v} : object'[u] = object[u]
      BY <1>0, <2>3, ObjectPut
    <3> QED BY <1>0, <1>1, <2>1, <3>1, <3>2, ContentAssumption, MigrationMoves
            DEF Exists, Storage!Exists
  <2> QED BY <1>7, <2>2, <2>3 DEF Storage!MigrateObject, Exists
<1>8. CASE Storage!MigrateStamp
  <2>1. PICK c \in Videos : c = migration.video
    BY <1>2, <1>8 DEF Storage!MigrateStamp
  <2>2. PICK new \in MediaRow : /\ new = [media[c] EXCEPT !.key = TRUE]
                                /\ new.key /\ new.status = media[c].status
    BY <1>0, RowsRewritten
  <2>3. /\ Storage!UpdateVideo(c, new) /\ UNCHANGED <<object, late, troubled>>
        /\ migration.at = "stamp" /\ migration' = [migration EXCEPT !.at = "verify"]
    BY <1>8, <2>1, <2>2 DEF Storage!MigrateStamp
  <2>4. migration' \in MigrationState /\ migration'.at = "verify" /\ migration'.video = c
    BY <1>0, <2>1, <2>3 DEF MigrationState
  <2>5. /\ media' \in [Videos -> MediaRow] /\ \A u \in Videos \ {c} : media'[u] = media[u]
        /\ Exists(c) => media'[c] = new
    BY <1>0, <2>3, VideoWritten
  <2>6. c \notin troubled => Exists(c) /\ deletion.video # c /\ Stored(c)
    BY <1>2, <2>1
  <2>7. Exists(c) => media'[c].status # "absent" /\ media'[c].key
    BY <2>2, <2>5 DEF Exists, Storage!Exists
  <2>8. c \notin troubled => deletion.video # c /\ object'[c] # "none"
    BY <2>3, <2>6 DEF Stored
  <2>9. object' \in [Videos -> {"none", "same", "damaged"}]
    BY <1>0, <2>3
  <2> QED
    BY <1>0, <1>1, <2>1, <2>3, <2>4, <2>5, <2>6, <2>7, <2>8, <2>9, ContentAssumption,
       MigrationMoves
<1>9. CASE Storage!MigrateVerify
  <2>1. PICK c \in Videos : c = migration.video
    BY <1>2, <1>9 DEF Storage!MigrateVerify
  <2>2. /\ migration.at = "verify" /\ UNCHANGED <<media, object, late, troubled>>
        /\ migration' = [migration EXCEPT !.at = "put", !.video = None,
                            !.mismatch = migration.mismatch \/ object[c] # "same"]
    BY <1>9, <2>1 DEF Storage!MigrateVerify
  <2>3. migration' \in MigrationState /\ migration'.at = "put" /\ migration'.video = None
    <3>1. (migration.mismatch \/ object[c] # "same") \in BOOLEAN
      OBVIOUS
    <3> QED BY <1>0, <2>2, <3>1 DEF MigrationState
  <2>4. c \notin troubled => Exists(c) /\ deletion.video # c /\ Stored(c) /\ media[c].key
    BY <1>2, <2>1, <2>2
  <2> QED BY <1>0, <1>1, <2>1, <2>2, <2>3, <2>4, ContentAssumption, MigrationMoves
          DEF Stored, Exists, Storage!Exists
<1>10. CASE Storage!MigrationDies
  <2>1. PICK c \in Videos : c = migration.video
    BY <1>2, <1>10 DEF Storage!MigrationDies
  <2>2. /\ migration' \in MigrationState /\ migration'.at = "idle" /\ migration'.video = None
        /\ troubled' = troubled \cup {c} /\ UNCHANGED <<media, object, late>>
    BY <1>3, <1>10, <2>1 DEF Storage!MigrationDies
  <2> QED BY <1>0, <1>1, <2>1, <2>2, ContentAssumption, MigrationMoves
          DEF Exists, Storage!Exists
<1> QED BY <1>5, <1>6, <1>7, <1>8, <1>9, <1>10 DEF Storage!MigrationStep

\* A put that the storage carries out long after the request gave up on it.
LEMMA LateIsSafe ==
    ASSUME MediaInv, UNCHANGED focus, NEW v \in Videos, Storage!StoreLate(v)
    PROVE  MediaInv'
<1>1. /\ v \in troubled /\ late' = late \ {v} /\ object' = [object EXCEPT ![v] = "same"]
      /\ UNCHANGED <<media, batch, attempts, request, deletion, migration, troubled>>
  BY DEF Storage!StoreLate, MediaInv, PlaceInv
<1>2. /\ object' \in [Videos -> {"none", "same", "damaged"}]
      /\ \A u \in Videos \ {v} : object'[u] = object[u]
  BY <1>1 DEF MediaInv, CountInv, MediaTypes
<1>3. CountInv'
  BY <1>1, <1>2 DEF MediaInv, CountInv, MediaTypes
<1>4. PlaceInv'
  BY <1>1 DEF MediaInv, PlaceInv, Exists, Storage!Exists
<1>5. StageInv'
  <2> SUFFICES ASSUME NEW u \in Videos, u \notin troubled'
      PROVE  /\ Storage!InUpload(u)' => Exists(u)' /\ deletion'.video # u
             /\ request'.video = u => RequestStages(u)'
             /\ migration'.video = u =>
                   Stored(u)' /\ (migration'.at = "verify" => media'[u].key)
             /\ deletion'.video = u => (deletion'.at = "row" => ~Stored(u)')
             /\ ~Busy(u)' => Matched(u)'
    BY DEF StageInv, RequestStages
  <2>1. u \notin troubled /\ object'[u] = object[u]
    BY <1>1, <1>2
  <2> QED BY <1>1, <2>1
          DEF MediaInv, StageInv, RequestStages, Busy, Storage!Busy, Storage!InUpload,
              Matched, Stored, Exists, Storage!Exists
<1> QED BY <1>3, <1>4, <1>5 DEF MediaInv

\* An upload does not run beside a migration, nor a migration beside an upload.
LEMMA MediaStep ==
    MediaInv /\ [MCNext]_<<focus, intakeVars, mediaVars, vars>> => MediaInv'
<1> SUFFICES ASSUME MediaInv, [MCNext]_<<focus, intakeVars, mediaVars, vars>>
             PROVE  MediaInv'
  OBVIOUS
<1>1. CASE UNCHANGED <<focus, mediaVars>>
  <2>1. CountInv'
    BY <1>1 DEF MediaInv, CountInv, MediaTypes, mediaVars
  <2>2. PlaceInv'
    BY <1>1 DEF MediaInv, PlaceInv, mediaVars, Exists, Storage!Exists
  <2>3. StageInv'
    BY <1>1 DEF MediaInv, StageInv, mediaVars, Busy, Storage!Busy, Storage!InUpload,
                Matched, Stored, Exists, Storage!Exists
  <2> QED BY <2>1, <2>2, <2>3 DEF MediaInv
<1>2. CASE focus = "upload" /\ UNCHANGED <<focus, migration>> /\ Storage!Next
  <2>1. CASE Storage!UploadStep
    BY <1>2, <2>1, UploadCounts, UploadPlaces DEF MediaInv
  <2>2. CASE Storage!DeletionStep
    <3>1. UNCHANGED request
      BY <2>2 DEF Storage!DeletionStep, Storage!StartDeletion, Storage!DeleteObject,
                  Storage!DeleteRow, Storage!DeletionDies
    <3> QED BY <1>2, <2>2, <3>1, DeletionIsSafe
  <2>3. ~Storage!MigrationStep
    <3>1. migration.at = "idle"
      BY <1>2 DEF MediaInv, PlaceInv
    <3>2. ~Storage!StartMigration
      BY <1>2, <3>1 DEF Storage!StartMigration
    <3> QED BY <3>1, <3>2
            DEF Storage!MigrationStep, Storage!EndMigration, Storage!MigrateObject,
                Storage!MigrateStamp, Storage!MigrateVerify, Storage!MigrationDies
  <2> QED BY <1>2, <2>1, <2>2, <2>3, LateIsSafe DEF Storage!Next
<1>3. CASE focus = "migration" /\ UNCHANGED <<focus, batch, request>> /\ Storage!Next
  <2>1. CASE Storage!MigrationStep
    BY <1>3, <2>1, MigrationIsSafe
  <2>2. CASE Storage!DeletionStep
    <3>1. UNCHANGED migration
      BY <2>2 DEF Storage!DeletionStep, Storage!StartDeletion, Storage!DeleteObject,
                  Storage!DeleteRow, Storage!DeletionDies
    <3> QED BY <1>3, <2>2, <3>1, DeletionIsSafe
  <2>3. ~Storage!UploadStep
    <3>1. request.at = "idle"
      BY <1>3 DEF MediaInv, PlaceInv
    <3>2. ~Storage!StartBatch
      <4>1. Storage!StartBatch => request'.at = "next"
        BY RequestGoes DEF Storage!StartBatch, RequestAt, MediaInv
      <4> QED BY <1>3, <3>1, <4>1
    <3> QED BY <3>1, <3>2
            DEF Storage!UploadStep, Storage!StartAttempt, Storage!RejectType,
                Storage!SaveToTemp, Storage!InsertVideo, Storage!PutObject,
                Storage!MarkFailed, Storage!StampKey, Storage!RereadVideo,
                Storage!FinishFile, Storage!CompleteBatch, Storage!AbortRequest
  <2> QED BY <1>3, <2>1, <2>2, <2>3, LateIsSafe DEF Storage!Next
<1> QED BY <1>1, <1>2, <1>3 DEF MCNext

LEMMA MediaHolds == MCSpec => []MediaInv
<1>1. MCInit => MediaInv
  <2> SUFFICES ASSUME MCInit PROVE MediaInv
    OBVIOUS
  <2>1. CountInv /\ StageInv
    BY MediaInit DEF MCInit
  <2>2. PlaceInv
    BY ContentAssumption DEF MCInit, Storage!Init, Storage!Idle, PlaceInv
  <2> QED BY <2>1, <2>2 DEF MediaInv
<1> QED BY <1>1, MediaStep, PTL DEF MCSpec

-----------------------------------------------------------------------------
\* The types of Captions, and what was sent.
LEMMA CaptionTypes == ProvenanceInv /\ SentInv /\ TypeOK /\ [Next]_vars => TypeOK'
<1> SUFFICES ASSUME ProvenanceInv, SentInv, TypeOK, [Next]_vars,
                    ProvenanceInv', SentInv'
             PROVE  TypeOK'
  BY ProvenanceStep, SentStep
<1>1. sent' = sent \/ sent' = worker.caption
  BY DEF Next, RequestStep, PostStep, ReadVideo, CheckLock, WriteCaption, RequestDies,
         Claim, ReadCaption, Submit, NotSubmitted, Settle, Retry, vars
<1>2. sent' \in Captions \cup {"nothing"}
  BY <1>1 DEF TypeOK, SentInv
<1> QED BY <1>2 DEF TypeOK, SentInv, ProvenanceInv, RowTypes, RequestState

\* media_storage.py, videos.py: where no call failed and nothing was cut, a row
\* names an object exactly when it is there; and all types are kept.
THEOREM MediaIsMatched == MCSpec => []MediaMatchesRows
<1>1. MCInit => ProvenanceInv /\ SentInv /\ TypeOK
  <2>1. MCInit => ProvenanceInv /\ SentInv
    BY CaptionInit DEF MCInit
  <2>2. MCInit => sent = "nothing"
    BY DEF MCInit, Init
  <2> QED BY <2>1, <2>2 DEF TypeOK, SentInv, ProvenanceInv, RowTypes, RequestState
<1>2. ProvenanceInv /\ SentInv /\ TypeOK /\ [MCNext]_<<focus, intakeVars, mediaVars, vars>>
         => (ProvenanceInv /\ SentInv /\ TypeOK)'
  BY PartsStep, ProvenanceStep, SentStep, CaptionTypes
<1>3. IntakeInv /\ OrderInv => Intake!TypeOK
  <2> SUFFICES ASSUME IntakeInv, OrderInv PROVE Intake!TypeOK
    OBVIOUS
  <2>1. /\ place \in [Files -> Names \cup {"processed", "failed"}]
        /\ seen \in Seq(Files) /\ posts \subseteq Files /\ cut \subseteq Files
        /\ slot \in [Slots -> {"absent", "open"} \cup Files]
    BY DEF IntakeInv, IntakeTypes, Places
  <2>2. row \in [Files -> [status : Intake!Statuses, inspected : BOOLEAN,
                          transcript : {None, "speech", "silence"},
                          caption : CaptionModes \cup {"none", None},
                          pillar : Intake!Pillars \cup {None}, slot : Slots \cup {None},
                          path : Names \cup {None, "processed"},
                          original : Names \cup {None}]]
    BY DEF IntakeInv, IntakeTypes, RowState, OrderInv
  <2>3. run \in RunState /\ (run.at \notin {"idle", "next"} => run.todo # <<>>)
    BY DEF IntakeInv, IntakeTypes
  <2> QED BY <2>1, <2>2, <2>3 DEF RunState, Intake!TypeOK
<1>4. MediaInv => Storage!TypeOK /\ Storage!MediaMatchesRows
  <2>1. MediaInv => Storage!TypeOK
    BY DEF MediaInv, CountInv, MediaTypes, Storage!TypeOK, MediaRow, Attempt, Batch,
           UploadRequest, RequestAt, MigrationState
  <2>2. MediaInv => Storage!MediaMatchesRows
    BY DEF MediaInv, StageInv, Storage!MediaMatchesRows, Busy, Matched, Stored
  <2> QED BY <2>1, <2>2
<1> QED BY <1>1, <1>2, <1>3, <1>4, IntakePart, IntakeHolds, MediaHolds, PTL DEF MCSpec, MediaMatchesRows
=============================================================================
