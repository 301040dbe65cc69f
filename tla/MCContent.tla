----------------------------- MODULE MCContent -----------------------------
(***************************************************************************)
(* How a video comes in, for one run: the local ingestion, the upload to   *)
(* the hosted product and the caption its owner gives it.  They are parts  *)
(* of different installations or touch different columns, so a behaviour   *)
(* exercises one of them, chosen in the initial state; and the storage     *)
(* either takes uploads or is being filled from a local installation.      *)
(***************************************************************************)
EXTENDS Captions, TLC

CONSTANTS Videos, MaxFiles, Files, Names, Slots, PillarOf, Scores, MinSimilarity, MinMargin, CaptionModes

\* What is absent is neither a slot nor a video, nor the state of a batch, and no
\* file is a slot's state.
ASSUME ContentAssumption ==
    /\ None \notin Slots /\ None \notin Videos /\ None \notin {"STARTED", "COMPLETED"}
    /\ MaxFiles \in Nat
    /\ Names \cap {None, "processed", "failed"} = {}
    /\ "absent" \notin Files /\ "open" \notin Files

VARIABLES focus, place, row, seen, slot, posts, run, cut,
          media, object, late, batch, attempts, request, deletion, migration, troubled

mediaVars == <<media, object, late, batch, attempts, request, deletion, migration, troubled>>
intakeVars == <<place, row, seen, slot, posts, run, cut>>

Storage == INSTANCE MediaStorage WITH row <- media
Intake == INSTANCE Ingestion

Symmetry == Permutations(Files) \cup Permutations(Names)

MCPillarOf == [s \in Slots |-> IF s = 2 THEN "story" ELSE "tips"]

\* The parts that are not exercised start in one state.
MCInit ==
    /\ focus \in {"ingestion", "renames", "upload", "migration", "captions"}
    /\ Init /\ Storage!Init /\ Intake!Init
    /\ focus \notin {"ingestion", "renames"} => \A s \in Slots : slot[s] = "absent"
    /\ focus # "migration" => \A v \in Videos : media[v].status = "absent"
    /\ focus # "captions" => video.source = None

\* Files are renamed in behaviours of their own, in which the order of the files
\* is all that matters: in fifo mode, with no death after the claim of a slot.
MCNext ==
    /\ UNCHANGED focus
    /\ \/ /\ focus = "ingestion" /\ UNCHANGED <<mediaVars, vars>>
          /\ Intake!Command \/ \E s \in Slots : Intake!AddSlot(s)
       \/ /\ focus = "renames" /\ Intake!Next /\ UNCHANGED <<mediaVars, vars>>
          /\ run'.mode = "fifo" /\ ~run'.dry /\ cut' = {}
       \/ focus = "upload" /\ UNCHANGED <<migration, intakeVars, vars>> /\ Storage!Next
       \/ focus = "migration" /\ UNCHANGED <<batch, request, intakeVars, vars>> /\ Storage!Next
       \/ focus = "captions" /\ Next /\ UNCHANGED <<intakeVars, mediaVars>>

MCSpec == MCInit /\ [][MCNext]_<<focus, intakeVars, mediaVars, vars>>

\* process_content: a video that is reported ASSIGNED has its slot, post and file.
AssignedIsComplete == Intake!AssignedIsComplete
\* process_content: a slot or a path goes astray only where a run died.
StrayNeedsDeath == Intake!StrayNeedsDeath
\* discover_videos: no video that stays at its path is overtaken by a later one.
NotOvertaken == Intake!NotOvertaken
\* media_storage.py: a row names an object exactly when it is there (and the
\* variables of all three specifications keep their types).
MediaMatchesRows ==
    /\ Storage!MediaMatchesRows
    /\ TypeOK /\ Storage!TypeOK /\ Intake!TypeOK
=============================================================================
