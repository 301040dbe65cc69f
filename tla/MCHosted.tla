------------------------------ MODULE MCHosted ------------------------------
(***************************************************************************)
(* Times and dates, for one run: the cycles of the hosted workers, the     *)
(* status an owner is shown, the monthly cadence and the calendar tools.   *)
(* A behaviour exercises one of them, chosen in the initial state.         *)
(***************************************************************************)
EXTENDS CalendarTools

CONSTANTS Users, Posts, OwnerOf, Workers, Offset, ConfigZone, MaxOffset, TakenBack, Horizon,
          Backoff, MaxRetries, MaxTime, p1, w2, Platforms, OwnerZone, Schedule, Grace, StaleAfter,
          NumPillars, WeightSum, Lengths, Starts, Prompts

\* A zone says for every time what its clock shows, at most MaxOffset ahead; a time
\* is shown again TakenBack later at the latest.  What is absent is no time, and
\* asks the owner nothing.
ASSUME HostedAssumption ==
    /\ OwnerOf \in [Posts -> Users]
    /\ ConfigZone \in DOMAIN Offset /\ OwnerZone \in DOMAIN Offset
    /\ Schedule \subseteq Int /\ Schedule # {} /\ Grace \in Nat /\ StaleAfter \in Nat
    /\ MaxTime \in Nat /\ MaxRetries \in Nat /\ Backoff \in Nat /\ TakenBack \in Nat
    /\ MaxOffset \in Int
    /\ \A zone \in DOMAIN Offset : \A t \in 0..MaxTime :
          /\ Offset[zone][t] \in Int /\ Offset[zone][t] <= MaxOffset
          /\ \A u \in 0..MaxTime : t + TakenBack <= u => t + Offset[zone][t] <= u + Offset[zone][u]
    /\ None \notin Int /\ None \notin {"RECONNECT_ACCOUNT", "EDIT_CAPTION"}

\* The pillars share whole parts of WeightSum, and months are at most 31 days long.
ASSUME CadenceAssumption ==
    /\ NumPillars \in Nat /\ WeightSum \in Nat \ {0} /\ Prompts \in Nat \ {0}
    /\ Lengths \subseteq 1..31 /\ Starts \subseteq 1..31

VARIABLES focus, now, post, cycle, slot, posts, clock, perWeek, dates, weight, share, credit, schedule

statusVars == <<slot, posts, clock>>
cadenceVars == <<perWeek, dates, weight, share, credit, schedule>>
timeVars == <<now, post, cycle>>

Status == INSTANCE PublishStatus WITH ConfigZone <- OwnerZone
Month == INSTANCE Cadence
Hosted == INSTANCE HostedSchedule

MCOwnerOf == [p \in Posts |-> IF p = p1 THEN 1 ELSE 2]

\* Half hours: the clock goes forward, or back, an hour at time 2; the third
\* zone is the one furthest ahead.
MCOffset ==
    [zone \in {"spring", "autumn", "east"} |-> [time \in 0..MaxTime |->
        CASE zone = "spring" -> IF time < 2 THEN 0 ELSE 2
          [] zone = "autumn" -> IF time < 2 THEN 2 ELSE 0
          [] OTHER -> MaxOffset]]

StatusIdle ==
    /\ slot = [status |-> "open", due |-> CHOOSE time \in Schedule : TRUE, zone |-> None]
    /\ posts = [platform \in {} |-> None] /\ clock = 0
CadenceIdle ==
    /\ perWeek = 1 /\ dates = {} /\ weight = [i \in 1..NumPillars |-> IF i = 1 THEN WeightSum ELSE 0]
    /\ share = [i \in 1..NumPillars |-> 0] /\ credit = share /\ schedule = <<>>

\* One worker and two posts, or two workers and one post.
MCInit ==
    /\ focus \in {"one_worker", "two_workers", "status", "cadence", "calendar"}
    /\ Init /\ Hosted!Init
    /\ IF focus = "status" THEN Status!Init ELSE StatusIdle
    /\ IF focus = "cadence" THEN Month!Init ELSE CadenceIdle

MCNext ==
    /\ UNCHANGED focus
    /\ \/ /\ focus \in {"one_worker", "two_workers"} /\ Hosted!Next
          /\ UNCHANGED <<statusVars, cadenceVars, vars>>
          /\ IF focus = "one_worker" THEN cycle'[w2] = cycle[w2] ELSE post'[p1] = post[p1]
       \/ focus = "status" /\ Status!Next /\ UNCHANGED <<timeVars, cadenceVars, vars>>
       \/ focus = "cadence" /\ Month!Distribute /\ UNCHANGED <<timeVars, statusVars, vars>>
       \/ focus = "calendar" /\ Next /\ UNCHANGED <<timeVars, statusVars, cadenceVars>>

MCSpec == MCInit /\ [][MCNext]_<<focus, timeVars, statusVars, cadenceVars, vars>>

\* hosted_due_selection.py: no post is claimed before its slot's clock says so
\* (and the variables of the other specifications keep their types).
NothingEarly ==
    /\ Hosted!NothingEarly
    /\ TypeOK /\ Hosted!TypeOK /\ Status!TypeOK
\* hosted_worker.py: a cycle leaves no user's due post behind.
CycleServesEveryUser == Hosted!CycleServesEveryUser
\* publish_status.py, failure_taxonomy.py, retry_classification.py: no post that
\* needs the owner hides behind another, and no retry asks the owner anything.
StatusIsHonest == Status!NothingIsHidden /\ Status!RetriesAskNobody
\* publish_status.py: a clock that is put back takes back no more than that a post
\* is late.
OnlyLatenessIsTakenBack == Status!OnlyLatenessIsTakenBack
\* cadence.py: the posting days are spread evenly over the week, every pillar
\* gets its share, the shares fill the month, and no pillar comes in a clump.
MonthIsShared == Month!TypeOK /\ Month!WeekIsEven /\ Month!SharesAreExact /\ Month!NoClumps
\* cadence.py: no pillar is left out for long.
NoPillarWaits == Month!NoDrought
=============================================================================
