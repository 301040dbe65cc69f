--------------------------- MODULE HostedSchedule ---------------------------
(***************************************************************************)
(* Time and the cycles of the hosted workers: the slots a cadence makes    *)
(* (calendar/hosted_cadence.py), the posts that are due                    *)
(* (scheduling/hosted_due_selection.py, due_post_selector.py), and         *)
(* run_hosted_cycle over the users (scheduling/hosted_worker.py,           *)
(* worker.py).  Time is a count of half hours; what a clock on the wall    *)
(* shows depends on the zone and on the day its summer time starts or      *)
(* ends.  scheduled_at is the time on the wall of the slot's zone,         *)
(* next_retry_at on that of the configured one.                            *)
(***************************************************************************)
EXTENDS Integers

CONSTANTS
    Users,       \* numbered: a cycle takes them in that order
    Posts,
    OwnerOf,     \* the user of a post
    Workers,
    Offset,      \* [zone -> [time -> UTC offset]], for 0..MaxTime
    ConfigZone,  \* TIMEZONE
    MaxOffset,   \* _MAX_UTC_OFFSET
    TakenBack,   \* the most that a clock goes back when summer time ends
    Horizon,     \* how far ahead slots are made
    Backoff,     \* RETRY_BACKOFF_MINUTES
    MaxRetries,
    MaxTime,
    None

VARIABLES
    now,
    post,   \* platform_posts, with the timezone of the slot
    cycle   \* the cycle of each worker

vars == <<now, post, cycle>>

Zones == DOMAIN Offset
Wall(zone, time) == time + Offset[zone][time]
Walls(zone) == {Wall(zone, time) : time \in 0..MaxTime}
ZoneOf(p) == IF post[p].zone = None THEN ConfigZone ELSE post[p].zone
\* user and post: those that are worked on; users and due: those still to come.
Asleep == [at |-> "idle", now |-> 0, users |-> {}, user |-> None, due |-> {}, post |-> None,
           alone |-> TRUE, raised |-> {}]

TypeOK ==
    /\ now \in 0..MaxTime
    /\ \A p \in Posts :
          /\ post[p].status \in {"absent", "PENDING", "PUBLISHING", "PUBLISHED", "FAILED"}
          /\ post[p].zone \in Zones \cup {None} /\ post[p].scheduled \in Int
          /\ post[p].retry \in Int \cup {None} /\ post[p].retries \in 0..MaxRetries
    /\ \A w \in Workers :
          /\ cycle[w].at \in {"idle", "user", "recover", "reselect", "posts", "execute"}
          /\ cycle[w].now \in 0..now /\ cycle[w].alone \in BOOLEAN
          /\ cycle[w].users \subseteq Users /\ cycle[w].user \in Users \cup {None}
          /\ cycle[w].due \subseteq Posts /\ cycle[w].post \in Posts \cup {None}
          /\ cycle[w].raised \subseteq Users

Init ==
    /\ now = 0
    /\ post = [p \in Posts |-> [status |-> "absent", zone |-> None, scheduled |-> 0,
                                retry |-> None, retries |-> 0]]
    /\ cycle = [w \in Workers |-> Asleep]

Tick == now < MaxTime /\ now' = now + 1 /\ UNCHANGED <<post, cycle>>

-----------------------------------------------------------------------------
(* Slots.                                                                  *)

\* generate_slot_datetimes: a time on the wall that will be shown, and that is
\* past what the clock shows now.
Generates(zone, wall) == wall \in Walls(zone) /\ wall > Wall(zone, now)

\* A slot is made and a video assigned to it; a slot without a timezone is
\* read as one of the configured zone.
Plan(p) ==
    /\ post[p].status = "absent"
    /\ \E zone \in Zones \cup {None} :
          LET z == IF zone = None THEN ConfigZone ELSE zone
          IN  \E wall \in Wall(z, now)..(Wall(z, now) + Horizon) :
                 /\ Generates(z, wall)
                 /\ post' = [post EXCEPT ![p].status = "PENDING", ![p].zone = zone,
                                         ![p].scheduled = wall]
    /\ UNCHANGED <<now, cycle>>

-----------------------------------------------------------------------------
(* Due posts.                                                              *)

\* get_due_platform_posts, asked with the latest time on any wall.
Candidates(user, time) ==
    {p \in Posts : /\ post[p].status = "PENDING" /\ OwnerOf[p] = user
                   /\ post[p].scheduled <= time + MaxOffset
                   /\ post[p].retry = None \/ post[p].retry <= time + MaxOffset}

\* The selection of the local worker, which knows one zone.
FaultDuePosts(user, time) ==
    {p \in Candidates(user, time) :
        /\ post[p].scheduled <= Wall(ConfigZone, time)
        /\ post[p].retry = None \/ post[p].retry <= Wall(ConfigZone, time)}

\* get_hosted_due_posts.
DuePosts(user, time) ==
    {p \in Candidates(user, time) :
        /\ post[p].scheduled <= Wall(ZoneOf(p), time)
        /\ post[p].retry = None \/ post[p].retry <= Wall(ConfigZone, time)}

\* ORDER BY scheduled_at; of posts with one time (the code goes by id) any.
Earliest(due) == {p \in due : \A q \in due : post[p].scheduled <= post[q].scheduled}

-----------------------------------------------------------------------------
(* run_hosted_cycle.                                                       *)

Goto(w, stage) == cycle' = [cycle EXCEPT ![w].at = stage]
NextUser(w) == [cycle[w] EXCEPT !.at = "user", !.user = None, !.due = {}]
Busy(w) == cycle[w].at # "idle"

\* list_hosted_user_ids_with_platform_work.
StartCycle(w) ==
    /\ ~Busy(w)
    /\ LET users == {OwnerOf[p] :
                        p \in {q \in Posts : post[q].status \in {"PENDING", "PUBLISHING"}}}
           others == \E v \in Workers \ {w} : Busy(v)
       IN  cycle' = [v \in Workers |->
              IF v = w
              THEN [Asleep EXCEPT !.at = "user", !.now = now, !.users = users, !.alone = ~others]
              ELSE [cycle[v] EXCEPT !.alone = ~Busy(v)]]
    /\ UNCHANGED <<now, post>>

\* ORDER BY user_id.
SelectDue(w) ==
    /\ \/ /\ cycle[w].at = "user"
          /\ \E user \in cycle[w].users :
                /\ \A other \in cycle[w].users : user <= other
                /\ cycle' = [cycle EXCEPT ![w].at = "recover", ![w].user = user,
                                          ![w].users = @ \ {user},
                                          ![w].due = DuePosts(user, cycle[w].now)]
       \/ /\ cycle[w].at = "reselect"
          /\ cycle' = [cycle EXCEPT ![w].at = "posts",
                                    ![w].due = DuePosts(cycle[w].user, cycle[w].now)]
    /\ UNCHANGED <<now, post>>

\* One failing user ends the cycle.
FaultUserRaises(w) ==
    /\ cycle[w].at \in {"recover", "posts"}
    /\ cycle' = [cycle EXCEPT ![w] =
                    [NextUser(w) EXCEPT !.users = {}, !.raised = @ \cup {cycle[w].user}]]
    /\ UNCHANGED <<now, post>>

\* The publisher cannot be built, or anything else raises: the next user.
UserRaises(w) ==
    /\ cycle[w].at \in {"recover", "posts"}
    /\ cycle' = [cycle EXCEPT ![w] = [NextUser(w) EXCEPT !.raised = @ \cup {cycle[w].user}]]
    /\ UNCHANGED <<now, post>>

\* Recovery puts claims that nobody carries out any more back to PENDING, and
\* then the due posts are selected again.
Executing == {cycle[w].post : w \in {v \in Workers : cycle[v].at = "execute"}}
Recover(w) ==
    /\ cycle[w].at = "recover"
    /\ LET stale == {p \in Posts : post[p].status = "PUBLISHING" /\ OwnerOf[p] = cycle[w].user
                                   /\ p \notin Executing}
       IN  /\ post' = [p \in Posts |-> IF p \in stale THEN [post[p] EXCEPT !.status = "PENDING"]
                                       ELSE post[p]]
           /\ Goto(w, IF stale = {} THEN "posts" ELSE "reselect")
    /\ UNCHANGED now

\* run_due_posts_once: the claim asks for a PENDING row, no more.
ClaimPost(w) ==
    /\ cycle[w].at = "posts"
    /\ \E p \in Earliest(cycle[w].due) :
          \/ /\ post[p].status = "PENDING"
             /\ post' = [post EXCEPT ![p].status = "PUBLISHING"]
             /\ cycle' = [cycle EXCEPT ![w].at = "execute", ![w].post = p, ![w].due = @ \ {p}]
          \/ /\ post[p].status # "PENDING"
             /\ cycle' = [cycle EXCEPT ![w].due = @ \ {p}]
             /\ UNCHANGED post
    /\ UNCHANGED now

ExecutePost(w) ==
    /\ cycle[w].at = "execute"
    /\ LET p == cycle[w].post
       IN  \/ \E status \in {"PUBLISHED", "FAILED"} : post' = [post EXCEPT ![p].status = status]
           \/ /\ post[p].retries < MaxRetries
              /\ post' = [post EXCEPT ![p].status = "PENDING", ![p].retries = @ + 1,
                                      ![p].retry = Wall(ConfigZone, now) + Backoff]
    /\ cycle' = [cycle EXCEPT ![w].at = "posts", ![w].post = None]
    /\ UNCHANGED now

UserDone(w) ==
    /\ cycle[w].at = "posts" /\ cycle[w].due = {}
    /\ cycle' = [cycle EXCEPT ![w] = NextUser(w)]
    /\ UNCHANGED <<now, post>>

EndCycle(w) ==
    /\ cycle[w].at = "user" /\ cycle[w].users = {}
    /\ cycle' = [cycle EXCEPT ![w] = Asleep]
    /\ UNCHANGED <<now, post>>

\* The worker is killed; what it has claimed stays PUBLISHING.
Killed(w) ==
    /\ Busy(w)
    /\ cycle' = [cycle EXCEPT ![w] = Asleep]
    /\ UNCHANGED <<now, post>>

-----------------------------------------------------------------------------
WorkerStep(w) ==
    \/ StartCycle(w) \/ SelectDue(w) \/ UserRaises(w) \/ Recover(w) \/ ClaimPost(w)
    \/ ExecutePost(w) \/ UserDone(w) \/ EndCycle(w) \/ Killed(w)

Next == Tick \/ (\E p \in Posts : Plan(p)) \/ (\E w \in Workers : WorkerStep(w))

Spec == Init /\ [][Next]_vars

-----------------------------------------------------------------------------
Reached(p, time) == \E t \in 0..time : Wall(ZoneOf(p), t) >= post[p].scheduled

\* A post is not claimed before the clock of its own slot has shown its time.
NothingEarly == \A p \in Posts : post[p].status \notin {"absent", "PENDING"} => Reached(p, now)

\* A worker that is alone and ends its cycle has left nothing undone: each post
\* whose time had come TakenBack before (an hour that summer time takes back hides
\* a post again) was attempted, unless its user's pass raised.
\* And a retry waits until the clock has shown the time it was put off to.
CycleServesEveryUser ==
    [][\A w \in Workers : cycle[w].alone =>
          /\ EndCycle(w) =>
                \A p \in Posts : post[p].status = "PENDING" /\ post[p].retry = None
                                 /\ cycle[w].now >= TakenBack
                                 /\ OwnerOf[p] \notin cycle[w].raised
                                 => ~Reached(p, cycle[w].now - TakenBack)
          /\ \A p \in Posts : ClaimPost(w) /\ post[p].status # post'[p].status
                                 => \/ post[p].retry = None
                                    \/ \E t \in 0..now : post[p].retry <= Wall(ConfigZone, t)]_vars
=============================================================================
