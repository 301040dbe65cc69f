---------------------------- MODULE HostedProofs ----------------------------
(***************************************************************************)
(* Proofs about HostedSchedule, PublishStatus, CalendarTools and Cadence   *)
(* as MCHosted puts them side by side, for any number of users, posts,     *)
(* workers, zones, platforms, posting times, calendars and pillars.        *)
(***************************************************************************)
EXTENDS MCHosted, Sequences, FiniteSetTheorems, WellFoundedInduction, TLAPS

(***************************************************************************)
(* The cycles of the hosted workers.                                       *)
(***************************************************************************)
PostStatus == {"absent", "PENDING", "PUBLISHING", "PUBLISHED", "FAILED"}
PostRow == [status : PostStatus, zone : DOMAIN Offset \cup {None}, scheduled : Int,
            retry : Int \cup {None}, retries : 0..MaxRetries]
Stages == {"idle", "user", "recover", "reselect", "posts", "execute"}
CycleState == [at : Stages, now : Nat, users : SUBSET Users, user : Users \cup {None},
               due : SUBSET Posts, post : Posts \cup {None}, alone : BOOLEAN,
               raised : SUBSET Users]

HostedTypes ==
    /\ now \in 0..MaxTime
    /\ post \in [Posts -> PostRow]
    /\ cycle \in [Workers -> CycleState]
    /\ \A w \in Workers :
          /\ cycle[w].now <= now
          /\ cycle[w].at \in {"recover", "reselect", "posts", "execute"} => cycle[w].user \in Users
          /\ cycle[w].at = "execute" => cycle[w].post \in Posts

\* What a worker has taken from the table, and will still claim or finish.
Held(w) == cycle[w].due \cup IF cycle[w].at = "execute" THEN {cycle[w].post} ELSE {}

\* A post that a worker holds is one that its slot's clock had called when the
\* worker's cycle began.
DueInv ==
    /\ Hosted!NothingEarly
    /\ \A w \in Workers : \A p \in Held(w) :
          post[p].status # "absent" /\ Hosted!Reached(p, cycle[w].now)

LEMMA WallIsInt ==
    ASSUME NEW zone \in DOMAIN Offset, NEW t \in 0..MaxTime
    PROVE  Hosted!Wall(zone, t) \in Int /\ Hosted!Wall(zone, t) <= t + MaxOffset
BY HostedAssumption DEF Hosted!Wall

LEMMA HostedTypesInit == Hosted!Init => HostedTypes
BY HostedAssumption
DEF Hosted!Init, HostedTypes, Hosted!Asleep, PostRow, PostStatus, CycleState, Stages

\* What a step of a worker makes of its cycle, and of the post it is about.
Moves(w, s) == s \in CycleState /\ cycle' = [cycle EXCEPT ![w] = s]
Keeps(w, s) == s.now = cycle[w].now /\ s.alone = cycle[w].alone
Writes(p, r) ==
    /\ r \in PostRow /\ post' = [post EXCEPT ![p] = r]
    /\ r.zone = post[p].zone /\ r.scheduled = post[p].scheduled

LEMMA SelectDueMoves ==
    ASSUME HostedTypes, NEW w \in Workers, Hosted!SelectDue(w)
    PROVE  /\ UNCHANGED <<now, post>>
           /\ \E s \in CycleState, user \in Users :
                /\ Moves(w, s) /\ Keeps(w, s) /\ s.raised = cycle[w].raised
                /\ s.user = user /\ s.due = Hosted!DuePosts(user, cycle[w].now)
                /\ \/ /\ cycle[w].at = "user" /\ s.at = "recover"
                      /\ user \in cycle[w].users /\ s.users = cycle[w].users \ {user}
                   \/ /\ cycle[w].at = "reselect" /\ s.at = "posts"
                      /\ user = cycle[w].user /\ s.users = cycle[w].users
<1>1. ASSUME NEW u \in Users PROVE Hosted!DuePosts(u, cycle[w].now) \in SUBSET Posts
  BY DEF Hosted!DuePosts, Hosted!Candidates
<1>2. cycle \in [Workers -> CycleState] /\ cycle[w] \in CycleState
  BY DEF HostedTypes
<1>3. CASE /\ cycle[w].at = "user"
           /\ \E user \in cycle[w].users :
                /\ \A other \in cycle[w].users : user <= other
                /\ cycle' = [cycle EXCEPT ![w].at = "recover", ![w].user = user,
                                          ![w].users = @ \ {user},
                                          ![w].due = Hosted!DuePosts(user, cycle[w].now)]
  <2>1. PICK user \in cycle[w].users :
          cycle' = [cycle EXCEPT ![w].at = "recover", ![w].user = user, ![w].users = @ \ {user},
                                 ![w].due = Hosted!DuePosts(user, cycle[w].now)]
    BY <1>3
  <2>2. user \in Users
    BY <1>2 DEF CycleState
  <2> DEFINE due == Hosted!DuePosts(user, cycle[w].now)
             s == [cycle[w] EXCEPT !.at = "recover", !.user = user, !.users = @ \ {user},
                                   !.due = due]
  <2>3. due \in SUBSET Posts
    BY <1>1, <2>2
  <2>4. cycle' = [cycle EXCEPT ![w] = s]
    BY <1>2, <2>1
  <2> HIDE DEF due
  <2>5. /\ s \in CycleState /\ s.at = "recover" /\ s.user = user /\ s.due = due
        /\ s.users = cycle[w].users \ {user}
        /\ s.now = cycle[w].now /\ s.alone = cycle[w].alone /\ s.raised = cycle[w].raised
    BY <1>2, <2>2, <2>3 DEF CycleState, Stages
  <2> HIDE DEF s
  <2> QED BY <1>3, <2>2, <2>4, <2>5 DEF Moves, Keeps, due, Hosted!SelectDue
<1>4. CASE /\ cycle[w].at = "reselect"
           /\ cycle' = [cycle EXCEPT ![w].at = "posts",
                                     ![w].due = Hosted!DuePosts(cycle[w].user, cycle[w].now)]
  <2>1. cycle[w].user \in Users
    BY <1>4 DEF HostedTypes
  <2> DEFINE due == Hosted!DuePosts(cycle[w].user, cycle[w].now)
             s == [cycle[w] EXCEPT !.at = "posts", !.due = due]
  <2>2. due \in SUBSET Posts
    BY <1>1, <2>1
  <2>3. cycle' = [cycle EXCEPT ![w] = s]
    BY <1>2, <1>4
  <2> HIDE DEF due
  <2>4. /\ s \in CycleState /\ s.at = "posts" /\ s.user = cycle[w].user /\ s.due = due
        /\ s.users = cycle[w].users
        /\ s.now = cycle[w].now /\ s.alone = cycle[w].alone /\ s.raised = cycle[w].raised
    BY <1>2, <2>2 DEF CycleState, Stages
  <2> HIDE DEF s
  <2> QED BY <1>4, <2>1, <2>3, <2>4 DEF Moves, Keeps, due, Hosted!SelectDue
<1> QED BY <1>3, <1>4 DEF Hosted!SelectDue

LEMMA NextUserMoves ==
    ASSUME HostedTypes, NEW w \in Workers, Hosted!UserRaises(w) \/ Hosted!UserDone(w)
    PROVE  /\ UNCHANGED <<now, post>>
           /\ \E s \in CycleState :
                /\ Moves(w, s) /\ Keeps(w, s)
                /\ s.at = "user" /\ s.due = {} /\ s.users = cycle[w].users
                /\ \/ s.raised = cycle[w].raised \cup {cycle[w].user}
                      /\ cycle[w].at \in {"recover", "posts"}
                   \/ s.raised = cycle[w].raised /\ cycle[w].at = "posts" /\ cycle[w].due = {}
<1>1. cycle \in [Workers -> CycleState] /\ cycle[w] \in CycleState
  BY DEF HostedTypes
<1> DEFINE t == Hosted!NextUser(w)
<1>2. /\ t \in CycleState /\ t.at = "user" /\ t.due = {} /\ t.users = cycle[w].users
      /\ t.now = cycle[w].now /\ t.alone = cycle[w].alone /\ t.raised = cycle[w].raised
  BY <1>1 DEF CycleState, Stages, Hosted!NextUser
<1> HIDE DEF t
<1>3. CASE Hosted!UserRaises(w)
  <2> DEFINE s == [t EXCEPT !.raised = @ \cup {cycle[w].user}]
  <2>1. cycle[w].user \in Users
    BY <1>3 DEF HostedTypes, Hosted!UserRaises
  <2>2. Moves(w, s)
    BY <1>1, <1>2, <1>3, <2>1 DEF Hosted!UserRaises, Moves, CycleState, t
  <2>3. /\ s.at = "user" /\ s.due = {} /\ s.users = cycle[w].users
        /\ s.now = cycle[w].now /\ s.alone = cycle[w].alone
        /\ s.raised = cycle[w].raised \cup {cycle[w].user}
    BY <1>2 DEF CycleState
  <2> HIDE DEF s
  <2> QED BY <1>3, <2>2, <2>3 DEF Hosted!UserRaises, Moves, Keeps
<1>4. CASE Hosted!UserDone(w)
  BY <1>1, <1>2, <1>4 DEF Hosted!UserDone, Moves, Keeps, t
<1> QED BY <1>3, <1>4

LEMMA RecoverMoves ==
    ASSUME HostedTypes, NEW w \in Workers, Hosted!Recover(w)
    PROVE  /\ UNCHANGED now
           /\ post' \in [Posts -> PostRow]
           /\ \A p \in Posts :
                /\ post'[p].zone = post[p].zone /\ post'[p].scheduled = post[p].scheduled
                /\ post'[p].retry = post[p].retry
                /\ \/ post'[p].status = post[p].status
                   \/ /\ post[p].status = "PUBLISHING" /\ post'[p].status = "PENDING"
                      /\ OwnerOf[p] = cycle[w].user /\ p \notin Hosted!Executing
           /\ \E s \in CycleState :
                /\ Moves(w, s) /\ Keeps(w, s)
                /\ cycle[w].at = "recover" /\ s.user = cycle[w].user /\ s.due = cycle[w].due
                /\ s.users = cycle[w].users /\ s.raised = cycle[w].raised
                /\ s.at \in {"posts", "reselect"} /\ (s.at = "posts" => post' = post)
<1>1. cycle \in [Workers -> CycleState] /\ cycle[w] \in CycleState /\ post \in [Posts -> PostRow]
  BY DEF HostedTypes
<1> DEFINE stale == {p \in Posts : post[p].status = "PUBLISHING" /\ OwnerOf[p] = cycle[w].user
                                   /\ p \notin Hosted!Executing}
           stage == IF stale = {} THEN "posts" ELSE "reselect"
           s == [cycle[w] EXCEPT !.at = stage]
<1>2. /\ cycle[w].at = "recover" /\ UNCHANGED now
      /\ post' = [p \in Posts |-> IF p \in stale THEN [post[p] EXCEPT !.status = "PENDING"]
                                  ELSE post[p]]
      /\ cycle' = [cycle EXCEPT ![w].at = stage]
  BY DEF Hosted!Recover, Hosted!Goto
<1>3. Moves(w, s)
  BY <1>1, <1>2 DEF Moves, CycleState, Stages
<1>4. /\ s.at = stage /\ s.user = cycle[w].user /\ s.due = cycle[w].due /\ s.users = cycle[w].users
      /\ s.now = cycle[w].now /\ s.alone = cycle[w].alone /\ s.raised = cycle[w].raised
  BY <1>1 DEF CycleState
<1>5. \A p \in stale : [post[p] EXCEPT !.status = "PENDING"] \in PostRow
  BY <1>1 DEF PostRow, PostStatus
<1>6. post' \in [Posts -> PostRow]
  BY <1>1, <1>2, <1>5
<1>7. stale = {} => post' = post
  BY <1>1, <1>2
<1>8. ASSUME NEW p \in Posts
      PROVE  /\ post'[p].zone = post[p].zone /\ post'[p].scheduled = post[p].scheduled
             /\ post'[p].retry = post[p].retry
             /\ \/ post'[p].status = post[p].status
                \/ /\ post[p].status = "PUBLISHING" /\ post'[p].status = "PENDING"
                   /\ OwnerOf[p] = cycle[w].user /\ p \notin Hosted!Executing
  <2>1. post[p] \in PostRow
    BY <1>1
  <2> QED BY <1>2, <2>1 DEF PostRow
<1> HIDE DEF s, stale
<1> QED BY <1>2, <1>3, <1>4, <1>6, <1>7, <1>8 DEF Keeps, Moves

LEMMA ClaimPostMoves ==
    ASSUME HostedTypes, NEW w \in Workers, Hosted!ClaimPost(w)
    PROVE  /\ UNCHANGED now
           /\ cycle[w].at = "posts"
           /\ \E p \in cycle[w].due, s \in CycleState :
                /\ Moves(w, s) /\ Keeps(w, s) /\ p \in Posts
                /\ s.user = cycle[w].user /\ s.due = cycle[w].due \ {p}
                /\ s.users = cycle[w].users /\ s.raised = cycle[w].raised
                /\ \/ /\ post[p].status = "PENDING" /\ s.at = "execute" /\ s.post = p
                      /\ \E r \in PostRow : /\ Writes(p, r) /\ r.status = "PUBLISHING"
                                            /\ r.retry = post[p].retry
                   \/ post[p].status # "PENDING" /\ s.at = "posts" /\ UNCHANGED post
<1>1. cycle \in [Workers -> CycleState] /\ cycle[w] \in CycleState /\ post \in [Posts -> PostRow]
  BY DEF HostedTypes
<1>2. PICK p \in cycle[w].due :
        \/ /\ post[p].status = "PENDING"
           /\ post' = [post EXCEPT ![p].status = "PUBLISHING"]
           /\ cycle' = [cycle EXCEPT ![w].at = "execute", ![w].post = p, ![w].due = @ \ {p}]
        \/ /\ post[p].status # "PENDING"
           /\ cycle' = [cycle EXCEPT ![w].due = @ \ {p}]
           /\ UNCHANGED post
  BY DEF Hosted!ClaimPost, Hosted!Earliest
<1>3. UNCHANGED now /\ cycle[w].at = "posts"
  BY DEF Hosted!ClaimPost
<1>4. p \in Posts /\ post[p] \in PostRow
  BY <1>1 DEF CycleState
<1>5. CASE /\ post[p].status = "PENDING"
           /\ post' = [post EXCEPT ![p].status = "PUBLISHING"]
           /\ cycle' = [cycle EXCEPT ![w].at = "execute", ![w].post = p, ![w].due = @ \ {p}]
  <2> DEFINE r == [post[p] EXCEPT !.status = "PUBLISHING"]
             s == [cycle[w] EXCEPT !.at = "execute", !.post = p, !.due = @ \ {p}]
  <2>1. /\ r \in PostRow /\ r.status = "PUBLISHING" /\ r.retry = post[p].retry
        /\ r.zone = post[p].zone /\ r.scheduled = post[p].scheduled
    BY <1>4 DEF PostRow, PostStatus
  <2>2. post' = [post EXCEPT ![p] = r]
    BY <1>1, <1>4, <1>5
  <2>3. /\ s \in CycleState /\ s.at = "execute" /\ s.post = p /\ s.due = cycle[w].due \ {p}
        /\ s.user = cycle[w].user /\ s.users = cycle[w].users
        /\ s.now = cycle[w].now /\ s.alone = cycle[w].alone /\ s.raised = cycle[w].raised
    BY <1>1, <1>4 DEF CycleState, Stages
  <2>4. cycle' = [cycle EXCEPT ![w] = s]
    BY <1>1, <1>5
  <2> HIDE DEF r, s
  <2> QED BY <1>4, <1>5, <1>3, <2>1, <2>2, <2>3, <2>4 DEF Moves, Keeps, Writes
<1>6. CASE /\ post[p].status # "PENDING"
           /\ cycle' = [cycle EXCEPT ![w].due = @ \ {p}]
           /\ UNCHANGED post
  <2> DEFINE s == [cycle[w] EXCEPT !.due = @ \ {p}]
  <2>1. /\ s \in CycleState /\ s.at = cycle[w].at /\ s.due = cycle[w].due \ {p}
        /\ s.user = cycle[w].user /\ s.users = cycle[w].users
        /\ s.now = cycle[w].now /\ s.alone = cycle[w].alone /\ s.raised = cycle[w].raised
    BY <1>1 DEF CycleState
  <2>2. cycle' = [cycle EXCEPT ![w] = s]
    BY <1>1, <1>6
  <2> HIDE DEF s
  <2> QED BY <1>4, <1>6, <1>3, <2>1, <2>2 DEF Moves, Keeps
<1> QED BY <1>2, <1>5, <1>6

LEMMA ExecutePostMoves ==
    ASSUME HostedTypes, NEW w \in Workers, Hosted!ExecutePost(w)
    PROVE  /\ UNCHANGED now
           /\ cycle[w].at = "execute" /\ cycle[w].post \in Posts
           /\ \E r \in PostRow : /\ Writes(cycle[w].post, r)
                                 /\ \/ r.status \in {"PUBLISHED", "FAILED"}
                                    \/ r.status = "PENDING" /\ r.retry # None
           /\ \E s \in CycleState :
                /\ Moves(w, s) /\ Keeps(w, s) /\ s.at = "posts"
                /\ s.user = cycle[w].user /\ s.due = cycle[w].due
                /\ s.users = cycle[w].users /\ s.raised = cycle[w].raised
<1> DEFINE p == cycle[w].post
<1>1. cycle \in [Workers -> CycleState] /\ cycle[w] \in CycleState /\ post \in [Posts -> PostRow]
  BY DEF HostedTypes
<1>2. p \in Posts /\ post[p] \in PostRow
  BY <1>1 DEF HostedTypes, Hosted!ExecutePost
<1>3. \E r \in PostRow : /\ Writes(p, r)
                         /\ \/ r.status \in {"PUBLISHED", "FAILED"}
                            \/ r.status = "PENDING" /\ r.retry # None
  <2>1. CASE \E status \in {"PUBLISHED", "FAILED"} : post' = [post EXCEPT ![p].status = status]
    <3>1. PICK status \in {"PUBLISHED", "FAILED"} : post' = [post EXCEPT ![p].status = status]
      BY <2>1
    <3> DEFINE r == [post[p] EXCEPT !.status = status]
    <3>2. /\ r \in PostRow /\ r.status \in {"PUBLISHED", "FAILED"}
          /\ r.zone = post[p].zone /\ r.scheduled = post[p].scheduled
      BY <1>2 DEF PostRow, PostStatus
    <3>3. post' = [post EXCEPT ![p] = r]
      BY <1>1, <1>2, <3>1
    <3> HIDE DEF r
    <3> QED BY <3>2, <3>3 DEF Writes
  <2>2. CASE /\ post[p].retries < MaxRetries
             /\ post' = [post EXCEPT ![p].status = "PENDING", ![p].retries = @ + 1,
                                     ![p].retry = Hosted!Wall(ConfigZone, now) + Backoff]
    <3> DEFINE retry == Hosted!Wall(ConfigZone, now) + Backoff
               more == post[p].retries + 1
               r == [post[p] EXCEPT !.status = "PENDING", !.retries = more, !.retry = retry]
    <3>1. retry \in Int /\ more \in 0..MaxRetries
      BY <1>2, <2>2, HostedAssumption, WallIsInt DEF HostedTypes, PostRow
    <3>2. post' = [post EXCEPT ![p] = r]
      BY <1>1, <1>2, <2>2
    <3> HIDE DEF retry, more
    <3>3. /\ r \in PostRow /\ r.status = "PENDING" /\ r.retry = retry
          /\ r.zone = post[p].zone /\ r.scheduled = post[p].scheduled
      BY <1>2, <3>1 DEF PostRow, PostStatus
    <3> HIDE DEF r
    <3> QED BY <3>1, <3>2, <3>3, HostedAssumption DEF Writes
  <2> QED BY <2>1, <2>2 DEF Hosted!ExecutePost
<1> DEFINE s == [cycle[w] EXCEPT !.at = "posts", !.post = None]
<1>4. /\ s \in CycleState /\ s.at = "posts" /\ s.due = cycle[w].due
      /\ s.user = cycle[w].user /\ s.users = cycle[w].users
      /\ s.now = cycle[w].now /\ s.alone = cycle[w].alone /\ s.raised = cycle[w].raised
  BY <1>1 DEF CycleState, Stages
<1>5. cycle' = [cycle EXCEPT ![w] = s] /\ UNCHANGED now /\ cycle[w].at = "execute"
  BY <1>1 DEF Hosted!ExecutePost
<1> HIDE DEF s
<1> QED BY <1>2, <1>3, <1>4, <1>5 DEF Moves, Keeps
LEMMA PlanMoves ==
    ASSUME HostedTypes, NEW p \in Posts, Hosted!Plan(p)
    PROVE  /\ UNCHANGED <<now, cycle>>
           /\ post[p].status = "absent"
           /\ \E r \in PostRow :
                /\ post' = [post EXCEPT ![p] = r]
                /\ r.status = "PENDING" /\ r.retry = post[p].retry
                /\ r.scheduled > Hosted!Wall(IF r.zone = None THEN ConfigZone ELSE r.zone, now)
<1>1. /\ UNCHANGED <<now, cycle>> /\ post[p].status = "absent"
      /\ \E zone \in DOMAIN Offset \cup {None} :
            LET z == IF zone = None THEN ConfigZone ELSE zone
            IN  \E wall \in Hosted!Wall(z, now)..(Hosted!Wall(z, now) + Horizon) :
                   /\ Hosted!Generates(z, wall)
                   /\ post' = [post EXCEPT ![p].status = "PENDING", ![p].zone = zone,
                                           ![p].scheduled = wall]
  BY DEF Hosted!Plan, Hosted!Zones
<1>2. PICK zone \in DOMAIN Offset \cup {None} :
        LET z == IF zone = None THEN ConfigZone ELSE zone
        IN  \E wall \in Hosted!Wall(z, now)..(Hosted!Wall(z, now) + Horizon) :
               /\ Hosted!Generates(z, wall)
               /\ post' = [post EXCEPT ![p].status = "PENDING", ![p].zone = zone,
                                       ![p].scheduled = wall]
  BY <1>1
<1> DEFINE base == Hosted!Wall(IF zone = None THEN ConfigZone ELSE zone, now)
<1>3. PICK wall \in base..(base + Horizon) :
        /\ wall > base
        /\ post' = [post EXCEPT ![p].status = "PENDING", ![p].zone = zone,
                                ![p].scheduled = wall]
  BY <1>2 DEF Hosted!Generates
<1>4. post \in [Posts -> PostRow] /\ post[p] \in PostRow /\ wall \in Int
  BY DEF HostedTypes
<1> DEFINE r == [post[p] EXCEPT !.status = "PENDING", !.zone = zone, !.scheduled = wall]
<1>5. /\ r \in PostRow /\ r.status = "PENDING" /\ r.retry = post[p].retry
      /\ r.zone = zone /\ r.scheduled = wall
  BY <1>4 DEF PostRow, PostStatus
<1>6. post' = [post EXCEPT ![p] = r]
  BY <1>3, <1>4
<1> HIDE DEF r
<1> QED BY <1>1, <1>3, <1>5, <1>6

LEMMA StartCycleMoves ==
    ASSUME HostedTypes, NEW w \in Workers, Hosted!StartCycle(w)
    PROVE  /\ UNCHANGED <<now, post>>
           /\ cycle' \in [Workers -> CycleState]
           /\ \A v \in Workers \ {w} :
                /\ cycle'[v].at = cycle[v].at /\ cycle'[v].now = cycle[v].now
                /\ cycle'[v].user = cycle[v].user /\ cycle'[v].due = cycle[v].due
                /\ cycle'[v].post = cycle[v].post
                /\ cycle'[v].alone = ~Hosted!Busy(v)
           /\ cycle'[w].at = "user" /\ cycle'[w].now = now /\ cycle'[w].due = {}
           /\ cycle'[w].alone = ~\E v \in Workers \ {w} : Hosted!Busy(v)
           /\ \A p \in Posts : post[p].status \in {"PENDING", "PUBLISHING"}
                                  => OwnerOf[p] \in cycle'[w].users
<1> DEFINE users == {OwnerOf[p] :
                        p \in {q \in Posts : post[q].status \in {"PENDING", "PUBLISHING"}}}
           others == \E v \in Workers \ {w} : Hosted!Busy(v)
           s == [Hosted!Asleep EXCEPT !.at = "user", !.now = now, !.users = users,
                                      !.alone = ~others]
           t == [v \in Workers |-> [cycle[v] EXCEPT !.alone = ~Hosted!Busy(v)]]
<1>1. /\ UNCHANGED <<now, post>>
      /\ cycle' = [v \in Workers |-> IF v = w THEN s ELSE t[v]]
  BY DEF Hosted!StartCycle
<1>2. users \in SUBSET Users /\ now \in Nat /\ (~others) \in BOOLEAN
  BY HostedAssumption DEF HostedTypes
<1>3. \A p \in Posts : post[p].status \in {"PENDING", "PUBLISHING"} => OwnerOf[p] \in users
  OBVIOUS
<1> HIDE DEF users, others
<1>4. /\ s \in CycleState /\ s.at = "user" /\ s.now = now /\ s.users = users
      /\ s.alone = ~others /\ s.due = {}
  BY <1>2 DEF CycleState, Stages, Hosted!Asleep
<1>5. ASSUME NEW v \in Workers
      PROVE  /\ t[v] \in CycleState
             /\ t[v].at = cycle[v].at /\ t[v].now = cycle[v].now /\ t[v].user = cycle[v].user
             /\ t[v].due = cycle[v].due /\ t[v].post = cycle[v].post
             /\ t[v].alone = ~Hosted!Busy(v)
  <2>1. cycle[v] \in CycleState /\ Hosted!Busy(v) \in BOOLEAN
    BY DEF HostedTypes, Hosted!Busy
  <2> QED BY <2>1 DEF CycleState
<1> HIDE DEF s, t
<1> QED BY <1>1, <1>3, <1>4, <1>5 DEF others

LEMMA AsleepMoves ==
    ASSUME HostedTypes, NEW w \in Workers, Hosted!EndCycle(w) \/ Hosted!Killed(w)
    PROVE  /\ UNCHANGED <<now, post>>
           /\ \E s \in CycleState : Moves(w, s) /\ s.at = "idle" /\ s.now = 0 /\ s.due = {}
<1>1. Hosted!Asleep \in CycleState /\ Hosted!Asleep.at = "idle" /\ Hosted!Asleep.now = 0
      /\ Hosted!Asleep.due = {}
  BY DEF Hosted!Asleep, CycleState, Stages
<1>2. UNCHANGED <<now, post>> /\ cycle' = [cycle EXCEPT ![w] = Hosted!Asleep]
  BY DEF Hosted!EndCycle, Hosted!Killed
<1> QED BY <1>1, <1>2 DEF Moves

\* One worker's cycle is what changes, unless a cycle starts or the clock ticks.
LEMMA OthersStay ==
    ASSUME HostedTypes, NEW w \in Workers, NEW s \in CycleState, Moves(w, s)
    PROVE  /\ cycle' \in [Workers -> CycleState] /\ cycle'[w] = s
           /\ \A v \in Workers \ {w} : cycle'[v] = cycle[v]
BY DEF Moves, HostedTypes

LEMMA OtherPostsStay ==
    ASSUME HostedTypes, NEW p \in Posts, NEW r \in PostRow, post' = [post EXCEPT ![p] = r]
    PROVE  /\ post' \in [Posts -> PostRow] /\ post'[p] = r
           /\ \A q \in Posts \ {p} : post'[q] = post[q]
BY DEF HostedTypes

LEMMA HostedTypesStep == HostedTypes /\ [Hosted!Next]_(Hosted!vars) => HostedTypes'
<1> SUFFICES ASSUME HostedTypes, [Hosted!Next]_(Hosted!vars) PROVE HostedTypes'
  OBVIOUS
<1>0. now \in Nat /\ now \in Int
  BY HostedAssumption DEF HostedTypes
<1>1. CASE UNCHANGED Hosted!vars
  BY <1>1 DEF Hosted!vars, HostedTypes
<1>2. CASE Hosted!Tick
  <2>1. now' \in 0..MaxTime /\ now <= now' /\ UNCHANGED <<post, cycle>>
    BY <1>2, HostedAssumption DEF Hosted!Tick, HostedTypes
  <2>2. \A w \in Workers : cycle[w].now \in Nat
    BY DEF HostedTypes, CycleState
  <2> QED BY <1>0, <2>1, <2>2 DEF HostedTypes
<1>3. ASSUME NEW p \in Posts, Hosted!Plan(p) PROVE HostedTypes'
  <2>1. UNCHANGED <<now, cycle>> /\ \E r \in PostRow : post' = [post EXCEPT ![p] = r]
    BY <1>3, PlanMoves
  <2> QED BY <2>1, OtherPostsStay DEF HostedTypes
<1>4. ASSUME NEW w \in Workers, Hosted!WorkerStep(w) PROVE HostedTypes'
  <2>1. CASE Hosted!StartCycle(w)
    <3>1. UNCHANGED <<now, post>> /\ cycle' \in [Workers -> CycleState]
      BY <2>1, StartCycleMoves
    <3>2. ASSUME NEW v \in Workers
          PROVE  /\ cycle'[v].now <= now
                 /\ cycle'[v].at \in {"recover", "reselect", "posts", "execute"}
                       => cycle'[v].user \in Users
                 /\ cycle'[v].at = "execute" => cycle'[v].post \in Posts
      <4>1. CASE v = w BY <1>0, <2>1, <4>1, StartCycleMoves
      <4>2. CASE v # w BY <2>1, <4>2, StartCycleMoves DEF HostedTypes
      <4> QED BY <4>1, <4>2
    <3> QED BY <3>1, <3>2 DEF HostedTypes
  <2>2. CASE \E s \in CycleState :
                /\ Moves(w, s) /\ s.now <= now /\ UNCHANGED now
                /\ s.at \in {"recover", "reselect", "posts", "execute"} => s.user \in Users
                /\ s.at = "execute" => s.post \in Posts
                /\ post' \in [Posts -> PostRow]
    <3>1. PICK s \in CycleState :
                /\ Moves(w, s) /\ s.now <= now /\ UNCHANGED now
                /\ s.at \in {"recover", "reselect", "posts", "execute"} => s.user \in Users
                /\ s.at = "execute" => s.post \in Posts
                /\ post' \in [Posts -> PostRow]
      BY <2>2
    <3>2. /\ cycle' \in [Workers -> CycleState] /\ cycle'[w] = s
          /\ \A v \in Workers \ {w} : cycle'[v] = cycle[v]
      BY <3>1, OthersStay
    <3> QED BY <3>1, <3>2 DEF HostedTypes
  <2>3. /\ cycle[w].now <= now /\ post \in [Posts -> PostRow]
        /\ cycle[w].at \in {"recover", "reselect", "posts", "execute"} => cycle[w].user \in Users
    BY DEF HostedTypes
  <2>4. CASE Hosted!SelectDue(w) BY <2>2, <2>3, <2>4, SelectDueMoves DEF Keeps
  <2>5. CASE Hosted!UserRaises(w) \/ Hosted!UserDone(w)
    BY <2>2, <2>3, <2>5, NextUserMoves DEF Keeps
  <2>6. CASE Hosted!Recover(w) BY <2>2, <2>3, <2>6, RecoverMoves DEF Keeps
  <2>7. CASE Hosted!ClaimPost(w)
    <3>1. post' \in [Posts -> PostRow]
      BY <2>3, <2>7, ClaimPostMoves, OtherPostsStay DEF Writes
    <3> QED BY <2>2, <2>3, <2>7, <3>1, ClaimPostMoves DEF Keeps
  <2>8. CASE Hosted!ExecutePost(w)
    <3>1. post' \in [Posts -> PostRow]
      BY <2>8, ExecutePostMoves, OtherPostsStay DEF Writes
    <3> QED BY <2>2, <2>3, <2>8, <3>1, ExecutePostMoves DEF Keeps
  <2>9. CASE Hosted!EndCycle(w) \/ Hosted!Killed(w)
    BY <1>0, <2>2, <2>3, <2>9, AsleepMoves
  <2> QED BY <1>4, <2>1, <2>4, <2>5, <2>6, <2>7, <2>8, <2>9 DEF Hosted!WorkerStep
<1> QED BY <1>1, <1>2, <1>3, <1>4 DEF Hosted!Next
-----------------------------------------------------------------------------
LEMMA HeldIsPosts ==
    ASSUME HostedTypes, NEW w \in Workers
    PROVE  Held(w) \subseteq Posts
BY DEF HostedTypes, CycleState, Held

\* What was called stays called, as long as the slot's time and zone stay.
SlotsStay == \A p \in Posts : /\ post'[p].zone = post[p].zone
                              /\ post'[p].scheduled = post[p].scheduled

LEMMA CalledStaysCalled ==
    ASSUME HostedTypes, HostedTypes', SlotsStay, NEW p \in Posts, NEW t \in Int, NEW u \in Int,
           t <= u, Hosted!Reached(p, t)
    PROVE  Hosted!Reached(p, u)'
BY DEF SlotsStay, Hosted!Reached, Hosted!ZoneOf

LEMMA HeldStays ==
    ASSUME HostedTypes, HostedTypes', DueInv, SlotsStay, NEW w \in Workers,
           \A p \in Posts : post[p].status # "absent" => post'[p].status # "absent",
           Held(w)' \subseteq Held(w), cycle'[w].now = cycle[w].now
    PROVE  \A p \in Held(w)' : post'[p].status # "absent" /\ Hosted!Reached(p, cycle[w].now)'
<1>1. cycle[w].now \in Int /\ Held(w) \subseteq Posts
  BY HeldIsPosts DEF HostedTypes, CycleState
<1> QED BY <1>1, CalledStaysCalled DEF DueInv

\* A worker's step takes up only posts that it holds.
LEMMA WorkerRows ==
    ASSUME HostedTypes, NEW w \in Workers, Hosted!WorkerStep(w)
    PROVE  /\ UNCHANGED now
           /\ SlotsStay
           /\ \A p \in Posts :
                /\ post[p].status # "absent" => post'[p].status # "absent"
                /\ post'[p].status \notin {"absent", "PENDING"} =>
                      post[p].status \notin {"absent", "PENDING"} \/ p \in Held(w)
<1>1. CASE UNCHANGED <<now, post>>
  BY <1>1 DEF SlotsStay
<1>2. CASE Hosted!Recover(w)
  BY <1>2, RecoverMoves DEF SlotsStay
<1>3. CASE Hosted!ClaimPost(w)
  <2>1. PICK p \in cycle[w].due :
          /\ p \in Posts /\ UNCHANGED now
          /\ \/ \E r \in PostRow : Writes(p, r) /\ r.status = "PUBLISHING"
             \/ UNCHANGED post
    BY <1>3, ClaimPostMoves
  <2>2. CASE UNCHANGED post BY <1>1, <2>1, <2>2
  <2>3. CASE \E r \in PostRow : Writes(p, r) /\ r.status = "PUBLISHING"
    BY <2>1, <2>3, OtherPostsStay DEF Writes, SlotsStay, Held
  <2> QED BY <2>1, <2>2, <2>3
<1>4. CASE Hosted!ExecutePost(w)
  <2>1. /\ cycle[w].at = "execute" /\ cycle[w].post \in Posts /\ UNCHANGED now
        /\ \E r \in PostRow : Writes(cycle[w].post, r) /\ r.status # "absent"
    BY <1>4, ExecutePostMoves
  <2> QED BY <2>1, OtherPostsStay DEF Writes, SlotsStay, Held
<1> QED BY <1>1, <1>2, <1>3, <1>4, StartCycleMoves, SelectDueMoves, NextUserMoves, AsleepMoves
        DEF Hosted!WorkerStep

\* And what a worker holds, it held before, or it has just been told is due.
LEMMA WorkerHolds ==
    ASSUME HostedTypes, NEW w \in Workers, Hosted!WorkerStep(w), NEW v \in Workers
    PROVE  \/ Held(v)' \subseteq Held(v) /\ cycle'[v].now = cycle[v].now
           \/ Held(v)' = {}
           \/ /\ cycle'[v].now = cycle[v].now /\ UNCHANGED post
              /\ \E user \in Users : Held(v)' = Hosted!DuePosts(user, cycle[v].now)
<1>1. CASE Hosted!StartCycle(w)
  BY <1>1, StartCycleMoves DEF Held
<1>2. CASE \E s \in CycleState :
              /\ Moves(w, s)
              /\ \/ /\ s.now = cycle[w].now /\ s.due \subseteq cycle[w].due
                    /\ s.at = "execute" => s.post \in cycle[w].due
                 \/ s.due = {} /\ s.at # "execute"
                 \/ /\ s.now = cycle[w].now /\ s.at # "execute" /\ UNCHANGED post
                    /\ \E user \in Users : s.due = Hosted!DuePosts(user, cycle[w].now)
  <2>1. PICK s \in CycleState :
              /\ Moves(w, s)
              /\ \/ /\ s.now = cycle[w].now /\ s.due \subseteq cycle[w].due
                    /\ s.at = "execute" => s.post \in cycle[w].due
                 \/ s.due = {} /\ s.at # "execute"
                 \/ /\ s.now = cycle[w].now /\ s.at # "execute" /\ UNCHANGED post
                    /\ \E user \in Users : s.due = Hosted!DuePosts(user, cycle[w].now)
    BY <1>2
  <2>2. cycle'[w] = s /\ (v # w => cycle'[v] = cycle[v])
    BY <2>1, OthersStay
  <2> QED BY <2>1, <2>2 DEF Held
<1>3. CASE Hosted!SelectDue(w) BY <1>2, <1>3, SelectDueMoves DEF Keeps
<1>4. CASE Hosted!UserRaises(w) \/ Hosted!UserDone(w) BY <1>2, <1>4, NextUserMoves
<1>5. CASE Hosted!Recover(w) BY <1>2, <1>5, RecoverMoves DEF Keeps
<1>6. CASE Hosted!ClaimPost(w) BY <1>2, <1>6, ClaimPostMoves DEF Keeps
<1>7. CASE Hosted!ExecutePost(w) BY <1>2, <1>7, ExecutePostMoves DEF Keeps
<1>8. CASE Hosted!EndCycle(w) \/ Hosted!Killed(w) BY <1>2, <1>8, AsleepMoves
<1> QED BY <1>1, <1>3, <1>4, <1>5, <1>6, <1>7, <1>8 DEF Hosted!WorkerStep

LEMMA DueInit == Hosted!Init => DueInv
BY DEF Hosted!Init, DueInv, Held, Hosted!NothingEarly, Hosted!Asleep

LEMMA DueStep == HostedTypes /\ HostedTypes' /\ DueInv /\ [Hosted!Next]_(Hosted!vars) => DueInv'
<1> SUFFICES ASSUME HostedTypes, HostedTypes', DueInv, [Hosted!Next]_(Hosted!vars)
             PROVE  DueInv'
  OBVIOUS
<1>0. /\ now \in Int /\ now' \in Int
      /\ \A w \in Workers : cycle[w].now \in Int /\ cycle[w].now <= now /\ Held(w) \subseteq Posts
  BY HeldIsPosts, HostedAssumption DEF HostedTypes, CycleState
<1>1. CASE UNCHANGED Hosted!vars
  BY <1>1 DEF Hosted!vars, DueInv, Held, Hosted!NothingEarly, Hosted!Reached, Hosted!ZoneOf
<1>2. CASE Hosted!Tick
  <2>1. UNCHANGED <<post, cycle>> /\ now' = now + 1
    BY <1>2 DEF Hosted!Tick
  <2>2. SlotsStay
    BY <2>1 DEF SlotsStay
  <2>3. Hosted!NothingEarly'
    BY <1>0, <2>1, <2>2, CalledStaysCalled DEF DueInv, Hosted!NothingEarly
  <2>4. ASSUME NEW w \in Workers, NEW p \in Held(w)'
        PROVE  post'[p].status # "absent" /\ Hosted!Reached(p, cycle[w].now)'
    <3>1. Held(w)' = Held(w)
      BY <2>1 DEF Held
    <3> QED BY <2>1, <2>2, <3>1, HeldStays
  <2> QED BY <2>1, <2>3, <2>4 DEF DueInv
<1>3. ASSUME NEW p \in Posts, Hosted!Plan(p) PROVE DueInv'
  <2>1. /\ UNCHANGED <<now, cycle>> /\ post[p].status = "absent" /\ post'[p].status = "PENDING"
        /\ \A q \in Posts \ {p} : post'[q] = post[q]
    BY <1>3, PlanMoves, OtherPostsStay
  <2>2. ASSUME NEW q \in Posts \ {p}, NEW t \in Int, Hosted!Reached(q, t)
        PROVE  Hosted!Reached(q, t)'
    BY <2>1, <2>2 DEF Hosted!Reached, Hosted!ZoneOf
  <2>3. Hosted!NothingEarly'
    BY <1>0, <2>1, <2>2 DEF DueInv, Hosted!NothingEarly
  <2>4. ASSUME NEW w \in Workers, NEW q \in Held(w)'
        PROVE  post'[q].status # "absent" /\ Hosted!Reached(q, cycle[w].now)'
    <3>1. q \in Held(w)
      BY <2>1 DEF Held
    <3>2. q \in Posts \ {p}
      BY <1>0, <2>1, <3>1 DEF DueInv
    <3> QED BY <1>0, <2>1, <2>2, <3>1, <3>2 DEF DueInv
  <2> QED BY <2>1, <2>3, <2>4 DEF DueInv
<1>4. ASSUME NEW w \in Workers, Hosted!WorkerStep(w) PROVE DueInv'
  <2>1. UNCHANGED now /\ SlotsStay
    BY <1>4, WorkerRows
  <2>2. ASSUME NEW p \in Posts, post'[p].status \notin {"absent", "PENDING"}
        PROVE  Hosted!Reached(p, now)'
    <3>1. CASE post[p].status \notin {"absent", "PENDING"}
      BY <1>0, <2>1, <3>1, CalledStaysCalled DEF DueInv, Hosted!NothingEarly
    <3>2. CASE p \in Held(w)
      BY <1>0, <2>1, <3>2, CalledStaysCalled DEF DueInv
    <3> QED BY <1>4, <2>2, <3>1, <3>2, WorkerRows
  <2>3. ASSUME NEW v \in Workers, NEW p \in Held(v)'
        PROVE  post'[p].status # "absent" /\ Hosted!Reached(p, cycle[v].now)'
    <3>1. CASE Held(v)' \subseteq Held(v) /\ cycle'[v].now = cycle[v].now
      BY <1>4, <2>1, <2>3, <3>1, HeldStays, WorkerRows
    <3>2. CASE /\ cycle'[v].now = cycle[v].now /\ UNCHANGED post
               /\ \E user \in Users : Held(v)' = Hosted!DuePosts(user, cycle[v].now)
      <4>1. /\ p \in Posts /\ post[p].status = "PENDING"
            /\ post[p].scheduled <= Hosted!Wall(Hosted!ZoneOf(p), cycle[v].now)
        BY <2>3, <3>2 DEF Hosted!DuePosts, Hosted!Candidates
      <4>2. cycle[v].now \in 0..cycle[v].now /\ post[p].scheduled \in Int
        BY <4>1 DEF HostedTypes, CycleState, PostRow
      <4>3. Hosted!Wall(Hosted!ZoneOf(p), cycle[v].now) \in Int
        <5>1. cycle[v].now \in 0..MaxTime
          BY <4>2, HostedAssumption DEF HostedTypes
        <5>2. Hosted!ZoneOf(p) \in DOMAIN Offset
          BY <4>1, HostedAssumption DEF HostedTypes, PostRow, Hosted!ZoneOf
        <5> QED BY <5>1, <5>2, WallIsInt
      <4>4. Hosted!Reached(p, cycle[v].now)
        BY <4>1, <4>2, <4>3 DEF Hosted!Reached
      <4> QED BY <1>0, <2>1, <3>2, <4>1, <4>4, CalledStaysCalled
    <3> QED BY <1>4, <2>3, <3>1, <3>2, WorkerHolds
  <2> QED BY <2>2, <2>3 DEF DueInv, Hosted!NothingEarly
<1> QED BY <1>1, <1>2, <1>3, <1>4 DEF Hosted!Next
-----------------------------------------------------------------------------
\* A post that the cycle of w owes an attempt, and where it is on the way to one.
Owed(w, p) ==
    /\ post[p].status = "PENDING" /\ post[p].retry = None
    /\ OwnerOf[p] \notin cycle[w].raised
    /\ cycle[w].now >= TakenBack /\ Hosted!Reached(p, cycle[w].now - TakenBack)
InTurn(w, p) ==
    \/ OwnerOf[p] \in cycle[w].users
    \/ cycle[w].at = "reselect" /\ OwnerOf[p] = cycle[w].user
    \/ cycle[w].at \in {"recover", "posts", "execute"} /\ p \in cycle[w].due

RetryIsDue(p, time) ==
    post[p].retry = None \/ \E t \in 0..time : post[p].retry <= Hosted!Wall(ConfigZone, t)

\* A lone cycle still has before it whatever it owes.
Serves(w) ==
    /\ \A p \in Posts : Owed(w, p) => InTurn(w, p)
    /\ cycle[w].at = "execute" => cycle[w].post \notin cycle[w].due
    /\ cycle[w].at \in {"recover", "posts", "execute"} =>
          \A p \in cycle[w].due : OwnerOf[p] = cycle[w].user /\ RetryIsDue(p, cycle[w].now)

AloneInv ==
    \A w \in Workers : cycle[w].alone /\ Hosted!Busy(w) =>
        /\ \A v \in Workers \ {w} : ~Hosted!Busy(v)
        /\ Serves(w)

LEMMA OwedIsDue ==
    ASSUME HostedTypes, NEW w \in Workers, NEW p \in Posts, Owed(w, p)
    PROVE  p \in Hosted!DuePosts(OwnerOf[p], cycle[w].now)
<1> DEFINE zone == Hosted!ZoneOf(p)
           time == cycle[w].now
<1>1. /\ time \in 0..MaxTime /\ time - TakenBack \in 0..MaxTime /\ TakenBack \in Nat
      /\ MaxOffset \in Int /\ MaxTime \in Nat
  BY HostedAssumption DEF HostedTypes, CycleState, Owed
<1>2. zone \in DOMAIN Offset /\ post[p].scheduled \in Int
  BY HostedAssumption DEF HostedTypes, PostRow, Hosted!ZoneOf
<1>3. PICK t \in 0..(time - TakenBack) : Hosted!Wall(zone, t) >= post[p].scheduled
  BY DEF Owed, Hosted!Reached
<1>4. t \in 0..MaxTime /\ t + TakenBack <= time
  BY <1>1
<1> HIDE DEF time, zone
<1>5. Hosted!Wall(zone, t) <= Hosted!Wall(zone, time)
  BY <1>1, <1>2, <1>4, HostedAssumption DEF Hosted!Wall
<1>6. /\ Hosted!Wall(zone, t) \in Int /\ Hosted!Wall(zone, time) \in Int
      /\ Hosted!Wall(zone, time) <= time + MaxOffset
  BY <1>1, <1>2, <1>4, WallIsInt
<1>7. post[p].scheduled <= Hosted!Wall(zone, time) /\ post[p].scheduled <= time + MaxOffset
  BY <1>1, <1>2, <1>3, <1>5, <1>6
<1> QED BY <1>7 DEF time, zone, Owed, Hosted!DuePosts, Hosted!Candidates

\* What has just been planned is still to come, and has not been shown before.
LEMMA PlannedIsNotOwed ==
    ASSUME HostedTypes, HostedTypes', NEW p \in Posts, Hosted!Plan(p), NEW w \in Workers
    PROVE  ~Owed(w, p)'
<1> SUFFICES ASSUME Owed(w, p)' PROVE FALSE
  OBVIOUS
<1>1. PICK r \in PostRow :
        /\ post' = [post EXCEPT ![p] = r]
        /\ r.scheduled > Hosted!Wall(IF r.zone = None THEN ConfigZone ELSE r.zone, now)
  BY PlanMoves
<1>2. post'[p] = r /\ UNCHANGED <<now, cycle>>
  BY <1>1, OtherPostsStay, PlanMoves
<1> DEFINE zone == IF r.zone = None THEN ConfigZone ELSE r.zone
           time == cycle[w].now
<1>3. /\ now \in 0..MaxTime /\ time \in Nat /\ time <= now /\ TakenBack \in Nat
      /\ time >= TakenBack /\ MaxTime \in Nat
  BY <1>2, HostedAssumption DEF HostedTypes, CycleState, Owed
<1>4. PICK t \in 0..(time - TakenBack) : Hosted!Wall(zone, t) >= r.scheduled
  BY <1>2 DEF Owed, Hosted!Reached, Hosted!ZoneOf
<1>5. zone \in DOMAIN Offset /\ r.scheduled \in Int
  BY HostedAssumption DEF PostRow
<1>6. t \in 0..MaxTime /\ t + TakenBack <= now
  BY <1>3
<1> HIDE DEF time, zone
<1>7. Hosted!Wall(zone, t) <= Hosted!Wall(zone, now)
  BY <1>3, <1>5, <1>6, HostedAssumption DEF Hosted!Wall
<1>8. Hosted!Wall(zone, t) \in Int /\ Hosted!Wall(zone, now) \in Int
  BY <1>3, <1>5, <1>6, WallIsInt
<1>9. r.scheduled > Hosted!Wall(zone, now)
  BY <1>1 DEF zone
<1> QED BY <1>4, <1>5, <1>7, <1>8, <1>9

LEMMA AloneInit == Hosted!Init => AloneInv
BY DEF Hosted!Init, AloneInv, Hosted!Asleep, Hosted!Busy

\* A lone worker's own step, and what it still owes after it.
LEMMA ServesStep ==
    ASSUME HostedTypes, HostedTypes', AloneInv, NEW w \in Workers, Hosted!WorkerStep(w),
           ~Hosted!StartCycle(w), cycle'[w].alone, Hosted!Busy(w)'
    PROVE  Serves(w)'
<1>1. cycle[w] \in CycleState /\ cycle'[w] \in CycleState /\ \A p \in Posts : OwnerOf[p] \in Users
  BY HostedAssumption DEF HostedTypes
<1>2. CASE Hosted!SelectDue(w)
  <2>1. PICK s \in CycleState, user \in Users :
          /\ UNCHANGED post
          /\ Moves(w, s) /\ Keeps(w, s) /\ s.raised = cycle[w].raised
          /\ s.user = user /\ s.due = Hosted!DuePosts(user, cycle[w].now)
          /\ \/ /\ cycle[w].at = "user" /\ s.at = "recover"
                /\ user \in cycle[w].users /\ s.users = cycle[w].users \ {user}
             \/ /\ cycle[w].at = "reselect" /\ s.at = "posts"
                /\ user = cycle[w].user /\ s.users = cycle[w].users
    BY <1>2, SelectDueMoves
  <2>2. cycle'[w] = s
    BY <2>1, OthersStay
  <2>3. Serves(w)
    BY <1>1, <2>1, <2>2 DEF AloneInv, Keeps, Hosted!Busy
  <2>4. ASSUME NEW p \in Posts, Owed(w, p)' PROVE InTurn(w, p)'
    <3>1. Owed(w, p)
      BY <2>1, <2>2, <2>4 DEF Owed, Keeps, Hosted!Reached, Hosted!ZoneOf
    <3>2. OwnerOf[p] \in cycle[w].users \/ OwnerOf[p] = user
      BY <2>1, <2>3, <3>1 DEF Serves, InTurn
    <3>3. OwnerOf[p] = user => p \in s.due
      BY <2>1, <3>1, OwedIsDue
    <3> QED BY <2>1, <2>2, <3>2, <3>3 DEF InTurn
  <2>5. ASSUME NEW p \in cycle'[w].due
        PROVE  OwnerOf[p] = cycle'[w].user /\ RetryIsDue(p, cycle[w].now)'
    <3>1. /\ OwnerOf[p] = user
          /\ post[p].retry = None \/ post[p].retry <= Hosted!Wall(ConfigZone, cycle[w].now)
      BY <2>1, <2>2, <2>5 DEF Hosted!DuePosts, Hosted!Candidates
    <3>2. cycle[w].now \in 0..cycle[w].now /\ cycle'[w].now = cycle[w].now
      BY <1>1, <2>1, <2>2 DEF CycleState, Keeps
    <3> QED BY <2>1, <2>2, <3>1, <3>2 DEF RetryIsDue
  <2> QED BY <2>1, <2>2, <2>4, <2>5 DEF Serves
<1>3. CASE Hosted!UserRaises(w) \/ Hosted!UserDone(w)
  <2>1. PICK s \in CycleState :
          /\ UNCHANGED post
          /\ Moves(w, s) /\ Keeps(w, s)
          /\ s.at = "user" /\ s.due = {} /\ s.users = cycle[w].users
          /\ \/ s.raised = cycle[w].raised \cup {cycle[w].user}
                /\ cycle[w].at \in {"recover", "posts"}
             \/ s.raised = cycle[w].raised /\ cycle[w].at = "posts" /\ cycle[w].due = {}
    BY <1>3, NextUserMoves
  <2>2. cycle'[w] = s
    BY <2>1, OthersStay
  <2>3. Serves(w)
    BY <1>1, <2>1, <2>2 DEF AloneInv, Keeps, Hosted!Busy
  <2>4. ASSUME NEW p \in Posts, Owed(w, p)' PROVE InTurn(w, p)'
    <3>1. Owed(w, p)
      BY <2>1, <2>2, <2>4 DEF Owed, Keeps, Hosted!Reached, Hosted!ZoneOf
    <3>2. OwnerOf[p] \in cycle[w].users
      BY <2>1, <2>2, <2>3, <2>4, <3>1 DEF Serves, InTurn, Owed
    <3> QED BY <2>1, <2>2, <3>2 DEF InTurn
  <2> QED BY <2>1, <2>2, <2>4 DEF Serves
<1>4. CASE Hosted!Recover(w)
  <2>1. PICK s \in CycleState :
          /\ Moves(w, s) /\ Keeps(w, s)
          /\ cycle[w].at = "recover" /\ s.user = cycle[w].user /\ s.due = cycle[w].due
          /\ s.users = cycle[w].users /\ s.raised = cycle[w].raised
          /\ s.at \in {"posts", "reselect"} /\ (s.at = "posts" => post' = post)
    BY <1>4, RecoverMoves
  <2>2. cycle'[w] = s
    BY <2>1, OthersStay
  <2>3. Serves(w)
    BY <1>1, <2>1, <2>2 DEF AloneInv, Keeps, Hosted!Busy
  <2>4. ASSUME NEW p \in Posts, Owed(w, p)' PROVE InTurn(w, p)'
    <3>1. CASE post'[p].status = post[p].status
      <4>1. Owed(w, p)
        BY <1>4, <2>1, <2>2, <2>4, <3>1, RecoverMoves
        DEF Owed, Keeps, Hosted!Reached, Hosted!ZoneOf
      <4>2. OwnerOf[p] \in cycle[w].users \/ (p \in cycle[w].due /\ OwnerOf[p] = cycle[w].user)
        BY <2>1, <2>3, <4>1 DEF Serves, InTurn
      <4> QED BY <2>1, <2>2, <4>2 DEF InTurn
    <3>2. CASE post'[p].status # post[p].status
      <4>1. OwnerOf[p] = cycle[w].user /\ s.at = "reselect"
        BY <1>4, <2>1, <3>2, RecoverMoves
      <4> QED BY <2>1, <2>2, <4>1 DEF InTurn
    <3> QED BY <3>1, <3>2
  <2>5. ASSUME s.at = "posts", NEW p \in s.due
        PROVE  OwnerOf[p] = s.user /\ RetryIsDue(p, cycle[w].now)'
    BY <2>1, <2>2, <2>3, <2>5 DEF Serves, RetryIsDue, Keeps
  <2> QED BY <2>1, <2>2, <2>4, <2>5 DEF Serves
<1>5. CASE Hosted!ClaimPost(w)
  <2>1. PICK p \in cycle[w].due, s \in CycleState :
          /\ Moves(w, s) /\ Keeps(w, s) /\ p \in Posts /\ cycle[w].at = "posts"
          /\ s.user = cycle[w].user /\ s.due = cycle[w].due \ {p}
          /\ s.users = cycle[w].users /\ s.raised = cycle[w].raised
          /\ \/ /\ s.at = "execute" /\ s.post = p
                /\ \E r \in PostRow : /\ Writes(p, r) /\ r.status = "PUBLISHING"
                                      /\ r.retry = post[p].retry
             \/ post[p].status # "PENDING" /\ s.at = "posts" /\ UNCHANGED post
    BY <1>5, ClaimPostMoves
  <2>2. cycle'[w] = s
    BY <2>1, OthersStay
  <2>3. Serves(w)
    BY <1>1, <2>1, <2>2 DEF AloneInv, Keeps, Hosted!Busy
  <2>4. /\ post'[p].status # "PENDING" /\ post'[p].retry = post[p].retry
        /\ \A q \in Posts \ {p} : post'[q] = post[q]
    BY <2>1, OtherPostsStay DEF Writes
  <2>5. ASSUME NEW q \in Posts, Owed(w, q)' PROVE InTurn(w, q)'
    <3>1. q # p
      BY <2>4, <2>5 DEF Owed
    <3>2. Owed(w, q)
      BY <2>1, <2>2, <2>4, <2>5, <3>1 DEF Owed, Keeps, Hosted!Reached, Hosted!ZoneOf
    <3>3. OwnerOf[q] \in cycle[w].users \/ q \in cycle[w].due
      BY <2>1, <2>3, <3>2 DEF Serves, InTurn
    <3> QED BY <2>1, <2>2, <3>1, <3>3 DEF InTurn
  <2>6. ASSUME NEW q \in s.due
        PROVE  OwnerOf[q] = s.user /\ RetryIsDue(q, cycle[w].now)'
    <3>1. q \in cycle[w].due /\ q \in Posts /\ q # p
      BY <1>1, <2>1, <2>6 DEF CycleState
    <3>2. OwnerOf[q] = s.user /\ RetryIsDue(q, cycle[w].now)
      BY <2>1, <2>3, <3>1 DEF Serves
    <3> QED BY <2>1, <2>2, <2>4, <3>1, <3>2 DEF RetryIsDue, Keeps
  <2> QED BY <2>1, <2>2, <2>5, <2>6 DEF Serves
<1>6. CASE Hosted!ExecutePost(w)
  <2>1. PICK s \in CycleState :
          /\ Moves(w, s) /\ Keeps(w, s) /\ s.at = "posts"
          /\ s.user = cycle[w].user /\ s.due = cycle[w].due
          /\ s.users = cycle[w].users /\ s.raised = cycle[w].raised
    BY <1>6, ExecutePostMoves
  <2>2. cycle'[w] = s /\ cycle[w].at = "execute"
    BY <1>6, <2>1, OthersStay, ExecutePostMoves
  <2>3. Serves(w)
    BY <1>1, <2>1, <2>2 DEF AloneInv, Keeps, Hosted!Busy
  <2> DEFINE p == cycle[w].post
  <2>4. /\ p \in Posts /\ p \notin cycle[w].due
        /\ ~(post'[p].status = "PENDING" /\ post'[p].retry = None)
        /\ \A q \in Posts \ {p} : post'[q] = post[q]
    BY <1>6, <2>2, <2>3, ExecutePostMoves, OtherPostsStay DEF Writes, Serves
  <2> HIDE DEF p
  <2>5. ASSUME NEW q \in Posts, Owed(w, q)' PROVE InTurn(w, q)'
    <3>1. q # p
      BY <2>4, <2>5 DEF Owed
    <3>2. Owed(w, q)
      BY <2>1, <2>2, <2>4, <2>5, <3>1 DEF Owed, Keeps, Hosted!Reached, Hosted!ZoneOf
    <3>3. OwnerOf[q] \in cycle[w].users \/ q \in cycle[w].due
      BY <2>2, <2>3, <3>2 DEF Serves, InTurn
    <3> QED BY <2>1, <2>2, <3>3 DEF InTurn
  <2>6. ASSUME NEW q \in s.due
        PROVE  OwnerOf[q] = s.user /\ RetryIsDue(q, cycle[w].now)'
    <3>1. q \in cycle[w].due /\ q \in Posts \ {p}
      BY <1>1, <2>1, <2>4, <2>6 DEF CycleState
    <3>2. OwnerOf[q] = s.user /\ RetryIsDue(q, cycle[w].now)
      BY <2>1, <2>2, <2>3, <3>1 DEF Serves
    <3> QED BY <2>1, <2>2, <2>4, <3>1, <3>2 DEF RetryIsDue, Keeps
  <2> QED BY <2>1, <2>2, <2>5, <2>6 DEF Serves
<1>7. ~(Hosted!EndCycle(w) \/ Hosted!Killed(w))
  BY AsleepMoves, OthersStay DEF Hosted!Busy
<1> QED BY <1>2, <1>3, <1>4, <1>5, <1>6, <1>7 DEF Hosted!WorkerStep

LEMMA AloneStep ==
    HostedTypes /\ HostedTypes' /\ AloneInv /\ [Hosted!Next]_(Hosted!vars) => AloneInv'
<1> SUFFICES ASSUME HostedTypes, HostedTypes', AloneInv, [Hosted!Next]_(Hosted!vars),
                    NEW w \in Workers, cycle'[w].alone, Hosted!Busy(w)'
             PROVE  /\ \A v \in Workers \ {w} : ~Hosted!Busy(v)'
                    /\ Serves(w)'
  BY DEF AloneInv
<1>1. CASE UNCHANGED <<post, cycle>>
  BY <1>1 DEF AloneInv, Hosted!Busy, Serves, Owed, InTurn, RetryIsDue, Hosted!Reached, Hosted!ZoneOf
<1>2. ASSUME NEW p \in Posts, Hosted!Plan(p)
      PROVE  (\A v \in Workers \ {w} : ~Hosted!Busy(v)') /\ Serves(w)'
  <2>1. /\ UNCHANGED cycle /\ post'[p].retry = post[p].retry
        /\ \A q \in Posts \ {p} : post'[q] = post[q]
    BY <1>2, PlanMoves, OtherPostsStay
  <2>2. (\A v \in Workers \ {w} : ~Hosted!Busy(v)) /\ Serves(w)
    BY <2>1 DEF AloneInv, Hosted!Busy
  <2>3. ASSUME NEW q \in Posts, Owed(w, q)' PROVE InTurn(w, q)'
    <3>1. q # p
      BY <1>2, <2>3, PlannedIsNotOwed
    <3>2. Owed(w, q)
      BY <2>1, <2>3, <3>1 DEF Owed, Hosted!Reached, Hosted!ZoneOf
    <3> QED BY <2>1, <2>2, <3>2 DEF Serves, InTurn
  <2>4. ASSUME NEW q \in cycle[w].due, RetryIsDue(q, cycle[w].now)
        PROVE  RetryIsDue(q, cycle[w].now)'
    <3>1. q \in Posts
      BY DEF HostedTypes, CycleState
    <3> QED BY <2>1, <2>4, <3>1 DEF RetryIsDue
  <2> QED BY <2>1, <2>2, <2>3, <2>4 DEF Serves, Hosted!Busy
<1>3. ASSUME NEW u \in Workers, Hosted!WorkerStep(u)
      PROVE  (\A v \in Workers \ {w} : ~Hosted!Busy(v)') /\ Serves(w)'
  <2>1. CASE Hosted!StartCycle(u)
    <3>1. u = w
      BY <2>1, StartCycleMoves DEF Hosted!Busy
    <3>2. \A v \in Workers \ {w} : ~Hosted!Busy(v)'
      BY <2>1, <3>1, StartCycleMoves DEF Hosted!Busy
    <3>3. \A p \in Posts : Owed(w, p)' => InTurn(w, p)'
      BY <2>1, <3>1, StartCycleMoves DEF Owed, InTurn
    <3>4. cycle'[w].at = "user"
      BY <2>1, <3>1, StartCycleMoves
    <3> QED BY <3>2, <3>3, <3>4 DEF Serves
  <2>2. CASE ~Hosted!StartCycle(u)
    <3>1. /\ Hosted!Busy(u)
          /\ \E s \in CycleState : Moves(u, s) /\ (s.at = "idle" \/ s.alone = cycle[u].alone)
      BY <1>3, <2>2, SelectDueMoves, NextUserMoves, RecoverMoves, ClaimPostMoves,
         ExecutePostMoves, AsleepMoves
      DEF Hosted!WorkerStep, Hosted!Busy, Keeps, Hosted!EndCycle, Hosted!Killed
    <3>2. \A v \in Workers \ {u} : cycle'[v] = cycle[v]
      BY <3>1, OthersStay
    <3>3. u = w
      BY <3>1, <3>2 DEF AloneInv, Hosted!Busy
    <3>4. cycle[w].alone /\ Hosted!Busy(w)
      BY <3>1, <3>3, OthersStay DEF Hosted!Busy
    <3>5. \A v \in Workers \ {w} : ~Hosted!Busy(v)'
      BY <3>2, <3>3, <3>4 DEF AloneInv, Hosted!Busy
    <3> QED BY <1>3, <2>2, <3>3, <3>5, ServesStep
  <2> QED BY <2>1, <2>2
<1>4. CASE Hosted!Tick
  BY <1>1, <1>4 DEF Hosted!Tick
<1>5. CASE UNCHANGED Hosted!vars
  BY <1>1, <1>5 DEF Hosted!vars
<1> QED BY <1>2, <1>3, <1>4, <1>5 DEF Hosted!Next

\* What CycleServesEveryUser says of a step.
ServingStep ==
    \A w \in Workers : cycle[w].alone =>
        /\ Hosted!EndCycle(w) =>
              \A p \in Posts : post[p].status = "PENDING" /\ post[p].retry = None
                               /\ cycle[w].now >= TakenBack
                               /\ OwnerOf[p] \notin cycle[w].raised
                               => ~Hosted!Reached(p, cycle[w].now - TakenBack)
        /\ \A p \in Posts : Hosted!ClaimPost(w) /\ post[p].status # post'[p].status
                               => \/ post[p].retry = None
                                  \/ \E t \in 0..now : post[p].retry <= Hosted!Wall(ConfigZone, t)

LEMMA LoneCycleServes ==
    HostedTypes /\ AloneInv /\ [Hosted!Next]_(Hosted!vars) => [ServingStep]_(Hosted!vars)
<1> SUFFICES ASSUME HostedTypes, AloneInv, NEW w \in Workers, cycle[w].alone
             PROVE  /\ Hosted!EndCycle(w) => \A p \in Posts : ~Owed(w, p)
                    /\ \A p \in Posts : Hosted!ClaimPost(w) /\ post[p].status # post'[p].status
                                           => RetryIsDue(p, now)
  BY DEF ServingStep, Owed, RetryIsDue
<1>1. ASSUME Hosted!EndCycle(w), NEW p \in Posts PROVE ~Owed(w, p)
  BY <1>1 DEF Hosted!EndCycle, AloneInv, Hosted!Busy, Serves, InTurn
<1>2. ASSUME Hosted!ClaimPost(w), NEW p \in Posts, post[p].status # post'[p].status
      PROVE  RetryIsDue(p, now)
  <2>1. p \in cycle[w].due /\ cycle[w].at = "posts"
    BY <1>2, ClaimPostMoves, OtherPostsStay DEF Writes
  <2>2. RetryIsDue(p, cycle[w].now)
    BY <2>1 DEF AloneInv, Hosted!Busy, Serves
  <2>3. 0..cycle[w].now \subseteq 0..now
    BY HostedAssumption DEF HostedTypes, CycleState
  <2> QED BY <2>2, <2>3 DEF RetryIsDue
<1> QED BY <1>1, <1>2

\* The inductive invariant of the workers' cycles.
HostedInv == HostedTypes /\ DueInv /\ AloneInv

LEMMA HostedInvHolds ==
    /\ Hosted!Init => HostedInv
    /\ HostedInv /\ [Hosted!Next]_(Hosted!vars) => HostedInv' /\ [ServingStep]_(Hosted!vars)
BY HostedTypesInit, HostedTypesStep, DueInit, DueStep, AloneInit, AloneStep, LoneCycleServes
DEF HostedInv

(***************************************************************************)
(* The status an owner is shown.                                           *)
(***************************************************************************)
Displays == {"NEEDS_ATTENTION", "FAILED", "PUBLISHING", "SCHEDULED", "PUBLISHED"}

LEMMA UrgencyIsRanked ==
    /\ DOMAIN Status!Urgency = Displays
    /\ Status!Urgency["NEEDS_ATTENTION"] = 5 /\ Status!Urgency["FAILED"] = 4
    /\ Status!Urgency["PUBLISHING"] = 3 /\ Status!Urgency["SCHEDULED"] = 2
    /\ Status!Urgency["PUBLISHED"] = 1
BY DEF Status!Urgency, Displays

Display(row) == Status!ResolvePublicationStatus(row).display

LEMMA RowIsShown ==
    ASSUME NEW row \in Status!Rows
    PROVE  /\ Display(row) \in Displays
           /\ Display(row) = "PUBLISHED" => row.status = "PUBLISHED" /\ row.id
           /\ Status!PostCanRetry(row) \/ Status!Stale(row) =>
                 Display(row) \in {"NEEDS_ATTENTION", "FAILED"}
<1>1. /\ row.status \in {"PENDING", "PUBLISHING", "PUBLISHED", "FAILED", "UNKNOWN", "odd"}
      /\ Status!Stale(row) => row.status = "PUBLISHING"
      /\ row.id \in BOOLEAN
  BY DEF Status!Rows, Status!Facts, Status!Stale
<1> USE DEF Display, Status!ResolvePublicationStatus, Status!PostCanRetry, Status!Shown,
            Status!Attention, Displays
<1>2. CASE row.status = "PENDING" BY <1>1, <1>2
<1>3. CASE row.status = "PUBLISHING" BY <1>1, <1>3
<1>4. CASE row.status = "PUBLISHED" BY <1>1, <1>4
<1>5. CASE row.status = "FAILED" BY <1>1, <1>5
<1>6. CASE row.status = "UNKNOWN" BY <1>1, <1>6
<1>7. CASE row.status = "odd" BY <1>1, <1>7
<1> QED BY <1>1, <1>2, <1>3, <1>4, <1>5, <1>6, <1>7

\* Of several posts, one is the most urgent.
LEMMA MostUrgentExists ==
    ASSUME NEW S, S # {}, \A s \in S : s.display \in Displays
    PROVE  \E display \in DOMAIN Status!Urgency :
              /\ \E s \in S : s.display = display
              /\ \A s \in S : Status!Urgency[s.display] <= Status!Urgency[display]
<1> DEFINE Has(display) == \E s \in S : s.display = display
           Top(display) == /\ Has(display)
                           /\ \A s \in S : Status!Urgency[s.display] <= Status!Urgency[display]
<1> USE UrgencyIsRanked DEF Displays
<1>1. CASE Has("NEEDS_ATTENTION")
  <2>1. Top("NEEDS_ATTENTION") BY <1>1
  <2> QED BY <2>1
<1>2. CASE ~Has("NEEDS_ATTENTION") /\ Has("FAILED")
  <2>1. Top("FAILED") BY <1>2
  <2> QED BY <2>1
<1>3. CASE ~Has("NEEDS_ATTENTION") /\ ~Has("FAILED") /\ Has("PUBLISHING")
  <2>1. Top("PUBLISHING") BY <1>3
  <2> QED BY <2>1
<1>4. CASE ~Has("NEEDS_ATTENTION") /\ ~Has("FAILED") /\ ~Has("PUBLISHING") /\ Has("SCHEDULED")
  <2>1. Top("SCHEDULED") BY <1>4
  <2> QED BY <2>1
<1>5. CASE ~Has("NEEDS_ATTENTION") /\ ~Has("FAILED") /\ ~Has("PUBLISHING") /\ ~Has("SCHEDULED")
  <2>1. Top("PUBLISHED") BY <1>5
  <2> QED BY <2>1
<1> QED BY <1>1, <1>2, <1>3, <1>4, <1>5

ShowsMostUrgent ==
    Status!TypeOK /\ slot.status = "assigned" /\ DOMAIN posts # {} =>
        /\ Status!SlotDisplay \in Displays
        /\ \E platform \in DOMAIN posts : Display(posts[platform]) = Status!SlotDisplay
        /\ \A platform \in DOMAIN posts :
              Status!Urgency[Display(posts[platform])] <= Status!Urgency[Status!SlotDisplay]

LEMMA SlotShowsMostUrgent == ShowsMostUrgent
<1> SUFFICES ASSUME Status!TypeOK, slot.status = "assigned", DOMAIN posts # {}
             PROVE  /\ Status!SlotDisplay \in Displays
                    /\ \E platform \in DOMAIN posts :
                          Display(posts[platform]) = Status!SlotDisplay
                    /\ \A platform \in DOMAIN posts :
                          Status!Urgency[Display(posts[platform])]
                              <= Status!Urgency[Status!SlotDisplay]
  BY DEF ShowsMostUrgent
<1>1. Status!Publications # {} /\ \A s \in Status!Publications : s.display \in Displays
  BY RowIsShown DEF Status!Publications, Status!TypeOK, Display
<1>2. \E display \in DOMAIN Status!Urgency :
         /\ \E s \in Status!Publications : s.display = display
         /\ \A s \in Status!Publications : Status!Urgency[s.display] <= Status!Urgency[display]
  BY <1>1, MostUrgentExists
<1>3. /\ Status!SlotDisplay \in DOMAIN Status!Urgency
      /\ \E s \in Status!Publications : s.display = Status!SlotDisplay
      /\ \A s \in Status!Publications :
            Status!Urgency[s.display] <= Status!Urgency[Status!SlotDisplay]
  BY <1>2 DEF Status!SlotDisplay
<1> QED BY <1>3, UrgencyIsRanked DEF Status!Publications, Display

LEMMA SlotShowsMostUrgentNext == ShowsMostUrgent'
BY SlotShowsMostUrgent, PTL

LEMMA NothingIsHiddenHolds == Status!TypeOK => Status!NothingIsHidden
<1> SUFFICES ASSUME Status!TypeOK, slot.status = "assigned"
             PROVE  /\ Status!SlotDisplay = "PUBLISHED" =>
                          /\ DOMAIN posts # {}
                          /\ \A platform \in DOMAIN posts :
                                posts[platform].status = "PUBLISHED" /\ posts[platform].id
                    /\ (\E platform \in DOMAIN posts :
                            Status!PostCanRetry(posts[platform]) \/ Status!Stale(posts[platform]))
                          => Status!SlotDisplay \in {"NEEDS_ATTENTION", "FAILED"}
                    /\ Status!CanRetry => ~Status!CanUnassign
                    /\ \A platform \in DOMAIN posts :
                          /\ Status!ResolvePublicationStatus(posts[platform]).hint = "EDIT_CAPTION"
                          /\ Status!IsCaptionLocked
                          => \E other \in DOMAIN posts \ {platform} :
                                Status!PostLocksCaption(posts[other])
  BY DEF Status!NothingIsHidden
<1>1. \A platform \in DOMAIN posts : posts[platform] \in Status!Rows
  BY DEF Status!TypeOK
<1>2. CASE DOMAIN posts = {}
  BY <1>2 DEF Status!SlotDisplay, Status!CanRetry
<1>3. ASSUME DOMAIN posts # {}, Status!SlotDisplay = "PUBLISHED", NEW platform \in DOMAIN posts
      PROVE  posts[platform].status = "PUBLISHED" /\ posts[platform].id
  <2>1. Display(posts[platform]) = "PUBLISHED"
    BY <1>1, <1>3, SlotShowsMostUrgent, RowIsShown, UrgencyIsRanked DEF ShowsMostUrgent, Displays
  <2> QED BY <1>1, <2>1, RowIsShown
<1>4. ASSUME NEW platform \in DOMAIN posts,
             Status!PostCanRetry(posts[platform]) \/ Status!Stale(posts[platform])
      PROVE  Status!SlotDisplay \in {"NEEDS_ATTENTION", "FAILED"}
  <2>1. Display(posts[platform]) \in {"NEEDS_ATTENTION", "FAILED"}
    BY <1>1, <1>4, RowIsShown
  <2> QED BY <2>1, SlotShowsMostUrgent, UrgencyIsRanked DEF ShowsMostUrgent, Displays
<1>5. Status!CanRetry => ~Status!CanUnassign
  BY DEF Status!CanRetry, Status!CanUnassign, Status!PostCanRetry
<1>6. ASSUME NEW platform \in DOMAIN posts,
             Status!ResolvePublicationStatus(posts[platform]).hint = "EDIT_CAPTION"
      PROVE  ~Status!PostLocksCaption(posts[platform])
  <2> DEFINE row == posts[platform]
  <2>1. /\ row.status \in {"PENDING", "PUBLISHING", "PUBLISHED", "FAILED", "UNKNOWN", "odd"}
        /\ None # "EDIT_CAPTION"
    BY <1>1, HostedAssumption DEF Status!Rows, Status!Facts
  <2> HIDE DEF row
  <2>2. /\ row.status = "FAILED"
        /\ (IF Status!ActionHint(row.code) = "EDIT_CAPTION" /\ Status!PostLocksCaption(row)
            THEN None ELSE Status!ActionHint(row.code)) = "EDIT_CAPTION"
    BY <1>6, <2>1
    DEF Status!ResolvePublicationStatus, Status!Shown, Status!Attention, row
  <2> QED BY <2>1, <2>2 DEF row
<1>7. ASSUME NEW platform \in DOMAIN posts,
             Status!ResolvePublicationStatus(posts[platform]).hint = "EDIT_CAPTION",
             Status!IsCaptionLocked
      PROVE  \E other \in DOMAIN posts \ {platform} : Status!PostLocksCaption(posts[other])
  BY <1>6, <1>7 DEF Status!IsCaptionLocked
<1> QED BY <1>2, <1>3, <1>4, <1>5, <1>7

\* The categories do not overlap where it matters: a code has the hint of the
\* category that lists it.
LEMMA HintsOfCodes ==
    /\ \A code \in {"NETWORK_ERROR", "UPLOAD_NETWORK_ERROR", "CREDENTIAL_REFRESH_BUSY"} :
          Status!ActionHint(code) = "TRY_AGAIN_LATER"
    /\ Status!ActionHint("STORAGE_NETWORK_ERROR") = None
    /\ \A code \in {"AUTH_ERROR", "REAUTHORIZATION_REQUIRED"} :
          Status!ActionHint(code) = "RECONNECT_ACCOUNT"
<1> DEFINE Categories == {"AUTH_REQUIRED", "CAPTION_INVALID", "MEDIA_INVALID", "MEDIA_UNAVAILABLE",
                          "PLATFORM_REJECTED", "RATE_LIMITED", "TEMPORARY_PLATFORM_ERROR",
                          "NETWORK_ERROR"}
           Listed(code, category) == /\ category \in Categories
                                     /\ code \in Status!CodesOf[category]
                                     /\ \A other \in Categories : code \in Status!CodesOf[other]
                                                                     => other = category
<1>1. DOMAIN Status!CodesOf = Categories
  BY DEF Status!CodesOf
<1>2. /\ Listed("NETWORK_ERROR", "NETWORK_ERROR")
      /\ Listed("UPLOAD_NETWORK_ERROR", "NETWORK_ERROR")
  BY DEF Status!CodesOf
<1>3. Listed("CREDENTIAL_REFRESH_BUSY", "TEMPORARY_PLATFORM_ERROR")
  BY DEF Status!CodesOf
<1>4. Listed("STORAGE_NETWORK_ERROR", "MEDIA_UNAVAILABLE")
  BY DEF Status!CodesOf
<1>5. Listed("AUTH_ERROR", "AUTH_REQUIRED") /\ Listed("REAUTHORIZATION_REQUIRED", "AUTH_REQUIRED")
  BY DEF Status!CodesOf
<1>6. ASSUME NEW code, NEW category, Listed(code, category)
      PROVE  Status!CategorizeFailure(code) = category
  <2>1. code \in Status!Known
    BY <1>1, <1>6 DEF Status!Known
  <2>2. \A other \in DOMAIN Status!CodesOf : code \in Status!CodesOf[other] <=> other = category
    BY <1>1, <1>6
  <2> HIDE DEF Categories
  <2>3. category \in DOMAIN Status!CodesOf
    BY <1>1, <1>6
  <2> QED BY <2>1, <2>2, <2>3 DEF Status!CategorizeFailure
<1> HIDE DEF Listed
<1> QED BY <1>2, <1>3, <1>4, <1>5, <1>6 DEF Status!ActionHint

LEMMA RetriesAskNobodyHolds == Status!RetriesAskNobody
<1>1. None \notin {"RECONNECT_ACCOUNT", "EDIT_CAPTION"}
  BY HostedAssumption
<1> QED BY <1>1, HintsOfCodes
        DEF Status!RetriesAskNobody, Status!IsRetryable, Status!Retryable, Status!Terminal

LEMMA StatusTypesHold ==
    /\ Status!Init => Status!TypeOK
    /\ Status!TypeOK /\ [Status!Next]_(Status!vars) => Status!TypeOK'
<1>1. Status!Init => Status!TypeOK
  BY DEF Status!Init, Status!TypeOK
<1>2. ASSUME Status!TypeOK, Status!Next PROVE Status!TypeOK'
  <2>1. clock' \in 0..MaxTime /\ UNCHANGED <<slot, posts>>
    BY <1>2, HostedAssumption DEF Status!Next, Status!Elapse, Status!TypeOK
  <2> QED BY <1>2, <2>1 DEF Status!TypeOK
<1>3. ASSUME Status!TypeOK, UNCHANGED Status!vars PROVE Status!TypeOK'
  BY <1>3 DEF Status!vars, Status!TypeOK
<1> QED BY <1>1, <1>2, <1>3

\* A wall that the display of the slot reads is put back.
PutBack == \E zone \in {Status!SlotZone, OwnerZone} : Status!Wall(zone)' < Status!Wall(zone)

\* What OnlyLatenessIsTakenBack says of a step.
LatenessStep ==
    slot.status = "assigned" /\ DOMAIN posts # {}
    /\ Status!Urgency[Status!SlotDisplay'] < Status!Urgency[Status!SlotDisplay]
        => /\ PutBack
           /\ \A platform \in DOMAIN posts :
                 Display(posts[platform]) = Status!SlotDisplay
                    => posts[platform].status = "PENDING"

\* Time alone takes a row only up the scale of urgency, unless it is PENDING and a
\* wall is put back.
LEMMA LaterIsUrgent ==
    ASSUME Status!TypeOK, Status!TypeOK', Status!Elapse, NEW row \in Status!Rows,
           row.status # "PENDING" \/ ~PutBack
    PROVE  Status!Urgency[Display(row)'] >= Status!Urgency[Display(row)]
<1>1. clock \in Int /\ clock' \in Int /\ clock < clock' /\ slot' = slot
  BY HostedAssumption DEF Status!TypeOK, Status!Elapse
<1>2. row \in Status!Facts
  BY DEF Status!Rows
<1>3. Status!Stale(row) => Status!Stale(row)'
  <2>1. row.progress \in Int /\ StaleAfter \in Int
    BY <1>2, HostedAssumption DEF Status!Facts
  <2> QED BY <1>1, <2>1 DEF Status!Stale
<1>4. ~PutBack => /\ Status!Overdue => Status!Overdue'
                  /\ Status!RetryPending(row)' => Status!RetryPending(row)
  <2>1. /\ Status!SlotZone \in DOMAIN Offset /\ OwnerZone \in DOMAIN Offset
        /\ Status!SlotZone' = Status!SlotZone
    BY <1>1, HostedAssumption DEF Status!TypeOK, Status!SlotZone, Status!Zones
  <2>2. \A zone \in DOMAIN Offset : Status!Wall(zone) \in Int /\ Status!Wall(zone)' \in Int
    BY HostedAssumption DEF Status!Wall, Status!TypeOK
  <2>3. slot.due \in Int /\ Grace \in Int
    <3>1. slot.due \in Schedule
      BY DEF Status!TypeOK
    <3>2. Schedule \subseteq Int /\ Grace \in Int
      BY HostedAssumption
    <3> QED BY <3>1, <3>2
  <2>4. row.next # None => row.next \in Int
    BY <1>2, HostedAssumption DEF Status!Facts
  <2>5. ASSUME NEW zone \in DOMAIN Offset, ~PutBack,
               zone = Status!SlotZone \/ zone = OwnerZone
        PROVE  Status!Wall(zone)' >= Status!Wall(zone)
    <3>1. ~(Status!Wall(zone)' < Status!Wall(zone))
      BY <2>5 DEF PutBack
    <3> QED BY <2>2, <3>1
  <2>6. ASSUME ~PutBack, Status!Overdue PROVE Status!Overdue'
    <3>1. PICK zone \in DOMAIN Offset : zone = Status!SlotZone
      BY <2>1
    <3>2. slot.due + Grace < Status!Wall(zone)
      BY <2>6, <3>1 DEF Status!Overdue
    <3>3. slot.due + Grace < Status!Wall(zone)'
      BY <2>2, <2>3, <2>5, <2>6, <3>1, <3>2
    <3>4. Status!Wall(Status!SlotZone)' = Status!Wall(zone)'
      BY <2>1, <3>1 DEF Status!Wall
    <3> QED BY <1>1, <3>3, <3>4 DEF Status!Overdue
  <2>7. ASSUME ~PutBack, Status!RetryPending(row)' PROVE Status!RetryPending(row)
    BY <2>1, <2>2, <2>4, <2>5, <2>7 DEF Status!RetryPending
  <2> QED BY <2>6, <2>7
<1>5. row.status \in {"PENDING", "PUBLISHING", "PUBLISHED", "FAILED", "UNKNOWN", "odd"}
  BY <1>2 DEF Status!Facts
<1> USE UrgencyIsRanked DEF Display, Status!ResolvePublicationStatus, Status!Shown, Status!Attention
<1>6. CASE row.status = "PENDING" BY <1>4, <1>6
<1>7. CASE row.status = "PUBLISHING" BY <1>3, <1>7
<1>8. CASE row.status = "PUBLISHED" BY <1>8
<1>9. CASE row.status = "FAILED" BY <1>9
<1>10. CASE row.status = "UNKNOWN" BY <1>10
<1>11. CASE row.status = "odd" BY <1>11
<1> QED BY <1>5, <1>6, <1>7, <1>8, <1>9, <1>10, <1>11

RowsAreShown == \A row \in Status!Rows : Display(row) \in Displays

LEMMA RowsAreShownNext == RowsAreShown'
<1>1. RowsAreShown
  BY RowIsShown DEF RowsAreShown
<1> QED BY <1>1, PTL

\* A post that the slot shows, and that is not taken back, keeps the slot as urgent.
LEMMA ClockUrges ==
    Status!TypeOK /\ Status!TypeOK' /\ [Status!Next]_(Status!vars) => [LatenessStep]_(Status!vars)
<1> SUFFICES ASSUME Status!TypeOK, Status!TypeOK', Status!Elapse, slot.status = "assigned",
                    DOMAIN posts # {}, NEW platform \in DOMAIN posts,
                    Display(posts[platform]) = Status!SlotDisplay,
                    posts[platform].status # "PENDING" \/ ~PutBack
             PROVE  ~(Status!Urgency[Status!SlotDisplay'] < Status!Urgency[Status!SlotDisplay])
  BY SlotShowsMostUrgent DEF LatenessStep, Status!Next, ShowsMostUrgent
<1>1. posts' = posts /\ slot' = slot
  BY DEF Status!Elapse
<1>2. posts[platform] \in Status!Rows
  BY DEF Status!TypeOK
<1>3. PICK row \in Status!Rows : row = posts[platform]
  BY <1>2
<1>4. Status!Urgency[Display(row)'] >= Status!Urgency[Display(row)]
  BY <1>3, LaterIsUrgent
<1>5. Display(posts[platform])' = Display(row)'
  BY <1>1, <1>3 DEF Display
<1>6. Status!Urgency[Display(row)'] <= Status!Urgency[Status!SlotDisplay'] /\ Status!SlotDisplay' \in Displays
  BY <1>1, <1>5, SlotShowsMostUrgentNext DEF ShowsMostUrgent
<1>7. Display(row) = Status!SlotDisplay /\ Display(row) \in Displays /\ Display(row)' \in Displays
  BY <1>3, RowIsShown, RowsAreShownNext DEF RowsAreShown
<1>8. \A display \in Displays : Status!Urgency[display] \in Int
  BY UrgencyIsRanked DEF Displays
<1> HIDE DEF Displays
<1> QED BY <1>4, <1>6, <1>7, <1>8

(***************************************************************************)
(* The calendar tools.                                                     *)
(***************************************************************************)
Commands == {"none", "generate", "clear", "clear_all", "clear_named"}
Steps == {"idle", "authorize", "state", "find", "create", "save", "resolved", "named", "push",
          "slot", "clear", "event", "delete"}
Command == [name : Commands, at : Steps, target : Calendars \cup {None}, todo : SUBSET Times,
            open : SUBSET Times, event : 0..MaxEvents]
SlotRow == [status : {"absent", "OPEN", "ASSIGNED"}, event : 0..MaxEvents]

\* The calendar a command writes to exists, and the one it saves is the app's.
CalendarTypes ==
    /\ calendars \subseteq Calendars /\ saved \in AppCalendars \cup {None}
    /\ events \subseteq [id : 1..MaxEvents, calendar : Calendars, time : Times]
    /\ slots \in [Times -> SlotRow]
    /\ slotOf \in [Videos -> Times \cup {None}]
    /\ cmd \in Command
    /\ cmd.at = "save" => cmd.target \in AppCalendars
    /\ cmd.at \in {"resolved", "push", "slot"} => cmd.target \in Calendars

\* A command is about to create a calendar only while none of the app exists.
CreatedInv ==
    /\ created = 0 \/ (created = 1 /\ calendars \cap AppCalendars # {})
    /\ cmd.at = "create" => created = 0

LEMMA IdleIsCommand == NoCommand \in Command /\ NoCommand.at = "idle"
BY CalendarAssumption DEF NoCommand, Command, Commands, Steps

LEMMA CalendarInit == Init => CalendarTypes /\ CreatedInv /\ VideoHasItsSlot
<1> SUFFICES ASSUME Init PROVE CalendarTypes /\ CreatedInv /\ VideoHasItsSlot
  OBVIOUS
<1>1. NoSlot \in SlotRow
  BY CalendarAssumption DEF NoSlot, SlotRow
<1> QED BY <1>1, IdleIsCommand, CalendarAssumption
        DEF Init, CalendarTypes, CreatedInv, VideoHasItsSlot

LEMMA CalendarTypesStep == CalendarTypes /\ [Next]_vars => CalendarTypes'
<1> SUFFICES ASSUME CalendarTypes, [Next]_vars PROVE CalendarTypes'
  OBVIOUS
<1> USE CalendarAssumption, IdleIsCommand
    DEF CalendarTypes, SavedStay, RowsStay, EndCommand, AppCalendars, First
<1>1. CASE UNCHANGED vars BY <1>1 DEF vars
<1>2. CASE StartCommand
  <2>1. cmd' \in Command /\ (cmd'.at = "resolved" => cmd'.target = Named)
        /\ cmd'.at \notin {"save", "push", "slot"}
    <3>1. CASE \E name \in {"generate", "clear", "clear_all"} :
                  cmd' = [NoCommand EXCEPT !.name = name, !.at = "authorize"]
      BY <3>1 DEF Command, Commands, Steps
    <3>2. CASE cmd' = [NoCommand EXCEPT !.name = "generate", !.at = "resolved", !.target = Named]
      BY <3>2 DEF Command, Commands, Steps
    <3>3. CASE cmd' = [NoCommand EXCEPT !.name = "clear_named", !.at = "named", !.target = Named]
      BY <3>3 DEF Command, Commands, Steps
    <3> QED BY <1>2, <3>1, <3>2, <3>3 DEF StartCommand
  <2> QED BY <1>2, <2>1 DEF StartCommand
<1>3. CASE Authorize BY <1>3 DEF Authorize, Command, Commands, Steps
<1>4. CASE CheckSaved BY <1>4 DEF CheckSaved, Command, Commands, Steps
<1>5. CASE FindExisting BY <1>5 DEF FindExisting, Command, Commands, Steps
<1>6. CASE CreateCalendar BY <1>6 DEF CreateCalendar, Command, Commands, Steps
<1>7. CASE SaveState BY <1>7 DEF SaveState, Command, Commands, Steps
<1>8. CASE StartPush
  <2>1. PICK past \in Times \cup {0} :
          cmd' = [cmd EXCEPT !.at = "push", !.todo = {t \in Times : t > past}]
    BY <1>8 DEF StartPush
  <2> DEFINE todo == {t \in Times : t > past}
  <2>2. todo \in SUBSET Times /\ cmd' = [cmd EXCEPT !.at = "push", !.todo = todo]
    BY <2>1
  <2> HIDE DEF todo
  <2>3. cmd' \in Command /\ cmd'.at = "push" /\ cmd'.target = cmd.target
    BY <2>2 DEF Command, Steps
  <2> QED BY <1>8, <2>3 DEF StartPush
<1>9. CASE InsertEvent
  <2>1. PICK t \in First, id \in 1..MaxEvents :
          /\ events' = events \cup {[id |-> id, calendar |-> cmd.target, time |-> t]}
          /\ cmd' = [cmd EXCEPT !.at = "slot", !.event = id]
    BY <1>9 DEF InsertEvent
  <2>2. [id |-> id, calendar |-> cmd.target, time |-> t]
          \in [id : 1..MaxEvents, calendar : Calendars, time : Times]
    BY <1>9 DEF InsertEvent, Command
  <2>3. cmd' \in Command /\ cmd'.at = "slot" /\ cmd'.target = cmd.target
    <3>1. id \in 0..MaxEvents
      OBVIOUS
    <3> QED BY <2>1, <3>1 DEF Command, Steps
  <2> QED BY <1>9, <2>1, <2>2, <2>3 DEF InsertEvent
<1>10. CASE InsertSlot
  <2>1. UNCHANGED <<calendars, saved, events, slotOf>> /\ cmd.target \in Calendars
        /\ \E todo \in SUBSET Times :
              cmd' = [cmd EXCEPT !.at = "push", !.todo = todo, !.event = 0]
    BY <1>10 DEF InsertSlot, Command
  <2>2. cmd' \in Command /\ cmd'.at = "push" /\ cmd'.target \in Calendars
    <3>1. 0 \in 0..MaxEvents
      OBVIOUS
    <3> QED BY <2>1, <3>1 DEF Command, Steps
  <2>3. slots' \in [Times -> SlotRow]
    BY <1>10 DEF InsertSlot, SlotRow, Command
  <2> QED BY <2>1, <2>2, <2>3
<1>11. CASE EventRefused BY <1>11 DEF EventRefused, Command, Commands, Steps
<1>12. CASE Done BY <1>12 DEF Done
<1>13. CASE ListSlots BY <1>13 DEF ListSlots, Command, Commands, Steps
<1>14. CASE UnassignVideo BY <1>14 DEF UnassignVideo, Command, Commands, Steps
<1>15. CASE DeleteEvent
  <2>1. cmd' \in Command /\ cmd'.at = "delete"
    BY <1>15 DEF DeleteEvent, Command, Steps
  <2>2. events' \subseteq events
    BY <1>15 DEF DeleteEvent
  <2> QED BY <1>15, <2>1, <2>2 DEF DeleteEvent
<1>16. CASE DeleteSlot
  <2>1. NoSlot \in SlotRow
    BY DEF NoSlot, SlotRow
  <2>2. PICK t \in First :
          \/ EndCommand /\ UNCHANGED slots
          \/ /\ slots' = [slots EXCEPT ![t] = NoSlot]
             /\ cmd' = [cmd EXCEPT !.at = "clear", !.todo = @ \ {t}]
    BY <1>16 DEF DeleteSlot
  <2>3. CASE EndCommand /\ UNCHANGED slots
    BY <1>16, <2>3 DEF DeleteSlot
  <2>4. CASE /\ slots' = [slots EXCEPT ![t] = NoSlot]
             /\ cmd' = [cmd EXCEPT !.at = "clear", !.todo = @ \ {t}]
    <3>1. slots' \in [Times -> SlotRow]
      BY <2>1, <2>4
    <3>2. cmd' \in Command /\ cmd'.at = "clear"
      BY <2>4 DEF Command, Steps
    <3> QED BY <1>16, <3>1, <3>2 DEF DeleteSlot
  <2> QED BY <2>2, <2>3, <2>4
<1>17. CASE ClearNamed BY <1>17 DEF ClearNamed
<1>18. CASE CommandDies BY <1>18 DEF CommandDies
<1>19. CASE LoseState BY <1>19 DEF LoseState
<1>20. ASSUME NEW v \in Videos, Assign(v) \/ Unassign(v) PROVE CalendarTypes'
  BY <1>20 DEF Assign, Unassign, SlotRow
<1> QED
  BY <1>1, <1>2, <1>3, <1>4, <1>5, <1>6, <1>7, <1>8, <1>9, <1>10, <1>11, <1>12, <1>13, <1>14,
     <1>15, <1>16, <1>17, <1>18, <1>19, <1>20
  DEF Next

LEMMA CreatedStep == CalendarTypes /\ CreatedInv /\ [Next]_vars => CreatedInv'
<1> SUFFICES ASSUME CalendarTypes, CreatedInv, [Next]_vars PROVE CreatedInv'
  OBVIOUS
<1> USE IdleIsCommand DEF CreatedInv, CalendarTypes, Command, SavedStay, EndCommand
<1>1. CASE StartCommand BY <1>1 DEF StartCommand
<1>2. CASE Authorize BY <1>2 DEF Authorize
<1>3. CASE CheckSaved BY <1>3 DEF CheckSaved
<1>4. CASE FindExisting
  <2>1. created' = created /\ calendars' = calendars
    BY <1>4 DEF FindExisting
  <2>2. CASE \E c \in calendars \cap AppCalendars :
                cmd' = [cmd EXCEPT !.at = "save", !.target = c]
    BY <2>1, <2>2
  <2>3. CASE calendars \cap AppCalendars = {} /\ cmd' = [cmd EXCEPT !.at = "create"]
    BY <2>1, <2>3
  <2>4. CASE EndCommand
    BY <2>1, <2>4
  <2> QED BY <1>4, <2>2, <2>3, <2>4 DEF FindExisting
<1>5. CASE CreateCalendar BY <1>5 DEF CreateCalendar
<1>6. CASE SaveState BY <1>6 DEF SaveState
<1>7. CASE UNCHANGED <<calendars, created>> /\ (UNCHANGED cmd \/ EndCommand)
  BY <1>7
<1>8. CASE StartPush BY <1>7, <1>8 DEF StartPush
<1>9. CASE InsertEvent BY <1>7, <1>9 DEF InsertEvent
<1>10. CASE InsertSlot BY <1>7, <1>10 DEF InsertSlot
<1>11. CASE EventRefused BY <1>7, <1>11 DEF EventRefused
<1>12. CASE Done BY <1>7, <1>12 DEF Done
<1>13. CASE ListSlots BY <1>7, <1>13 DEF ListSlots
<1>14. CASE UnassignVideo BY <1>7, <1>14 DEF UnassignVideo
<1>15. CASE DeleteEvent BY <1>7, <1>15 DEF DeleteEvent
<1>16. CASE DeleteSlot BY <1>7, <1>16 DEF DeleteSlot
<1>17. CASE ClearNamed BY <1>7, <1>17 DEF ClearNamed
<1>18. CASE CommandDies BY <1>7, <1>18 DEF CommandDies
<1>19. CASE LoseState BY <1>7, <1>19 DEF LoseState
<1>20. ASSUME NEW v \in Videos, Assign(v) \/ Unassign(v) PROVE CreatedInv'
  BY <1>7, <1>20 DEF Assign, Unassign
<1>21. CASE UNCHANGED vars BY <1>7, <1>21 DEF vars
<1> QED
  BY <1>1, <1>2, <1>3, <1>4, <1>5, <1>6, <1>8, <1>9, <1>10, <1>11, <1>12, <1>13,
     <1>14, <1>15, <1>16, <1>17, <1>18, <1>19, <1>20, <1>21
  DEF Next

LEMMA SlotsStep == CalendarTypes /\ VideoHasItsSlot /\ [Next]_vars => VideoHasItsSlot'
<1> SUFFICES ASSUME CalendarTypes, VideoHasItsSlot, [Next]_vars PROVE VideoHasItsSlot'
  OBVIOUS
<1> USE CalendarAssumption DEF CalendarTypes, SlotRow, First, Command, VideoHasItsSlot
<1>1. CASE RowsStay BY <1>1 DEF RowsStay
<1>2. CASE InsertSlot BY <1>2 DEF InsertSlot
<1>3. CASE UnassignVideo BY <1>3 DEF UnassignVideo
<1>4. CASE DeleteSlot BY <1>4 DEF DeleteSlot, NoSlot
<1>5. ASSUME NEW v \in Videos, Assign(v) PROVE VideoHasItsSlot'
  BY <1>5 DEF Assign
<1>6. ASSUME NEW v \in Videos, Unassign(v) PROVE VideoHasItsSlot'
  BY <1>6 DEF Unassign
<1>7. CASE UNCHANGED vars BY <1>7 DEF vars
<1>8. CASE StartCommand \/ Authorize \/ CheckSaved \/ FindExisting \/ CreateCalendar
  BY <1>1, <1>8 DEF StartCommand, Authorize, CheckSaved, FindExisting, CreateCalendar
<1>9. CASE SaveState \/ StartPush \/ InsertEvent \/ EventRefused \/ Done
  BY <1>1, <1>9 DEF SaveState, StartPush, InsertEvent, EventRefused, Done
<1>10. CASE ListSlots \/ DeleteEvent \/ ClearNamed \/ CommandDies \/ LoseState
  BY <1>1, <1>10 DEF ListSlots, DeleteEvent, ClearNamed, CommandDies, LoseState
<1> QED BY <1>2, <1>3, <1>4, <1>5, <1>6, <1>7, <1>8, <1>9, <1>10 DEF Next

\* The inductive invariant of the calendar tools.
CalendarInv == CalendarTypes /\ CreatedInv /\ VideoHasItsSlot

LEMMA CalendarInvHolds ==
    /\ Init => CalendarInv
    /\ CalendarInv /\ [Next]_vars => CalendarInv'
BY CalendarInit, CalendarTypesStep, CreatedStep, SlotsStep DEF CalendarInv

(***************************************************************************)
(* The month of the command line: sums over the pillars.                   *)
(***************************************************************************)
\* Of natural numbers there is a first.
LEMMA LeastNatural ==
    ASSUME NEW T \in SUBSET Nat, T # {}
    PROVE  \E n \in T : \A m \in T : n <= m
<1> DEFINE Initial == {1 .. n : n \in T}
<1>1. Initial \subseteq FiniteSubsetsOf(Nat) /\ Initial # {}
  <2>1. ASSUME NEW n \in T PROVE 1 .. n \in SUBSET Nat /\ IsFiniteSet(1 .. n)
    BY FS_Interval
  <2> QED BY <2>1 DEF FiniteSubsetsOf
<1>2. PICK U \in Initial : \A V \in Initial : <<V, U>> \notin StrictSubsetOrdering(Nat)
  BY <1>1, WFMin, FS_StrictSubsetOrderingWellFounded
<1>3. PICK n \in T : U = 1 .. n
  OBVIOUS
<1>4. ASSUME NEW m \in T, m < n PROVE FALSE
  <2>1. 1 .. m \in Initial /\ <<1 .. m, 1 .. n>> \notin StrictSubsetOrdering(Nat)
    BY <1>2, <1>3
  <2>2. n \in Nat /\ m \in Nat /\ 1 .. m \in SUBSET Nat /\ 1 .. n \in SUBSET Nat
    OBVIOUS
  <2>3. 1 .. m \subseteq 1 .. n /\ n \in 1 .. n /\ n \notin 1 .. m
    BY <1>4, <2>2
  <2>4. <<1 .. m, 1 .. n>> \in (SUBSET Nat) \X (SUBSET Nat) /\ 1 .. m # 1 .. n
    BY <2>2, <2>3
  <2> QED BY <2>1, <2>3, <2>4 DEF StrictSubsetOrdering
<1> QED BY <1>4

\* Induction up to n, with a set for the statement.
LEMMA Induction ==
    ASSUME NEW n \in Nat, NEW S, 0 \in S, \A i \in 0 .. n - 1 : i \in S => i + 1 \in S
    PROVE  \A i \in 0 .. n : i \in S
<1> DEFINE Left == {i \in 0 .. n : i \notin S}
<1> SUFFICES ASSUME Left # {} PROVE FALSE
  OBVIOUS
<1>1. Left \in SUBSET Nat
  OBVIOUS
<1>2. PICK i \in Left : \A j \in Left : i <= j
  BY <1>1, LeastNatural
<1>3. i # 0 /\ i \in 1 .. n
  OBVIOUS
<1>4. i - 1 \in 0 .. n - 1 /\ i - 1 \notin Left
  BY <1>2, <1>3
<1> QED BY <1>3, <1>4

-----------------------------------------------------------------------------
\* A number of each pillar.
Ledger == [1..NumPillars -> Int]
Mixes(h, a, f, b, g) == \A p \in 1..NumPillars : h[p] = a * f[p] + b * g[p]
Covers(g, f) == \A p \in 1..NumPillars : f[p] <= g[p]
DiffersAt(p, f, h) == \A q \in 1..NumPillars : q # p => h[q] = f[q]
IsFlat(h, x) == \A p \in 1..NumPillars : h[p] = x

\* SumOf, by its partial sums.
Sums(f) ==
    {g \in [0..NumPillars -> Int] :
        g[0] = 0 /\ \A i \in 1..NumPillars : g[i] = g[i - 1] + f[i]}

LEMMA SumsExist ==
    ASSUME NEW f \in Ledger
    PROVE  \E g \in Sums(f) : TRUE
<1> USE DEF Ledger
<1> DEFINE Upto(n) == {g \in [0..n -> Int] : g[0] = 0 /\ \A i \in 1..n : g[i] = g[i - 1] + f[i]}
<1> DEFINE S == {n \in 0..NumPillars : Upto(n) # {}}
<1>1. 0 \in S
  <2>1. [i \in 0..0 |-> 0] \in Upto(0)
    OBVIOUS
  <2> QED BY <2>1, CadenceAssumption
<1>2. ASSUME NEW n \in 0..NumPillars - 1, n \in S PROVE n + 1 \in S
  <2>1. PICK g \in Upto(n) : TRUE
    BY <1>2
  <2> DEFINE h == [i \in 0..n + 1 |-> IF i = n + 1 THEN g[n] + f[n + 1] ELSE g[i]]
  <2>0. n \in Nat /\ n + 1 \in 1..NumPillars /\ f[n + 1] \in Int
    BY CadenceAssumption
  <2>2. h \in [0..n + 1 -> Int] /\ h[0] = 0
    BY <2>0, <2>1
  <2>3. ASSUME NEW i \in 1..n + 1 PROVE h[i] = h[i - 1] + f[i]
    BY <2>0, <2>1
  <2>4. h \in Upto(n + 1)
    BY <2>2, <2>3
  <2>5. Upto(n + 1) # {}
    BY <2>4
  <2> HIDE DEF Upto
  <2> QED BY <2>0, <2>5
<1>3. \A n \in 0..NumPillars : n \in S
  <2> HIDE DEF S
  <2> QED BY <1>1, <1>2, Induction, CadenceAssumption
<1>4. Upto(NumPillars) # {}
  <2> HIDE DEF Upto
  <2> QED BY <1>3, CadenceAssumption
<1> QED BY <1>4 DEF Sums

LEMMA SumsAgree ==
    ASSUME NEW f, NEW g \in Sums(f), NEW h,
           h[0] = 0, \A i \in 1..NumPillars : h[i] = h[i - 1] + f[i]
    PROVE  \A i \in 0..NumPillars : g[i] = h[i]
<1> DEFINE S == {i \in 0..NumPillars : g[i] = h[i]}
<1>1. 0 \in S
  BY CadenceAssumption DEF Sums
<1>2. ASSUME NEW i \in 0..NumPillars - 1, i \in S PROVE i + 1 \in S
  <2>1. i + 1 \in 1..NumPillars /\ (i + 1) - 1 = i
    BY CadenceAssumption
  <2>2. g[i + 1] = g[i] + f[i + 1] /\ h[i + 1] = h[i] + f[i + 1]
    BY <2>1 DEF Sums
  <2> QED BY <1>2, <2>1, <2>2
<1>3. \A i \in 0..NumPillars : i \in S
  <2> HIDE DEF S
  <2> QED BY <1>1, <1>2, Induction, CadenceAssumption
<1> QED BY <1>3

\* SumOf is the last of the partial sums.
LEMMA SumIsLast ==
    ASSUME NEW f \in Ledger, NEW g \in Sums(f)
    PROVE  Month!SumOf(f) = g[NumPillars] /\ Month!SumOf(f) \in Int
<1> USE DEF Ledger
<1> DEFINE Sum(h) == h = [i \in 0..NumPillars |-> IF i = 0 THEN 0 ELSE h[i - 1] + f[i]]
<1>1. Sum(g)
  <2>1. \A i \in 0..NumPillars : g[i] = IF i = 0 THEN 0 ELSE g[i - 1] + f[i]
    BY CadenceAssumption DEF Sums
  <2> QED BY <2>1 DEF Sums
<1>2. Sum(CHOOSE h : Sum(h))
  <2> HIDE DEF Sum
  <2> QED BY <1>1
<1> DEFINE c == CHOOSE h : Sum(h)
<1>3. Month!SumOf(f) = c[NumPillars]
  BY DEF Month!SumOf
<1>4. c[NumPillars] = g[NumPillars]
  <2>1. c[0] = 0 /\ \A i \in 1..NumPillars : c[i] = c[i - 1] + f[i]
    <3>1. c = [i \in 0..NumPillars |-> IF i = 0 THEN 0 ELSE c[i - 1] + f[i]]
      BY <1>2
    <3> HIDE DEF c
    <3> QED BY <3>1, CadenceAssumption
  <2> HIDE DEF c
  <2> QED BY <2>1, SumsAgree, CadenceAssumption
<1> QED BY <1>3, <1>4, CadenceAssumption DEF Sums

LEMMA Distributes ==
    ASSUME NEW a \in Int, NEW x \in Int, NEW y \in Int
    PROVE  a * (x + y) = a * x + a * y /\ a * x \in Int /\ a * y \in Int
OBVIOUS

\* Sums are linear, ...
LEMMA SumLinear ==
    ASSUME NEW f \in Ledger, NEW g \in Ledger,
           NEW a \in Int, NEW b \in Int,
           NEW h \in Ledger,
           Mixes(h, a, f, b, g)
    PROVE  Month!SumOf(h) = a * Month!SumOf(f) + b * Month!SumOf(g)
<1> USE DEF Ledger, Mixes
<1>1. PICK F \in Sums(f) : TRUE
  BY SumsExist
<1>2. PICK G \in Sums(g) : TRUE
  BY SumsExist
<1> DEFINE H == [i \in 0..NumPillars |-> a * F[i] + b * G[i]]
<1>4. H \in Sums(h)
  <2>1. H \in [0..NumPillars -> Int] /\ H[0] = 0
    BY CadenceAssumption DEF Sums
  <2>2. ASSUME NEW i \in 1..NumPillars PROVE H[i] = H[i - 1] + h[i]
    <3>1. i \in 0..NumPillars /\ i - 1 \in 0..NumPillars
      BY CadenceAssumption
    <3>2. F[i] = F[i - 1] + f[i] /\ G[i] = G[i - 1] + g[i]
      BY DEF Sums
    <3>3. F[i - 1] \in Int /\ G[i - 1] \in Int /\ f[i] \in Int /\ g[i] \in Int
      BY <3>1 DEF Sums
    <3>4. /\ a * F[i] = a * F[i - 1] + a * f[i] /\ b * G[i] = b * G[i - 1] + b * g[i]
          /\ a * F[i - 1] \in Int /\ a * f[i] \in Int /\ b * G[i - 1] \in Int /\ b * g[i] \in Int
      <4> DEFINE F1 == F[i - 1]
                 G1 == G[i - 1]
                 fi == f[i]
                 gi == g[i]
      <4> HIDE DEF F1, G1, fi, gi
      <4>1. F1 \in Int /\ G1 \in Int /\ fi \in Int /\ gi \in Int
        BY <3>3 DEF F1, G1, fi, gi
      <4>2. F[i] = F1 + fi /\ G[i] = G1 + gi
        BY <3>2 DEF F1, G1, fi, gi
      <4>3. /\ a * (F1 + fi) = a * F1 + a * fi /\ a * F1 \in Int /\ a * fi \in Int
            /\ b * (G1 + gi) = b * G1 + b * gi /\ b * G1 \in Int /\ b * gi \in Int
        BY <4>1, Distributes
      <4> QED BY <4>2, <4>3 DEF F1, G1, fi, gi
    <3>5. /\ H[i] = a * F[i] + b * G[i] /\ H[i - 1] = a * F[i - 1] + b * G[i - 1]
          /\ h[i] = a * f[i] + b * g[i]
      BY <3>1
    <3> HIDE DEF H
    <3> QED BY <3>4, <3>5
  <2> QED BY <2>1, <2>2 DEF Sums
<1>5. Month!SumOf(h) = H[NumPillars]
  <2> HIDE DEF H
  <2> QED BY <1>4, SumIsLast
<1>6. H[NumPillars] = a * F[NumPillars] + b * G[NumPillars]
  BY CadenceAssumption
<1>7. Month!SumOf(f) = F[NumPillars] /\ Month!SumOf(g) = G[NumPillars]
  BY SumIsLast
<1> HIDE DEF H
<1> QED BY <1>5, <1>6, <1>7

\* ... monotone, strictly where one part grows, ...
LEMMA SumMonotone ==
    ASSUME NEW f \in Ledger, NEW g \in Ledger,
           Covers(g, f)
    PROVE  /\ Month!SumOf(f) <= Month!SumOf(g)
           /\ \A p \in 1..NumPillars : f[p] < g[p] => Month!SumOf(f) < Month!SumOf(g)
<1> USE DEF Ledger, Covers
<1>1. PICK F \in Sums(f) : TRUE
  BY SumsExist
<1>2. PICK G \in Sums(g) : TRUE
  BY SumsExist
<1> DEFINE S == {i \in 0..NumPillars :
                    /\ F[i] <= G[i]
                    /\ \A p \in 1..i : f[p] < g[p] => F[i] < G[i]}
<1>3. 0 \in S
  BY CadenceAssumption DEF Sums
<1>4. ASSUME NEW i \in 0..NumPillars - 1, i \in S PROVE i + 1 \in S
  <2>1. /\ i \in 0..NumPillars /\ i + 1 \in 1..NumPillars /\ i + 1 \in 0..NumPillars
        /\ (i + 1) - 1 = i
    BY CadenceAssumption
  <2>2. F[i + 1] = F[i] + f[i + 1] /\ G[i + 1] = G[i] + g[i + 1]
    BY <2>1 DEF Sums
  <2>3. F[i] \in Int /\ G[i] \in Int /\ f[i + 1] \in Int /\ g[i + 1] \in Int
    BY <2>1 DEF Sums
  <2>4. F[i + 1] <= G[i + 1]
    BY <1>4, <2>1, <2>2, <2>3
  <2>5. ASSUME NEW p \in 1..i + 1, f[p] < g[p] PROVE F[i + 1] < G[i + 1]
    <3>1. f[i + 1] <= g[i + 1]
      BY <2>1
    <3>2. CASE p = i + 1
      BY <1>4, <2>1, <2>2, <2>3, <2>5, <3>2
    <3>3. CASE p \in 1..i
      <4>1. F[i] < G[i]
        BY <1>4, <2>5, <3>3
      <4> QED BY <2>2, <2>3, <3>1, <4>1
    <3> QED BY <2>1, <3>2, <3>3
  <2> QED BY <2>1, <2>4, <2>5
<1>5. \A i \in 0..NumPillars : i \in S
  <2> HIDE DEF S
  <2> QED BY <1>3, <1>4, Induction, CadenceAssumption
<1>6. NumPillars \in S
  <2> HIDE DEF S
  <2> QED BY <1>5, CadenceAssumption
<1> QED BY <1>6, SumIsLast

\* ... and an addition to one part is an addition to the sum.
LEMMA SumPoint ==
    ASSUME NEW f \in Ledger, NEW p \in 1..NumPillars,
           NEW h \in Ledger,
           DiffersAt(p, f, h)
    PROVE  Month!SumOf(h) = (Month!SumOf(f) - f[p]) + h[p]
<1> USE DEF Ledger, DiffersAt
<1>1. PICK F \in Sums(f) : TRUE
  BY SumsExist
<1> DEFINE H == [i \in 0..NumPillars |-> IF i < p THEN F[i] ELSE (F[i] - f[p]) + h[p]]
<1>3. H \in Sums(h)
  <2>1. H \in [0..NumPillars -> Int] /\ H[0] = 0
    <3>1. f[p] \in Int /\ h[p] \in Int /\ 0 < p /\ F \in [0..NumPillars -> Int] /\ F[0] = 0
      BY CadenceAssumption DEF Sums
    <3> QED BY <3>1, CadenceAssumption
  <2>2. ASSUME NEW i \in 1..NumPillars PROVE H[i] = H[i - 1] + h[i]
    <3>1. i \in 0..NumPillars /\ i - 1 \in 0..NumPillars
      BY CadenceAssumption
    <3>2. F[i] = F[i - 1] + f[i] /\ F[i - 1] \in Int /\ f[i] \in Int /\ f[p] \in Int /\ h[p] \in Int
      BY <3>1 DEF Sums
    <3>3. CASE i < p
      BY <3>1, <3>2, <3>3
    <3>4. CASE i = p
      BY <3>1, <3>2, <3>4
    <3>5. CASE i > p
      BY <3>1, <3>2, <3>5
    <3> QED BY <3>3, <3>4, <3>5
  <2> QED BY <2>1, <2>2 DEF Sums
<1>4. Month!SumOf(h) = H[NumPillars]
  <2> HIDE DEF H
  <2> QED BY <1>3, SumIsLast
<1> QED BY <1>1, <1>4, SumIsLast, CadenceAssumption

LEMMA SumOfSame ==
    ASSUME NEW x \in Int, NEW h \in Ledger,
           IsFlat(h, x)
    PROVE  Month!SumOf(h) = NumPillars * x
<1> USE DEF Ledger, IsFlat
<1> DEFINE H == [i \in 0..NumPillars |-> i * x]
<1>2. H \in Sums(h)
  <2>1. H \in [0..NumPillars -> Int] /\ H[0] = 0
    BY CadenceAssumption
  <2>2. ASSUME NEW i \in 1..NumPillars PROVE H[i] = H[i - 1] + h[i]
    <3>1. i * x = (i - 1) * x + x
      BY CadenceAssumption
    <3> QED BY <3>1, CadenceAssumption
  <2> QED BY <2>1, <2>2 DEF Sums
<1>3. Month!SumOf(h) = H[NumPillars]
  <2> HIDE DEF H
  <2> QED BY <1>2, SumIsLast
<1> QED BY <1>3, CadenceAssumption

-----------------------------------------------------------------------------
\* allocate_pillars.
\* Cadence counts as everybody does.
LEMMA SameCount == ASSUME NEW S PROVE Month!Cardinality(S) = Cardinality(S)
BY DEF Month!Cardinality, Cardinality

LEMMA DivisionLeaves ==
    ASSUME NEW x \in Nat
    PROVE  /\ x \div WeightSum \in Nat /\ x % WeightSum \in 0..(WeightSum - 1)
           /\ x = WeightSum * (x \div WeightSum) + (x % WeightSum)
BY CadenceAssumption

LEMMA Grows ==
    ASSUME NEW x \in Nat, NEW y \in Nat
    PROVE  x * y \in Nat
OBVIOUS

\* allocate_pillars: how many pillars are served before p.
Rank(total, w) == [p \in 1..NumPillars |-> Cardinality(Month!Before(total, w, p))]
\* The k pillars that are served first.
Served(total, w, k) == [p \in 1..NumPillars |-> IF Rank(total, w)[p] < k THEN 1 ELSE 0]

LEMMA RemainderType ==
    ASSUME NEW total \in Nat, NEW w \in [1..NumPillars -> 0..WeightSum]
    PROVE  Month!Remainder(total, w) \in [1..NumPillars -> 0..(WeightSum - 1)]
<1> SUFFICES ASSUME NEW p \in 1..NumPillars
             PROVE  (total * w[p]) % WeightSum \in 0..(WeightSum - 1)
  BY DEF Month!Remainder, Month!Pillars
<1>1. w[p] \in Nat
  BY CadenceAssumption
<1>2. total * w[p] \in Nat
  BY <1>1, Grows
<1> QED BY <1>2, DivisionLeaves

\* No two pillars have the same rank, ...
LEMMA RanksDiffer ==
    ASSUME NEW total \in Nat, NEW w \in [1..NumPillars -> 0..WeightSum]
    PROVE  /\ Rank(total, w) \in [1..NumPillars -> 0..(NumPillars - 1)]
           /\ \A p, q \in 1..NumPillars :
                 q \in Month!Before(total, w, p) => Rank(total, w)[q] < Rank(total, w)[p]
           /\ \A p, q \in 1..NumPillars : Rank(total, w)[p] = Rank(total, w)[q] => p = q
<1> DEFINE rem == Month!Remainder(total, w)
           B(p) == Month!Before(total, w, p)
<1>1. rem \in [1..NumPillars -> Int]
  BY RemainderType, CadenceAssumption
<1>2. IsFiniteSet(1..NumPillars) /\ Cardinality(1..NumPillars) = NumPillars
  BY FS_Interval, CadenceAssumption
<1>3. ASSUME NEW p \in 1..NumPillars
      PROVE  /\ B(p) \subseteq 1..NumPillars /\ IsFiniteSet(B(p))
             /\ Cardinality(B(p)) \in 0..(NumPillars - 1)
  <2>1. B(p) \in SUBSET ((1..NumPillars) \ {p})
    BY <1>1 DEF Month!Before, Month!Pillars
  <2>2. /\ IsFiniteSet((1..NumPillars) \ {p})
        /\ Cardinality((1..NumPillars) \ {p}) = NumPillars - 1
    BY <1>2, FS_RemoveElement
  <2>3. IsFiniteSet(B(p)) /\ Cardinality(B(p)) <= NumPillars - 1
    BY <2>1, <2>2, FS_Subset
  <2>4. Cardinality(B(p)) \in Nat
    BY <2>3, FS_CardinalityType
  <2> QED BY <2>1, <2>3, <2>4, CadenceAssumption
<1>4. ASSUME NEW p \in 1..NumPillars, NEW q \in B(p)
      PROVE  q \in 1..NumPillars /\ Cardinality(B(q)) < Cardinality(B(p))
  <2>1. q \in 1..NumPillars /\ B(q) \in SUBSET B(p) /\ q \notin B(q)
    BY <1>1 DEF Month!Before, Month!Pillars
  <2>2. Cardinality(B(q)) <= Cardinality(B(p)) /\ Cardinality(B(q)) # Cardinality(B(p))
    BY <1>3, <1>4, <2>1, FS_Subset
  <2>3. Cardinality(B(q)) \in Int /\ Cardinality(B(p)) \in Int
    BY <1>3, <2>1
  <2> QED BY <2>1, <2>2, <2>3
<1>5. \A p, q \in 1..NumPillars : p # q => p \in B(q) \/ q \in B(p)
  BY <1>1 DEF Month!Before, Month!Pillars
<1>6. \A p \in 1..NumPillars : Rank(total, w)[p] = Cardinality(B(p))
  BY DEF Rank
<1>7. Rank(total, w) \in [1..NumPillars -> 0..(NumPillars - 1)]
  BY <1>3 DEF Rank
<1> HIDE DEF B
<1>8. \A p \in 1..NumPillars : Cardinality(B(p)) \in Int
  BY <1>3
<1> QED BY <1>4, <1>5, <1>6, <1>7, <1>8 DEF B

\* ... so every rank is some pillar's.
LEMMA RanksAreTaken ==
    ASSUME NEW total \in Nat, NEW w \in [1..NumPillars -> 0..WeightSum],
           NEW k \in 0..(NumPillars - 1)
    PROVE  \E p \in 1..NumPillars : Rank(total, w)[p] = k
<1> DEFINE P == 1..NumPillars
           R == 0..(NumPillars - 1)
<1>1. Rank(total, w) \in Injection(P, R)
  BY RanksDiffer DEF Injection, IsInjective
<1>2. IsFiniteSet(R) /\ Cardinality(R) = Cardinality(P)
  BY FS_Interval, CadenceAssumption
<1>3. Rank(total, w) \in Surjection(P, R)
  BY <1>1, <1>2, FS_Injection
<1> QED BY <1>3 DEF Surjection

LEMMA ServedAdds ==
    ASSUME NEW total \in Nat, NEW w \in [1..NumPillars -> 0..WeightSum],
           NEW k \in 0..NumPillars
    PROVE  Month!SumOf(Served(total, w, k)) = k
<1> DEFINE S == {n \in 0..NumPillars : Month!SumOf(Served(total, w, n)) = n}
           rank == Rank(total, w)
<1>0. rank \in [1..NumPillars -> Nat] /\ \A p, q \in 1..NumPillars : rank[p] = rank[q] => p = q
  BY RanksDiffer
<1>1. 0 \in S
  <2>1. Served(total, w, 0) = [p \in 1..NumPillars |-> 0]
    BY <1>0 DEF Served
  <2>2. Month!SumOf(Served(total, w, 0)) = NumPillars * 0
    <3> DEFINE none == [p \in 1..NumPillars |-> 0]
    <3>1. none \in Ledger /\ IsFlat(none, 0)
      BY DEF Ledger, IsFlat
    <3> HIDE DEF none
    <3>2. Month!SumOf(none) = NumPillars * 0
      BY <3>1, SumOfSame
    <3> QED BY <2>1, <3>2 DEF none
  <2> QED BY <2>2, CadenceAssumption
<1>2. ASSUME NEW n \in 0..NumPillars - 1, n \in S PROVE n + 1 \in S
  <2>1. PICK p \in 1..NumPillars : rank[p] = n
    BY RanksAreTaken
  <2>2. Served(total, w, n) \in Ledger /\ Served(total, w, n)[p] = 0 /\ n \in Int
    BY <2>1 DEF Served, Ledger
  <2>3. Served(total, w, n + 1) \in Ledger /\ Served(total, w, n + 1)[p] = 1
    BY <2>1, <2>2 DEF Served, Ledger
  <2>4. DiffersAt(p, Served(total, w, n), Served(total, w, n + 1))
    <3> SUFFICES ASSUME NEW q \in 1..NumPillars, q # p
                 PROVE  Served(total, w, n + 1)[q] = Served(total, w, n)[q]
      BY DEF DiffersAt
    <3>1. rank[q] # n /\ rank[q] \in Int
      BY <1>0, <2>1
    <3>2. rank[q] < n + 1 <=> rank[q] < n
      BY <2>2, <3>1
    <3> QED BY <3>2 DEF Served
  <2>5. Month!SumOf(Served(total, w, n + 1)) = (Month!SumOf(Served(total, w, n)) - 0) + 1
    BY <2>2, <2>3, <2>4, SumPoint
  <2>6. Month!SumOf(Served(total, w, n + 1)) = n + 1
    BY <1>2, <2>2, <2>5
  <2> QED BY <2>2, <2>6, CadenceAssumption
<1>3. \A n \in 0..NumPillars : n \in S
  <2> HIDE DEF S
  <2> QED BY <1>1, <1>2, Induction, CadenceAssumption
<1> QED BY <1>3

\* allocate_pillars: the shares fill the posts, and each is within one of what its
\* weight asks for.
LEMMA SharesOfWeights ==
    ASSUME NEW total \in Nat, NEW w \in [1..NumPillars -> 0..WeightSum],
           Month!SumOf(w) = WeightSum
    PROVE  /\ Month!AllocatePillars(total, w) \in [1..NumPillars -> Nat]
           /\ Month!SumOf(Month!AllocatePillars(total, w)) = total
           /\ \A p \in 1..NumPillars :
                 WeightSum * Month!AllocatePillars(total, w)[p] - total * w[p]
                    \in (1 - WeightSum)..(WeightSum - 1)
<1> DEFINE W == WeightSum
           floor == Month!Floor(total, w)
           rem == Month!Remainder(total, w)
           k == total - Month!SumOf(floor)
           served == Served(total, w, k)
           given == Month!AllocatePillars(total, w)
<1>1. \A p \in 1..NumPillars :
         /\ w[p] \in Int /\ total * w[p] \in Nat /\ floor[p] \in Nat /\ rem[p] \in 0..(W - 1)
         /\ total * w[p] = W * floor[p] + rem[p] /\ W * floor[p] \in Nat
  <2> SUFFICES ASSUME NEW p \in 1..NumPillars
               PROVE  /\ w[p] \in Int /\ total * w[p] \in Nat /\ floor[p] \in Nat
                      /\ rem[p] \in 0..(W - 1) /\ total * w[p] = W * floor[p] + rem[p]
                      /\ W * floor[p] \in Nat
    OBVIOUS
  <2>1. w[p] \in Nat
    BY CadenceAssumption
  <2> DEFINE x == total * w[p]
  <2>2. x \in Nat
    BY <2>1, Grows
  <2>3. floor[p] = x \div WeightSum /\ rem[p] = x % WeightSum
    BY DEF Month!Floor, Month!Remainder, Month!Pillars
  <2> HIDE DEF x
  <2>4. x \div WeightSum \in Nat /\ WeightSum * (x \div WeightSum) \in Nat
    BY <2>2, DivisionLeaves, Grows, CadenceAssumption
  <2>5. /\ floor[p] \in Nat /\ rem[p] \in 0..(W - 1) /\ x = W * floor[p] + rem[p]
        /\ W * floor[p] \in Nat
    BY <2>2, <2>3, <2>4, DivisionLeaves
  <2> QED BY <2>1, <2>2, <2>5 DEF x
<1>2. /\ floor \in [1..NumPillars -> Nat] /\ floor \in Ledger
      /\ rem \in Ledger
      /\ w \in Ledger /\ W \in Nat \ {0}
  <2>1. floor \in [1..NumPillars -> Nat]
    BY <1>1 DEF Month!Floor, Month!Pillars
  <2>2. rem \in Ledger
    BY RemainderType, CadenceAssumption DEF Ledger
  <2> QED BY <2>1, <2>2, CadenceAssumption DEF Ledger
<1>3. given = [p \in 1..NumPillars |->
                  IF Rank(total, w)[p] < k THEN floor[p] + 1 ELSE floor[p]]
  <2>1. Month!AllocatePillars(total, w) =
           [p \in 1..NumPillars |->
              IF Rank(total, w)[p] < total - Month!SumOf(floor) THEN floor[p] + 1 ELSE floor[p]]
    <3>1. \A p \in 1..NumPillars : Rank(total, w)[p] = Cardinality(Month!Before(total, w, p))
      BY DEF Rank
    <3> HIDE DEF rem, k, served, given, W
    <3> QED BY <3>1, SameCount DEF Month!AllocatePillars, Month!Pillars
  <2> QED BY <2>1
<1> HIDE DEF floor, rem, given, W
<1>4. k \in Int /\ Month!SumOf(floor) \in Int /\ Month!SumOf(rem) \in Int
  <2>1. \E g \in Sums(floor) : TRUE
    BY <1>2, SumsExist
  <2>2. \E g \in Sums(rem) : TRUE
    BY <1>2, SumsExist
  <2> QED BY <1>2, <2>1, <2>2, SumIsLast
\* What the floors leave is what the remainders add up to.
<1>5. W * k = Month!SumOf(rem)
  <2> DEFINE x == [p \in 1..NumPillars |-> total * w[p]]
  <2>1. x \in Ledger /\ Mixes(x, total, w, 0, w)
    BY <1>1 DEF Ledger, Mixes
  <2>2. Mixes(x, W, floor, 1, rem)
    BY <1>1 DEF Mixes
  <2> HIDE DEF x
  <2>3. Month!SumOf(x) = total * Month!SumOf(w) + 0 * Month!SumOf(w)
    BY <1>2, <2>1, SumLinear
  <2>4. Month!SumOf(x) = W * Month!SumOf(floor) + 1 * Month!SumOf(rem)
    BY <1>2, <2>1, <2>2, SumLinear
  <2>5. total * W = W * Month!SumOf(floor) + Month!SumOf(rem)
    BY <1>2, <1>4, <2>3, <2>4 DEF W
  <2> DEFINE floors == Month!SumOf(floor)
  <2>6. W * (floors + k) = W * floors + W * k /\ floors + k = total /\ W * floors \in Int
    BY <1>2, <1>4
  <2>7. W * k \in Int /\ W * total = total * W
    BY <1>2, <1>4
  <2> HIDE DEF k, floors
  <2> QED BY <1>4, <2>5, <2>6, <2>7 DEF floors
<1>6. k \in 0..NumPillars
  <2> DEFINE none == [p \in 1..NumPillars |-> 0]
             full == [p \in 1..NumPillars |-> W]
  <2>1. /\ none \in Ledger /\ full \in Ledger
        /\ IsFlat(none, 0) /\ IsFlat(full, W) /\ Covers(rem, none) /\ Covers(full, rem)
    BY <1>1, <1>2 DEF Ledger, IsFlat, Covers
  <2> HIDE DEF none, full
  <2>2. Month!SumOf(none) = NumPillars * 0 /\ Month!SumOf(full) = NumPillars * W
    BY <1>2, <2>1, SumOfSame
  <2>3. Month!SumOf(none) <= Month!SumOf(rem) /\ Month!SumOf(rem) <= Month!SumOf(full)
    BY <1>2, <2>1, SumMonotone
  <2> HIDE DEF k
  <2>4. 0 <= W * k /\ W * k <= W * NumPillars
    BY <1>2, <1>5, <2>2, <2>3, CadenceAssumption
  <2>5. 0 <= k
    BY <1>2, <1>4, <2>4
  <2>6. k <= NumPillars
    BY <1>2, <1>4, <2>4, CadenceAssumption
  <2> QED BY <1>4, <2>5, <2>6, CadenceAssumption
<1>7. served \in [1..NumPillars -> {0, 1}] /\ Month!SumOf(served) = k
  <2> HIDE DEF k
  <2> QED BY <1>6, ServedAdds DEF Served
<1>8. \A p \in 1..NumPillars :
         /\ given[p] = floor[p] + served[p]
         /\ served[p] = 1 <=> Rank(total, w)[p] < k
  <2> HIDE DEF k
  <2> QED BY <1>1, <1>3 DEF Served
<1>9. given \in [1..NumPillars -> Nat]
  <2> HIDE DEF k
  <2> QED BY <1>1, <1>3
<1> HIDE DEF served, k
<1>10. Month!SumOf(given) = total
  <2>1. Mixes(given, 1, floor, 1, served)
    BY <1>2, <1>7, <1>8 DEF Mixes
  <2>2. served \in Ledger /\ given \in Ledger
    BY <1>7, <1>9 DEF Ledger
  <2>3. Month!SumOf(given) = 1 * Month!SumOf(floor) + 1 * Month!SumOf(served)
    BY <1>2, <2>1, <2>2, SumLinear
  <2> QED BY <1>4, <1>7, <2>3 DEF k
\* A pillar without a remainder comes after all that have one, and they are enough.
<1>11. ASSUME NEW p \in 1..NumPillars, rem[p] = 0 PROVE served[p] = 0
  <2> SUFFICES ASSUME served[p] = 1 PROVE FALSE
    BY <1>7
  <2>1. Rank(total, w)[p] < k
    BY <1>8
  <2> DEFINE due == [q \in 1..NumPillars |-> W * served[q]]
  <2>2. due \in Ledger /\ served \in Ledger
    BY <1>2, <1>7 DEF Ledger
  <2>3. Mixes(due, W, served, 0, served)
    BY <1>2, <1>7 DEF Mixes
  <2>4. Covers(due, rem)
    <3>1. ASSUME NEW q \in 1..NumPillars, rem[q] > 0 PROVE served[q] = 1
      <4>1. q \in Month!Before(total, w, p)
        BY <1>11, <3>1 DEF Month!Before, Month!Pillars, rem
      <4>2. /\ Rank(total, w)[q] < Rank(total, w)[p]
            /\ Rank(total, w)[q] \in Int /\ Rank(total, w)[p] \in Int
        BY <4>1, RanksDiffer, CadenceAssumption
      <4> QED BY <1>4, <1>8, <2>1, <4>2
    <3>2. ASSUME NEW q \in 1..NumPillars PROVE rem[q] <= due[q]
      <4>1. served[q] \in {0, 1} /\ rem[q] \in 0..(W - 1)
        BY <1>1, <1>7
      <4>2. served[q] = 0 => rem[q] = 0
        BY <3>1, <4>1, <1>2
      <4> QED BY <1>2, <4>1, <4>2
    <3> QED BY <3>2 DEF Covers
  <2>5. rem[p] < due[p]
    BY <1>2, <1>11
  <2> HIDE DEF due
  <2>6. Month!SumOf(rem) < Month!SumOf(due)
    BY <1>2, <2>2, <2>4, <2>5, SumMonotone
  <2>7. Month!SumOf(due) = W * k + 0 * k
    BY <1>2, <1>7, <2>2, <2>3, SumLinear
  <2>8. W * k \in Int /\ 0 * k = 0
    BY <1>4, <1>5
  <2> QED BY <1>4, <1>5, <2>6, <2>7, <2>8
<1>12. ASSUME NEW p \in 1..NumPillars
       PROVE  W * given[p] - total * w[p] \in (1 - W)..(W - 1)
  <2> DEFINE x == total * w[p]
             y == W * floor[p]
             z == W * given[p]
  <2>0. x \in Nat /\ y \in Nat /\ rem[p] \in 0..(W - 1) /\ x = y + rem[p] /\ W \in Nat \ {0}
    BY <1>1, <1>2
  <2>1. CASE served[p] = 0
    <3>1. given[p] = floor[p] /\ z = y
      BY <1>2, <1>8, <2>1
    <3> HIDE DEF x, y, z
    <3> QED BY <2>0, <3>1 DEF x, z
  <2>2. CASE served[p] = 1
    <3>1. given[p] = floor[p] + 1 /\ rem[p] # 0 /\ floor[p] \in Int
      BY <1>1, <1>8, <1>11, <2>2
    <3>2. z = y + W * 1
      BY <1>2, <3>1, Distributes
    <3> HIDE DEF x, y, z
    <3> QED BY <2>0, <3>1, <3>2 DEF x, z
  <2> QED BY <1>7, <2>1, <2>2
<1> QED BY <1>9, <1>10, <1>12 DEF given, W

-----------------------------------------------------------------------------
\* auto_posting_weekdays.
LEMMA MinIsLeast ==
    ASSUME NEW T \in SUBSET Nat, T # {}
    PROVE  Month!Min(T) \in T /\ \A m \in T : Month!Min(T) <= m
<1>1. \E n \in T : \A m \in T : n <= m
  BY LeastNatural
<1> QED BY <1>1 DEF Month!Min

\* auto_posting_weekdays, for each number of posts a week.
Weekdays(n) ==
    CASE n = 1 -> {0}
      [] n = 2 -> {0, 4}
      [] n = 3 -> {0, 2, 5}
      [] n = 4 -> {0, 2, 4, 5}
      [] n = 5 -> {0, 1, 3, 4, 6}
      [] n = 6 -> {0, 1, 2, 4, 5, 6}
      [] n = 7 -> 0..6
\* How long it is from one day to the next of the other kind.
Days(d, e) == IF e > d THEN e - d ELSE e + 7 - d

LEMMA WeekdaysRounded == \A n \in 1..7 : Month!AutoPostingWeekdays(n) = Weekdays(n)
<1> DEFINE day(i, n) == Month!Round(7 * i, n) % 7
<1>0. \A n : Month!AutoPostingWeekdays(n) = {day(i, n) : i \in 0..(n - 1)}
  BY DEF Month!AutoPostingWeekdays
<1>1. day(0, 1) = 0
  BY DEF Month!Round
<1>2. day(0, 2) = 0 /\ day(1, 2) = 4
  BY DEF Month!Round
<1>3. day(0, 3) = 0 /\ day(1, 3) = 2 /\ day(2, 3) = 5
  BY DEF Month!Round
<1>4. day(0, 4) = 0 /\ day(1, 4) = 2 /\ day(2, 4) = 4 /\ day(3, 4) = 5
  BY DEF Month!Round
<1>5. day(0, 5) = 0 /\ day(1, 5) = 1 /\ day(2, 5) = 3 /\ day(3, 5) = 4 /\ day(4, 5) = 6
  BY DEF Month!Round
<1>6. /\ day(0, 6) = 0 /\ day(1, 6) = 1 /\ day(2, 6) = 2 /\ day(3, 6) = 4 /\ day(4, 6) = 5
      /\ day(5, 6) = 6
  BY DEF Month!Round
<1>7. \A i \in 0..6 : day(i, 7) = i
  BY DEF Month!Round
<1> HIDE DEF day
<1>11. {day(i, 1) : i \in 0..(1 - 1)} = Weekdays(1)
  BY <1>1 DEF Weekdays
<1>12. {day(i, 2) : i \in 0..(2 - 1)} = Weekdays(2)
  <2>1. 0..(2 - 1) = {0, 1}
    OBVIOUS
  <2> QED BY <1>2, <2>1 DEF Weekdays
<1>13. {day(i, 3) : i \in 0..(3 - 1)} = Weekdays(3)
  <2>1. 0..(3 - 1) = {0, 1, 2}
    OBVIOUS
  <2> QED BY <1>3, <2>1 DEF Weekdays
<1>14. {day(i, 4) : i \in 0..(4 - 1)} = Weekdays(4)
  <2>1. 0..(4 - 1) = {0, 1, 2, 3}
    OBVIOUS
  <2> QED BY <1>4, <2>1 DEF Weekdays
<1>15. {day(i, 5) : i \in 0..(5 - 1)} = Weekdays(5)
  <2>1. 0..(5 - 1) = {0, 1, 2, 3, 4}
    OBVIOUS
  <2> QED BY <1>5, <2>1 DEF Weekdays
<1>16. {day(i, 6) : i \in 0..(6 - 1)} = Weekdays(6)
  <2>1. 0..(6 - 1) = {0, 1, 2, 3, 4, 5}
    OBVIOUS
  <2> QED BY <1>6, <2>1 DEF Weekdays
<1>17. {day(i, 7) : i \in 0..(7 - 1)} = Weekdays(7)
  BY <1>7 DEF Weekdays
<1>18. \A n \in 1..7 : n = 1 \/ n = 2 \/ n = 3 \/ n = 4 \/ n = 5 \/ n = 6 \/ n = 7
  OBVIOUS
<1> QED BY <1>0, <1>11, <1>12, <1>13, <1>14, <1>15, <1>16, <1>17, <1>18

LEMMA OneMore ==
    ASSUME NEW S, IsFiniteSet(S), NEW n \in Nat, Cardinality(S) = n, NEW x, x \notin S
    PROVE  IsFiniteSet(S \cup {x}) /\ Cardinality(S \cup {x}) = n + 1
BY FS_AddElement

LEMMA OneLess ==
    ASSUME NEW S, IsFiniteSet(S), NEW n \in Nat, Cardinality(S) = n, NEW x \in S
    PROVE  IsFiniteSet(S \ {x}) /\ Cardinality(S \ {x}) = n - 1
BY FS_RemoveElement

LEMMA WeekdaysCount == \A n \in 1..7 : Cardinality(Weekdays(n)) = n /\ Weekdays(n) \subseteq 0..6
<1>1. IsFiniteSet({0}) /\ Cardinality({0}) = 1
  BY FS_Singleton
<1>2. IsFiniteSet({0} \cup {4}) /\ Cardinality({0} \cup {4}) = 1 + 1
  BY <1>1, OneMore
<1>3. IsFiniteSet({0} \cup {2}) /\ Cardinality({0} \cup {2}) = 1 + 1
  BY <1>1, OneMore
<1>4. IsFiniteSet({0, 2} \cup {5}) /\ Cardinality({0, 2} \cup {5}) = 2 + 1
  <2>1. {0} \cup {2} = {0, 2} /\ 5 \notin {0, 2}
    OBVIOUS
  <2> QED BY <1>3, <2>1, OneMore
<1>5. IsFiniteSet({0, 2, 5} \cup {4}) /\ Cardinality({0, 2, 5} \cup {4}) = 3 + 1
  <2>1. {0, 2} \cup {5} = {0, 2, 5} /\ 4 \notin {0, 2, 5}
    OBVIOUS
  <2> QED BY <1>4, <2>1, OneMore
<1>6. IsFiniteSet(0..6) /\ Cardinality(0..6) = 7
  <2>1. ASSUME NEW n \in Nat PROVE IsFiniteSet(0..n) /\ Cardinality(0..n) = n + 1
    BY FS_Interval
  <2>2. 6 \in Nat /\ 6 + 1 = 7
    OBVIOUS
  <2>3. IsFiniteSet(0..6) /\ Cardinality(0..6) = 6 + 1
    BY <2>1, <2>2, Zenon
  <2> QED BY <2>2, <2>3
<1>7. IsFiniteSet((0..6) \ {3}) /\ Cardinality((0..6) \ {3}) = 7 - 1
  BY <1>6, OneLess
<1>8. IsFiniteSet((0..6) \ {2}) /\ Cardinality((0..6) \ {2}) = 7 - 1
  BY <1>6, OneLess
<1>9. Cardinality(((0..6) \ {2}) \ {5}) = 6 - 1
  <2>1. 5 \in (0..6) \ {2}
    OBVIOUS
  <2> QED BY <1>8, <2>1, OneLess
<1>10. /\ {0, 4} = {0} \cup {4} /\ {0, 2, 5} = {0, 2} \cup {5} /\ {0, 2, 4, 5} = {0, 2, 5} \cup {4}
       /\ {0, 1, 3, 4, 6} = ((0..6) \ {2}) \ {5} /\ {0, 1, 2, 4, 5, 6} = (0..6) \ {3}
  OBVIOUS
<1>11. \A n \in 1..7 : n = 1 \/ n = 2 \/ n = 3 \/ n = 4 \/ n = 5 \/ n = 6 \/ n = 7
  OBVIOUS
<1>12. \A n \in 1..7 : Weekdays(n) \subseteq 0..6
  BY <1>11 DEF Weekdays
<1>13. /\ Weekdays(1) = {0} /\ Weekdays(2) = {0, 4} /\ Weekdays(3) = {0, 2, 5}
       /\ Weekdays(4) = {0, 2, 4, 5} /\ Weekdays(5) = {0, 1, 3, 4, 6}
       /\ Weekdays(6) = {0, 1, 2, 4, 5, 6} /\ Weekdays(7) = 0..6
  BY DEF Weekdays
<1> QED BY <1>1, <1>2, <1>4, <1>5, <1>6, <1>7, <1>9, <1>10, <1>11, <1>12, <1>13

\* The next posting day is as far from each posting day, or a day further.
LEMMA WeekdaysSpread ==
    \A n \in 1..7 : \E k \in 1..7 : \A d \in Weekdays(n) :
        /\ \A e \in Weekdays(n) : k <= Days(d, e)
        /\ \E e \in Weekdays(n) : Days(d, e) <= k + 1
<1> DEFINE Spread(n, k) == \A d \in Weekdays(n) :
                              /\ \A e \in Weekdays(n) : k <= Days(d, e)
                              /\ \E e \in Weekdays(n) : Days(d, e) <= k + 1
<1>1. Spread(1, 7)
  BY DEF Weekdays, Days
<1>2. Spread(2, 3)
  BY DEF Weekdays, Days
<1>3. Spread(3, 2)
  BY DEF Weekdays, Days
<1>4. Spread(4, 1)
  BY DEF Weekdays, Days
<1>5. Spread(5, 1)
  BY DEF Weekdays, Days
<1>6. Spread(6, 1)
  BY DEF Weekdays, Days
<1>7. Spread(7, 1)
  <2>1. ASSUME NEW d \in 0..6 PROVE \E e \in 0..6 : Days(d, e) <= 2
    <3>1. CASE d = 6
      <4>1. 0 \in 0..6 /\ Days(6, 0) = 1
        BY DEF Days
      <4> QED BY <3>1, <4>1
    <3>2. CASE d < 6
      <4>1. d + 1 \in 0..6 /\ Days(d, d + 1) = 1
        BY <3>2 DEF Days
      <4> QED BY <4>1
    <3> QED BY <3>1, <3>2
  <2>2. Weekdays(7) = 0..6
    BY DEF Weekdays
  <2>3. \A d, e \in 0..6 : 1 <= Days(d, e)
    BY DEF Days
  <2> QED BY <2>1, <2>2, <2>3
<1> HIDE DEF Spread
<1>8. \A n \in 1..7 : n = 1 \/ n = 2 \/ n = 3 \/ n = 4 \/ n = 5 \/ n = 6 \/ n = 7
  OBVIOUS
<1>9. \A n \in 1..7 : \E k \in 1..7 : Spread(n, k)
  BY <1>1, <1>2, <1>3, <1>4, <1>5, <1>6, <1>7, <1>8
<1> QED BY <1>9 DEF Spread

LEMMA WeekIsEvenHolds == perWeek \in 1..7 => Month!WeekIsEven
<1> SUFFICES ASSUME perWeek \in 1..7 PROVE Month!WeekIsEven
  OBVIOUS
<1> DEFINE days == Weekdays(perWeek)
           Gaps(d) == {Days(d, e) : e \in days}
           Gap(d) == Month!Min(Gaps(d))
<1>1. days = Month!AutoPostingWeekdays(perWeek)
  BY WeekdaysRounded
<1>2. Cardinality(days) = perWeek /\ days \subseteq 0..6
  BY WeekdaysCount
<1>3. PICK k \in 1..7 : \A d \in days : /\ \A e \in days : k <= Days(d, e)
                                        /\ \E e \in days : Days(d, e) <= k + 1
  BY WeekdaysSpread
<1> HIDE DEF days
<1>4. ASSUME NEW d \in days PROVE Gap(d) \in Int /\ k <= Gap(d) /\ Gap(d) <= k + 1
  <2>1. Gaps(d) \in SUBSET Nat /\ Gaps(d) # {}
    BY <1>2 DEF Days
  <2>2. Gap(d) \in Gaps(d) /\ \A m \in Gaps(d) : Gap(d) <= m
    BY <2>1, MinIsLeast
  <2>3. PICK e \in days : Days(d, e) <= k + 1
    BY <1>3
  <2>4. Days(d, e) \in Gaps(d)
    OBVIOUS
  <2>5. \A m \in Gaps(d) : k <= m
    BY <1>3
  <2> HIDE DEF Gaps
  <2>6. Gap(d) \in Nat /\ Days(d, e) \in Nat
    BY <2>1, <2>2, <2>4
  <2> QED BY <2>2, <2>3, <2>4, <2>5, <2>6
<1>5. \A d, e \in days : Gap(d) - Gap(e) \in -1..1
  <2> HIDE DEF Gap
  <2> QED BY <1>4
<1>6. \A d, e \in days :
         Month!Min({IF f > d THEN f - d ELSE f + 7 - d : f \in days})
         - Month!Min({IF f > e THEN f - e ELSE f + 7 - e : f \in days}) \in -1..1
  BY <1>5 DEF Days
<1>7. Month!Cardinality(days) = perWeek
  BY <1>2, SameCount
<1> HIDE DEF Gap, Gaps
<1> QED BY <1>1, <1>2, <1>6, <1>7 DEF Month!WeekIsEven, Month!Days

-----------------------------------------------------------------------------
\* max(): of the pillars there is a first of the largest.
Leads(f, T, p) == \A q \in T : f[p] > f[q] \/ (f[p] = f[q] /\ p <= q)

LEMMA OneLeads ==
    ASSUME NEW f \in Ledger, NEW T \in SUBSET (1..NumPillars), T # {}
    PROVE  \E p \in T : Leads(f, T, p)
<1> DEFINE S == {n \in 0..NumPillars :
                    \A U \in SUBSET (1..n) : U # {} => \E p \in U : Leads(f, U, p)}
<1>1. 0 \in S
  <2>1. 1..0 = {} /\ 0 \in 0..NumPillars
    BY CadenceAssumption
  <2>2. \A U \in SUBSET (1..0) : U = {}
    BY <2>1
  <2> QED BY <2>1, <2>2
<1>2. ASSUME NEW n \in 0..NumPillars - 1, n \in S PROVE n + 1 \in S
  <2> SUFFICES ASSUME NEW U \in SUBSET (1..n + 1), U # {}
               PROVE  \E p \in U : Leads(f, U, p)
    BY CadenceAssumption
  <2> DEFINE rest == U \ {n + 1}
  <2>0. n \in Nat /\ rest \in SUBSET (1..n) /\ U \in SUBSET (1..NumPillars)
    BY CadenceAssumption
  <2>1. CASE n + 1 \notin U
    <3>1. U = rest
      BY <2>1
    <3> QED BY <1>2, <2>0, <3>1
  <2>2. CASE n + 1 \in U /\ rest = {}
    <3>1. U = {n + 1}
      BY <2>2
    <3>2. Leads(f, U, n + 1)
      BY <2>0, <3>1 DEF Leads
    <3> QED BY <2>2, <3>2
  <2>3. CASE n + 1 \in U /\ rest # {}
    <3>1. PICK p \in rest : Leads(f, rest, p)
      BY <1>2, <2>0, <2>3
    <3>2. \A q \in U : q = n + 1 \/ q \in rest
      OBVIOUS
    <3>3. \A q \in U : f[q] \in Int /\ q \in Int
      BY <2>0 DEF Ledger
    <3>4. p < n + 1
      BY <2>0
    <3> HIDE DEF rest
    <3>5. rest \subseteq U
      BY DEF rest
    <3>6. CASE f[n + 1] > f[p]
      <4>1. Leads(f, U, n + 1)
        BY <2>3, <3>1, <3>2, <3>3, <3>5, <3>6 DEF Leads
      <4> QED BY <2>3, <4>1
    <3>7. CASE ~(f[n + 1] > f[p])
      <4>1. Leads(f, U, p)
        BY <2>3, <3>1, <3>2, <3>3, <3>4, <3>5, <3>7 DEF Leads
      <4> QED BY <3>5, <4>1
    <3> QED BY <3>6, <3>7
  <2> QED BY <2>1, <2>2, <2>3
<1> HIDE DEF S
<1>3. \A n \in 0..NumPillars : n \in S
  BY <1>1, <1>2, Induction, CadenceAssumption
<1>4. NumPillars \in S
  BY <1>3, CadenceAssumption
<1> QED BY <1>4 DEF S

-----------------------------------------------------------------------------
LEMMA IntervalCount ==
    ASSUME NEW n \in Nat
    PROVE  IsFiniteSet(1..n) /\ Cardinality(1..n) = n
BY FS_Interval

Posting == [day : dates, pillar : 1..NumPillars, prompt : 0..(Prompts - 1)]

LEMMA DatesAreFinite ==
    ASSUME dates \in SUBSET (1..31)
    PROVE  IsFiniteSet(dates) /\ Month!Total \in 0..31 /\ Month!Total = Cardinality(dates)
<1>2. 31 \in Nat
  OBVIOUS
<1>3. IsFiniteSet(1..31) /\ Cardinality(1..31) = 31
  BY <1>2, IntervalCount, Zenon
<1>4. IsFiniteSet(dates) /\ Cardinality(dates) <= Cardinality(1..31)
  BY <1>3, FS_Subset
<1>5. Cardinality(dates) \in Nat
  BY <1>4, FS_CardinalityType
<1>6. Month!Total = Cardinality(dates)
  BY SameCount DEF Month!Total
<1> QED BY <1>3, <1>4, <1>5, <1>6

\* How often a pillar was used is a number, and one post adds one to its own.
Uses(s, p) == {i \in DOMAIN s : s[i].pillar = p}

LEMMA UsesAreCounted ==
    ASSUME NEW s \in Seq(Posting), NEW p
    PROVE  IsFiniteSet(Uses(s, p)) /\ Cardinality(Uses(s, p)) \in 0..Len(s)
<1>1. Len(s) \in Nat /\ Uses(s, p) \in SUBSET (1..Len(s))
  BY DEF Uses
<1>2. IsFiniteSet(1..Len(s)) /\ Cardinality(1..Len(s)) = Len(s)
  BY <1>1, IntervalCount
<1>3. IsFiniteSet(Uses(s, p)) /\ Cardinality(Uses(s, p)) <= Len(s)
  BY <1>1, <1>2, FS_Subset
<1> QED BY <1>1, <1>3, FS_CardinalityType

LEMMA OnePostMore ==
    ASSUME NEW s \in Seq(Posting), NEW x \in Posting, NEW p
    PROVE  Cardinality(Uses(Append(s, x), p))
              = IF x.pillar = p THEN Cardinality(Uses(s, p)) + 1 ELSE Cardinality(Uses(s, p))
<1> DEFINE t == Append(s, x)
           n == Len(s) + 1
<1>1. /\ Len(s) \in Nat /\ t \in Seq(Posting) /\ Len(t) = n
      /\ DOMAIN t = 1..n /\ DOMAIN s = 1..Len(s)
      /\ \A i \in 1..Len(s) : t[i] = s[i]
      /\ t[n] = x
  OBVIOUS
<1>2. n \notin Uses(s, p) /\ IsFiniteSet(Uses(s, p)) /\ Cardinality(Uses(s, p)) \in Nat
  <2>1. n \notin Uses(s, p)
    BY <1>1 DEF Uses
  <2>2. IsFiniteSet(Uses(s, p)) /\ Cardinality(Uses(s, p)) \in 0..Len(s)
    BY UsesAreCounted
  <2> QED BY <1>1, <2>1, <2>2
<1> HIDE DEF t
<1>3. CASE x.pillar = p
  <2>1. Uses(t, p) = Uses(s, p) \cup {n}
    BY <1>1, <1>3 DEF Uses
  <2>2. Cardinality(Uses(s, p) \cup {n}) = Cardinality(Uses(s, p)) + 1
    BY <1>2, FS_AddElement
  <2> QED BY <1>3, <2>1, <2>2 DEF t
<1>4. CASE x.pillar # p
  <2>1. Uses(t, p) = Uses(s, p)
    BY <1>1, <1>4 DEF Uses
  <2> QED BY <1>4, <2>1 DEF t
<1> QED BY <1>3, <1>4

LEMMA UsedIsUses == ASSUME NEW p PROVE Month!Used(p) = Cardinality(Uses(schedule, p))
BY SameCount DEF Month!Used, Uses

LEMMA NothingUsed == ASSUME NEW p PROVE Cardinality(Uses(<<>>, p)) = 0
<1>1. Uses(<<>>, p) = {}
  BY DEF Uses
<1> QED BY <1>1, FS_EmptySet

\* As long as posts are missing, a date is free.
LEMMA ADateIsFree ==
    ASSUME dates \in SUBSET (1..31), schedule \in Seq(Posting), Len(schedule) < Month!Total
    PROVE  \E d \in dates : \A i \in DOMAIN schedule : schedule[i].day # d
<1> SUFFICES ASSUME \A d \in dates : \E i \in DOMAIN schedule : schedule[i].day = d
             PROVE  FALSE
  OBVIOUS
<1> DEFINE n == Len(schedule)
           dayOf == [i \in 1..n |-> schedule[i].day]
<1>1. n \in Nat /\ DOMAIN schedule = 1..n /\ \A i \in 1..n : schedule[i] \in Posting
  OBVIOUS
<1>2. dayOf \in [1..n -> dates]
  BY <1>1 DEF Posting
<1>3. \A d \in dates : \E i \in 1..n : dayOf[i] = d
  BY <1>1
<1> HIDE DEF dayOf
<1>4. dayOf \in Surjection(1..n, dates)
  BY <1>2, <1>3 DEF Surjection
<1>5. IsFiniteSet(1..n) /\ Cardinality(1..n) = n
  BY <1>1, IntervalCount
<1>6. Cardinality(dates) <= n
  BY <1>4, <1>5, FS_Surjection
<1>7. Month!Total = Cardinality(dates) /\ Month!Total \in Nat
  BY DatesAreFinite
<1> QED BY <1>1, <1>6, <1>7

-----------------------------------------------------------------------------
MonthTypes ==
    /\ perWeek \in 1..7 /\ dates \in SUBSET (1..31)
    /\ weight \in [1..NumPillars -> 0..WeightSum]
    /\ share \in [1..NumPillars -> Nat] /\ credit \in Ledger
    /\ schedule \in Seq(Posting) /\ Len(schedule) <= Month!Total

\* The shares are those of the weights.
SharesFit ==
    /\ Month!SumOf(share) = Month!Total
    /\ \A p \in 1..NumPillars :
          WeightSum * share[p] - Month!Total * weight[p] \in (1 - WeightSum)..(WeightSum - 1)

\* What each pillar is owed: nothing altogether, and to none is as much as a
\* post advanced.
LedgerFits ==
    /\ Month!SumOf(credit) = 0
    /\ \A p \in 1..NumPillars :
          /\ credit[p] = Len(schedule) * share[p] - Month!Total * Month!Used(p)
          /\ Month!Total > 0 => 1 - Month!Total <= credit[p]

\* The dates are used from the first on.
DatesFill ==
    \A d \in dates : \/ \E i \in DOMAIN schedule : schedule[i].day = d
                     \/ \A i \in DOMAIN schedule : schedule[i].day < d

\* As one pillar at least is owed as much as it, none is owed more than half of
\* what the others can have been advanced.
KeepsUp ==
    Month!Total > 0 => \A p \in 1..NumPillars :
        2 * credit[p] <= (NumPillars - 1) * Month!Total - (NumPillars - 2)

\* The inductive invariant of the month.
MonthInv == MonthTypes /\ SharesFit /\ LedgerFits /\ KeepsUp /\ DatesFill

LEMMA UsedIsNat ==
    ASSUME MonthTypes, NEW p \in 1..NumPillars
    PROVE  Month!Used(p) \in Nat
BY UsedIsUses, UsesAreCounted DEF MonthTypes

LEMMA TotalIsNat == ASSUME MonthTypes PROVE Month!Total \in 0..31
BY DatesAreFinite DEF MonthTypes

LEMMA NoneAddUp ==
    /\ [q \in 1..NumPillars |-> 0] \in Ledger
    /\ Month!SumOf([q \in 1..NumPillars |-> 0]) = 0
<1> DEFINE none == [q \in 1..NumPillars |-> 0]
<1>1. none \in Ledger /\ IsFlat(none, 0)
  BY DEF Ledger, IsFlat
<1> HIDE DEF none
<1>2. Month!SumOf(none) = NumPillars * 0
  BY <1>1, SumOfSame
<1> QED BY <1>1, <1>2, CadenceAssumption DEF none

\* A share is no more than all of them, and is none if they are.
LEMMA SharesAreSmall ==
    ASSUME MonthTypes, SharesFit, NEW p \in 1..NumPillars
    PROVE  share[p] \in 0..Month!Total
<1> DEFINE none == [q \in 1..NumPillars |-> 0]
           rest == [share EXCEPT ![p] = 0]
<1>1. rest \in Ledger /\ share \in Ledger /\ share[p] \in Nat
  BY DEF MonthTypes, Ledger
<1>2. Covers(rest, none) /\ DiffersAt(p, share, rest) /\ rest[p] = 0
  BY DEF Covers, DiffersAt, MonthTypes
<1>3. none \in Ledger /\ Month!SumOf(none) = 0
  BY NoneAddUp
<1> HIDE DEF none, rest
<1>4. 0 <= Month!SumOf(rest)
  BY <1>1, <1>2, <1>3, SumMonotone
<1>5. Month!SumOf(rest) = (Month!SumOf(share) - share[p]) + rest[p]
  BY <1>1, <1>2, SumPoint
<1> QED BY <1>1, <1>2, <1>4, <1>5, TotalIsNat DEF SharesFit

-----------------------------------------------------------------------------
\* distribute_pillars: the chosen pillar was owed something, and no other more.
Raised == [p \in 1..NumPillars |-> credit[p] + share[p]]
Sharers == {p \in 1..NumPillars : share[p] > 0}

LEMMA RaisedAdds ==
    ASSUME MonthInv
    PROVE  /\ Raised \in Ledger /\ Month!SumOf(Raised) = Month!Total
           /\ \A p \in 1..NumPillars : Raised[p] = credit[p] + share[p]
<1>1. credit \in Ledger /\ share \in Ledger /\ Raised \in Ledger
  BY DEF MonthInv, MonthTypes, Ledger, Raised
<1>2. \A p \in 1..NumPillars : Raised[p] = credit[p] + share[p]
  BY DEF Raised
<1>3. Mixes(Raised, 1, credit, 1, share)
  BY <1>1, <1>2 DEF Mixes, Ledger
<1>4. Month!SumOf(Raised) = 1 * Month!SumOf(credit) + 1 * Month!SumOf(share)
  BY <1>1, <1>3, SumLinear
<1>5. Month!SumOf(credit) = 0 /\ Month!SumOf(share) = Month!Total /\ Month!Total \in 0..31
  BY TotalIsNat DEF MonthInv, SharesFit, LedgerFits
<1>6. Month!SumOf(Raised) = Month!Total
  BY <1>4, <1>5
<1> QED BY <1>1, <1>2, <1>6

LEMMA ChosenIsOwed ==
    ASSUME MonthInv, Month!Total > 0
    PROVE  /\ Month!Chosen(Raised) \in 1..NumPillars
           /\ Raised[Month!Chosen(Raised)] >= 1
           /\ \A q \in 1..NumPillars : Raised[q] <= Raised[Month!Chosen(Raised)]
<1> DEFINE none == [q \in 1..NumPillars |-> 0]
           p == Month!Chosen(Raised)
<1>1. /\ Raised \in Ledger /\ Month!SumOf(Raised) = Month!Total
      /\ \A q \in 1..NumPillars : Raised[q] = credit[q] + share[q]
  BY RaisedAdds
<1>2. none \in Ledger /\ Month!SumOf(none) = 0 /\ \A q \in 1..NumPillars : none[q] = 0
  BY NoneAddUp
<1>3. Month!Total \in Nat /\ share \in Ledger /\ \A q \in 1..NumPillars : share[q] \in Nat
  <2>1. Month!Total \in 0..31
    BY TotalIsNat DEF MonthInv
  <2>2. share \in [1..NumPillars -> Nat]
    BY DEF MonthInv, MonthTypes
  <2> QED BY <2>1, <2>2 DEF Ledger
<1> HIDE DEF none
<1>4. Sharers # {}
  <2>1. SUFFICES ASSUME Sharers = {} PROVE FALSE
    OBVIOUS
  <2>2. Covers(none, share)
    BY <1>2, <1>3, <2>1 DEF Covers, Sharers
  <2>3. Month!SumOf(share) <= 0
    BY <1>2, <1>3, <2>2, SumMonotone
  <2> QED BY <1>3, <2>3 DEF MonthInv, SharesFit
<1>5. \E q \in Sharers : Leads(Raised, Sharers, q)
  BY <1>1, <1>4, OneLeads DEF Sharers
<1>6. p \in Sharers /\ Leads(Raised, Sharers, p)
  <2>1. \E q \in Month!Pillars :
           /\ share[q] > 0
           /\ \A r \in Month!Pillars : share[r] > 0 =>
                 Raised[q] > Raised[r] \/ (Raised[q] = Raised[r] /\ q <= r)
    BY <1>5 DEF Sharers, Leads, Month!Pillars
  <2>2. /\ p \in Month!Pillars /\ share[p] > 0
        /\ \A r \in Month!Pillars : share[r] > 0 =>
              Raised[p] > Raised[r] \/ (Raised[p] = Raised[r] /\ p <= r)
    BY <2>1 DEF Month!Chosen
  <2> QED BY <2>2 DEF Sharers, Leads, Month!Pillars
<1>7. p \in 1..NumPillars /\ Raised[p] \in Int
  BY <1>1, <1>6 DEF Sharers, Ledger
<1> HIDE DEF p
<1>8. ASSUME NEW q \in (1..NumPillars) \ Sharers PROVE Raised[q] <= 0
  <2>1. share[q] = 0
    BY <1>3 DEF Sharers
  <2>2. Month!Total * Month!Used(q) \in Nat
    BY <1>3, UsedIsNat, Grows DEF MonthInv
  <2>3. credit[q] = Len(schedule) * 0 - Month!Total * Month!Used(q)
    BY <2>1 DEF MonthInv, LedgerFits
  <2>4. Len(schedule) \in Nat
    BY DEF MonthInv, MonthTypes
  <2> QED BY <1>1, <2>1, <2>2, <2>3, <2>4
<1>9. \A q \in Sharers : Raised[q] <= Raised[p]
  <2>1. \A q \in Sharers : Raised[q] \in Int
    BY <1>1 DEF Ledger, Sharers
  <2> QED BY <1>6, <1>7, <2>1 DEF Leads
<1>10. Raised[p] >= 1
  <2>1. SUFFICES ASSUME Raised[p] <= 0 PROVE FALSE
    BY <1>7
  <2>2. \A q \in 1..NumPillars : Raised[q] \in Int
    BY <1>1 DEF Ledger
  <2>3. \A q \in 1..NumPillars : Raised[q] <= 0
    BY <1>7, <1>8, <1>9, <2>1, <2>2
  <2>4. Covers(none, Raised)
    BY <1>2, <2>3 DEF Covers
  <2>5. Month!SumOf(Raised) <= 0
    BY <1>1, <1>2, <2>4, SumMonotone
  <2> QED BY <1>1, <1>3, <2>5
<1>11. \A q \in 1..NumPillars : Raised[q] <= Raised[p]
  <2>1. \A q \in 1..NumPillars : Raised[q] \in Int
    BY <1>1 DEF Ledger
  <2> QED BY <1>7, <1>8, <1>9, <1>10, <2>1
<1> QED BY <1>7, <1>10, <1>11 DEF p

\* None of the others is owed more than half of what there is to owe.
LEMMA OthersKeepUp ==
    ASSUME MonthInv, Month!Total > 0, NEW q \in 1..NumPillars, q # Month!Chosen(Raised)
    PROVE  2 * Raised[q] <= (NumPillars - 1) * Month!Total - (NumPillars - 2)
<1> DEFINE T == Month!Total
           p == Month!Chosen(Raised)
           low == [r \in 1..NumPillars |-> 1 - T]
           lowQ == [low EXCEPT ![q] = Raised[q]]
           lowPQ == [lowQ EXCEPT ![p] = Raised[p]]
<1>1. T \in Nat /\ T > 0
  BY TotalIsNat DEF MonthInv
<1>2. /\ Raised \in Ledger /\ Month!SumOf(Raised) = T
      /\ \A r \in 1..NumPillars : Raised[r] = credit[r] + share[r]
  BY RaisedAdds
<1>3. p \in 1..NumPillars /\ p # q /\ \A r \in 1..NumPillars : Raised[r] <= Raised[p]
  BY ChosenIsOwed
<1>4. \A r \in 1..NumPillars : Raised[r] \in Int /\ 1 - T <= Raised[r]
  <2>1. \A r \in 1..NumPillars : 1 - T <= credit[r]
    BY <1>1 DEF MonthInv, LedgerFits
  <2>2. \A r \in 1..NumPillars : credit[r] \in Int /\ share[r] \in Nat
    BY DEF MonthInv, MonthTypes, Ledger
  <2> HIDE DEF T
  <2> QED BY <1>1, <1>2, <2>1, <2>2
<1> HIDE DEF T, p
<1>5. low \in Ledger /\ lowQ \in Ledger /\ lowPQ \in Ledger
  BY <1>1, <1>3, <1>4 DEF Ledger
<1>6. /\ IsFlat(low, 1 - T) /\ low[q] = 1 - T /\ 1 - T \in Int
      /\ DiffersAt(q, low, lowQ) /\ lowQ[q] = Raised[q] /\ lowQ[p] = 1 - T
      /\ DiffersAt(p, lowQ, lowPQ) /\ lowPQ[p] = Raised[p]
  BY <1>1, <1>3 DEF IsFlat, DiffersAt
<1>7. Covers(Raised, lowPQ)
  BY <1>1, <1>3, <1>4 DEF Covers
<1> HIDE DEF low, lowQ, lowPQ
<1>8. Month!SumOf(low) = NumPillars * (1 - T)
  BY <1>5, <1>6, SumOfSame
<1>9. Month!SumOf(lowQ) = (Month!SumOf(low) - low[q]) + lowQ[q]
  BY <1>5, <1>6, SumPoint
<1>10. Month!SumOf(lowPQ) = (Month!SumOf(lowQ) - lowQ[p]) + lowPQ[p]
  BY <1>3, <1>5, <1>6, SumPoint
<1>11. Month!SumOf(lowPQ) <= T
  BY <1>2, <1>5, <1>7, SumMonotone
<1>12. NumPillars * (1 - T) = NumPillars - NumPillars * T /\ NumPillars * T \in Int
  BY <1>1, CadenceAssumption
<1>13. (NumPillars - 1) * T = NumPillars * T - T
  BY <1>1, CadenceAssumption
<1> DEFINE whole == NumPillars * T
<1> HIDE DEF whole
<1>14. 2 * Raised[q] <= (whole - T) - (NumPillars - 2)
  <2>1. Raised[p] \in Int /\ Raised[q] \in Int /\ Raised[q] <= Raised[p]
    BY <1>3, <1>4
  <2>2. whole \in Int /\ Month!SumOf(low) = NumPillars - whole
    BY <1>8, <1>12 DEF whole
  <2> QED BY <1>1, <1>6, <1>9, <1>10, <1>11, <2>1, <2>2, CadenceAssumption
<1> QED BY <1>13, <1>14 DEF T, whole

-----------------------------------------------------------------------------
\* What a pillar is ahead is what it is not owed.
LEMMA AheadIsCredit ==
    ASSUME MonthInv, NEW p \in 1..NumPillars
    PROVE  Month!Ahead(p) = -credit[p] /\ credit[p] \in Int
<1> DEFINE a == Month!Total * Month!Used(p)
           b == Len(schedule) * share[p]
<1>1. a \in Int /\ b \in Int
  <2>1. Month!Total \in Int /\ Month!Used(p) \in Int
    BY TotalIsNat, UsedIsNat DEF MonthInv
  <2>2. Len(schedule) \in Int /\ share[p] \in Int
    BY DEF MonthInv, MonthTypes
  <2> QED BY <2>1, <2>2
<1>2. credit[p] = b - a
  BY DEF MonthInv, LedgerFits
<1>3. Month!Ahead(p) = a - b
  BY DEF Month!Ahead
<1> HIDE DEF a, b
<1> QED BY <1>1, <1>2, <1>3

\* The month comes out as promised.
LEMMA MonthIsFair == MonthInv => MonthIsShared
<1> SUFFICES ASSUME MonthInv PROVE MonthIsShared
  OBVIOUS
<1>1. Month!Total \in 0..31 /\ \A p \in 1..NumPillars : Month!Used(p) \in Nat
  BY TotalIsNat, UsedIsNat DEF MonthInv
<1>2. \A p \in 1..NumPillars : share[p] \in 0..Month!Total
  BY SharesAreSmall DEF MonthInv
<1>3. /\ share \in Ledger /\ credit \in Ledger /\ Len(schedule) \in Nat
      /\ \A p \in 1..NumPillars : share[p] \in Nat /\ credit[p] \in Int
  BY DEF MonthInv, MonthTypes, Ledger
<1>4. Month!TypeOK
  <2>1. share \in [1..NumPillars -> 0..31]
    <3>1. share \in [1..NumPillars -> Nat]
      BY DEF MonthInv, MonthTypes
    <3>2. \A p \in 1..NumPillars : share[p] \in 0..31
      BY <1>1, <1>2
    <3> QED BY <3>1, <3>2
  <2> QED BY <2>1 DEF MonthInv, MonthTypes, Ledger, Posting, Month!TypeOK, Month!Pillars
<1>5. Month!WeekIsEven
  BY WeekIsEvenHolds DEF MonthInv, MonthTypes
<1>6. ASSUME Len(schedule) = Month!Total, NEW p \in 1..NumPillars
      PROVE  Month!Used(p) = share[p]
  <2> DEFINE none == [q \in 1..NumPillars |-> 0]
  <2>1. none \in Ledger /\ Month!SumOf(none) = 0 /\ \A q \in 1..NumPillars : none[q] = 0
    BY NoneAddUp
  <2> HIDE DEF none
  <2>2. CASE Month!Total = 0
    <3>1. share[p] = 0
      BY <1>2, <2>2
    <3>2. Month!Used(p) \in 0..Len(schedule)
      BY UsedIsUses, UsesAreCounted DEF MonthInv, MonthTypes
    <3> QED BY <1>6, <2>2, <3>1, <3>2
  <2>3. CASE Month!Total > 0
    <3>1. ASSUME NEW q \in 1..NumPillars
          PROVE  /\ credit[q] = Month!Total * (share[q] - Month!Used(q))
                 /\ credit[q] >= 0
      <4> DEFINE T == Month!Total
                 left == share[q] - Month!Used(q)
      <4>1. /\ credit[q] = T * share[q] - T * Month!Used(q)
            /\ 1 - T <= credit[q]
        BY <1>6, <2>3 DEF MonthInv, LedgerFits
      <4>2. share[q] \in Int /\ Month!Used(q) \in Int /\ T \in Nat /\ T > 0
        BY <1>1, <1>3, <2>3
      <4> HIDE DEF T
      <4>3. credit[q] = T * left
        BY <4>1, <4>2
      <4>4. left \in Int
        BY <4>2
      <4> HIDE DEF left
      <4>5. left >= 0
        <5>1. SUFFICES ASSUME left <= -1 PROVE FALSE
          BY <4>4
        <5>2. T * (-left - 1) \in Nat
          BY <4>2, <4>4, <5>1, Grows
        <5>3. T * (-left - 1) = -(T * left) - T /\ T * left \in Int
          BY <4>2, <4>4
        <5> QED BY <4>1, <4>2, <4>3, <5>2, <5>3
      <4>6. T * left \in Nat
        BY <4>2, <4>4, <4>5, Grows
      <4> QED BY <4>3, <4>6 DEF T, left
    <3>2. Covers(credit, none)
      BY <2>1, <3>1 DEF Covers
    <3>3. \A q \in 1..NumPillars : ~(0 < credit[q])
      BY <1>3, <2>1, <3>2, SumMonotone DEF MonthInv, LedgerFits
    <3>4. credit[p] = 0
      BY <1>3, <3>1, <3>3
    <3> DEFINE left == share[p] - Month!Used(p)
    <3>5. left \in Int /\ Month!Total * left = 0
      BY <1>1, <1>3, <3>1, <3>4
    <3> HIDE DEF left
    <3>6. left = 0
      BY <1>1, <2>3, <3>5
    <3> QED BY <1>1, <1>3, <3>6 DEF left
  <2> QED BY <1>1, <2>2, <2>3
<1>7. Month!SharesAreExact
  BY <1>6 DEF MonthInv, SharesFit, Month!SharesAreExact, Month!Pillars
<1>8. ASSUME Month!Total > 0, NEW p \in 1..NumPillars PROVE Month!Ahead(p) < Month!Total
  <2>1. 1 - Month!Total <= credit[p]
    BY <1>8 DEF MonthInv, LedgerFits
  <2> QED BY <1>1, <2>1, AheadIsCredit
<1>9. Month!NoClumps
  BY <1>8 DEF Month!NoClumps, Month!Pillars
<1> QED BY <1>4, <1>5, <1>7, <1>9 DEF MonthIsShared

-----------------------------------------------------------------------------
\* generate_posting_dates: nothing is posted yet.
LEMMA MonthStarts ==
    ASSUME perWeek \in 1..7, dates \in SUBSET (1..31),
           weight \in [1..NumPillars -> 0..WeightSum], share \in [1..NumPillars -> Nat],
           SharesFit, credit = [p \in 1..NumPillars |-> 0], schedule = <<>>
    PROVE  MonthInv
<1>1. Month!Total \in 0..31
  BY DatesAreFinite
<1>2. credit \in Ledger /\ Month!SumOf(credit) = 0
  BY NoneAddUp
<1>3. MonthTypes
  BY <1>1, <1>2 DEF MonthTypes
<1>4. LedgerFits
  <2>1. ASSUME NEW p \in 1..NumPillars
        PROVE  /\ credit[p] = Len(schedule) * share[p] - Month!Total * Month!Used(p)
               /\ Month!Total > 0 => 1 - Month!Total <= credit[p]
    <3>1. Month!Used(p) = 0
      BY UsedIsUses, NothingUsed
    <3>2. credit[p] = 0 /\ Len(schedule) = 0 /\ share[p] \in Nat
      OBVIOUS
    <3>3. Len(schedule) * share[p] = 0 /\ Month!Total * Month!Used(p) = 0
      BY <1>1, <3>1, <3>2
    <3> QED BY <1>1, <3>2, <3>3
  <2> QED BY <1>2, <2>1 DEF LedgerFits
<1>5. DatesFill
  BY DEF DatesFill
<1>6. KeepsUp
  <2>1. ASSUME NEW p \in 1..NumPillars, Month!Total > 0
        PROVE  2 * credit[p] <= (NumPillars - 1) * Month!Total - (NumPillars - 2)
    <3>1. NumPillars - 1 \in Nat /\ Month!Total - 1 \in Nat /\ Month!Total \in Int
      BY <1>1, <2>1, CadenceAssumption
    <3>2. (NumPillars - 1) * (Month!Total - 1) \in Nat
      BY <3>1, Grows
    <3> DEFINE whole == (NumPillars - 1) * Month!Total
    <3>3. (NumPillars - 1) * (Month!Total - 1) = whole - (NumPillars - 1) /\ whole \in Int
      BY <3>1
    <3>4. credit[p] = 0
      OBVIOUS
    <3> HIDE DEF whole
    <3>5. whole - (NumPillars - 1) \in Nat
      BY <3>2, <3>3
    <3>6. 2 * credit[p] <= whole - (NumPillars - 2)
      BY <3>3, <3>4, <3>5, CadenceAssumption
    <3> QED BY <3>6 DEF whole
  <2> QED BY <2>1 DEF KeepsUp
<1> QED BY <1>3, <1>4, <1>5, <1>6 DEF MonthInv

LEMMA MonthInit == Month!Init => MonthInv
<1> SUFFICES ASSUME Month!Init PROVE MonthInv
  OBVIOUS
<1>1. perWeek \in 1..7 /\ weight \in [1..NumPillars -> 0..WeightSum] /\ schedule = <<>>
  BY DEF Month!Init, Month!Pillars
<1>2. Month!SumOf(weight) = WeightSum /\ credit = [p \in 1..NumPillars |-> 0]
  BY DEF Month!Init, Month!Pillars
<1>3. dates \in SUBSET (1..31)
  <2>1. PICK first \in Month!Days, length \in Lengths, start \in Starts :
            dates = Month!PostingDates(perWeek, first, length, start)
    BY DEF Month!Init
  <2>2. length \in 1..31 /\ start \in 1..31
    BY CadenceAssumption
  <2>3. dates \subseteq start..length
    BY <2>1 DEF Month!PostingDates
  <2> QED BY <2>2, <2>3
<1>4. Month!Total \in Nat
  BY <1>3, DatesAreFinite
<1>5. share = Month!AllocatePillars(Month!Total, weight)
  BY DEF Month!Init
<1> DEFINE T == Month!Total
<1> HIDE DEF T
<1>6. /\ Month!AllocatePillars(T, weight) \in [1..NumPillars -> Nat]
      /\ Month!SumOf(Month!AllocatePillars(T, weight)) = T
      /\ \A p \in 1..NumPillars :
            WeightSum * Month!AllocatePillars(T, weight)[p] - T * weight[p]
               \in (1 - WeightSum)..(WeightSum - 1)
  BY <1>1, <1>2, <1>4, SharesOfWeights DEF T
<1>7. share \in [1..NumPillars -> Nat] /\ SharesFit
  BY <1>5, <1>6 DEF SharesFit, T
<1> QED BY <1>1, <1>2, <1>3, <1>7, MonthStarts

\* The month that is not looked at has no dates.
LEMMA MonthIdle == CadenceIdle => MonthInv
<1> SUFFICES ASSUME CadenceIdle PROVE MonthInv
  OBVIOUS
<1>1. /\ perWeek = 1 /\ dates = {} /\ schedule = <<>>
      /\ weight \in [1..NumPillars -> 0..WeightSum]
      /\ share = [p \in 1..NumPillars |-> 0] /\ credit = [p \in 1..NumPillars |-> 0]
  BY CadenceAssumption DEF CadenceIdle
<1>2. Month!Total = 0
  BY <1>1, SameCount, FS_EmptySet DEF Month!Total
<1>3. Month!SumOf(share) = 0
  BY <1>1, NoneAddUp
<1>4. ASSUME NEW p \in 1..NumPillars
      PROVE  WeightSum * share[p] - Month!Total * weight[p]
                \in (1 - WeightSum)..(WeightSum - 1)
  <2>1. share[p] = 0 /\ weight[p] \in Int /\ WeightSum \in Nat \ {0}
    BY <1>1, CadenceAssumption
  <2>2. WeightSum * 0 = 0 /\ 0 * weight[p] = 0
    BY <2>1
  <2> QED BY <1>2, <2>1, <2>2
<1>5. SharesFit
  BY <1>2, <1>3, <1>4 DEF SharesFit
<1>6. share \in [1..NumPillars -> Nat]
  BY <1>1
<1> QED BY <1>1, <1>5, <1>6, MonthStarts

LEMMA DistributeStep == MonthInv /\ Month!Distribute => MonthInv'
<1> SUFFICES ASSUME MonthInv, Month!Distribute PROVE MonthInv'
  OBVIOUS
<1> DEFINE T == Month!Total
           n == Len(schedule)
           p == Month!Chosen(Raised)
           free == {d \in dates : \A i \in DOMAIN schedule : schedule[i].day < d}
           day == Month!Min(free)
           x == [day |-> day, pillar |-> p, prompt |-> Month!Used(p) % Prompts]
<1>1. n < T /\ UNCHANGED <<perWeek, dates, weight, share>>
  BY DEF Month!Distribute
<1>2. credit' = [Raised EXCEPT ![p] = @ - T] /\ schedule' = Append(schedule, x)
  BY DEF Month!Distribute, Month!Pillars, Raised
<1>3. T \in 0..31 /\ n \in Nat /\ n + 1 <= T /\ T > 0
  <2>1. T \in 0..31
    BY TotalIsNat DEF MonthInv
  <2>2. n \in Nat
    BY DEF MonthInv, MonthTypes
  <2> QED BY <1>1, <2>1, <2>2
<1>4. p \in 1..NumPillars /\ Raised[p] >= 1
  BY <1>3, ChosenIsOwed
<1>5. /\ Raised \in Ledger /\ Month!SumOf(Raised) = T
      /\ \A q \in 1..NumPillars : Raised[q] = credit[q] + share[q]
  BY RaisedAdds
<1>6. \A q \in 1..NumPillars : /\ Raised[q] \in Int /\ credit[q] \in Int /\ share[q] \in Nat
                               /\ Month!Used(q) \in Nat
  BY <1>5, UsedIsNat DEF MonthInv, MonthTypes, Ledger
<1>7. dates \in SUBSET (1..31) /\ schedule \in Seq(Posting)
  BY DEF MonthInv, MonthTypes
<1>8. day \in free /\ \A d \in free : day <= d
  <2>1. free # {}
    <3>1. PICK d \in dates : \A i \in DOMAIN schedule : schedule[i].day # d
      BY <1>1, <1>7, ADateIsFree
    <3>2. \A i \in DOMAIN schedule : schedule[i].day < d
      BY <3>1 DEF MonthInv, DatesFill
    <3> QED BY <3>2
  <2>2. free \in SUBSET Nat
    <3>1. \A d \in dates : d \in Nat
      BY <1>7
    <3> QED BY <3>1
  <2> HIDE DEF free
  <2> QED BY <2>1, <2>2, MinIsLeast
<1>9. x \in Posting
  <2>1. day \in dates
    BY <1>8
  <2>2. Month!Used(p) % Prompts \in 0..(Prompts - 1)
    BY <1>4, <1>6, CadenceAssumption
  <2> HIDE DEF day, p
  <2> QED BY <1>4, <2>1, <2>2 DEF Posting
<1>10. T' = T
  BY <1>1 DEF Month!Total
<1>11. Posting' = Posting
  BY <1>1 DEF Posting
<1>12. /\ Append(schedule, x) \in Seq(Posting) /\ Len(Append(schedule, x)) = n + 1
       /\ DOMAIN schedule = 1..n /\ DOMAIN Append(schedule, x) = 1..n + 1
       /\ \A i \in 1..n : Append(schedule, x)[i] = schedule[i]
       /\ Append(schedule, x)[n + 1] = x
  <2> HIDE DEF x
  <2> QED BY <1>7, <1>9
<1>13. x.day = day /\ x.pillar = p
  OBVIOUS
<1>14. ASSUME NEW q \in 1..NumPillars
       PROVE  Month!Used(q)' = IF q = p THEN Month!Used(q) + 1 ELSE Month!Used(q)
  <2> HIDE DEF x, p
  <2>1. Month!Used(q)' = Cardinality(Uses(schedule', q))
    BY SameCount DEF Month!Used, Uses
  <2>2. Cardinality(Uses(Append(schedule, x), q))
           = IF x.pillar = q THEN Cardinality(Uses(schedule, q)) + 1
             ELSE Cardinality(Uses(schedule, q))
    BY <1>7, <1>9, OnePostMore
  <2>3. Month!Used(q) = Cardinality(Uses(schedule, q))
    BY UsedIsUses
  <2> QED BY <1>2, <1>13, <2>1, <2>2, <2>3
<1> HIDE DEF T, n, p, free, day, x
<1>15. /\ credit' \in Ledger /\ credit'[p] = Raised[p] - T
       /\ \A q \in 1..NumPillars : q # p => credit'[q] = Raised[q]
  BY <1>2, <1>3, <1>4, <1>5 DEF Ledger
<1>16. MonthTypes'
  <2>1. schedule' \in Seq(Posting') /\ Len(schedule') <= T'
    BY <1>2, <1>3, <1>10, <1>11, <1>12
  <2> QED BY <1>1, <1>15, <2>1 DEF MonthInv, MonthTypes, Ledger, T
<1>17. SharesFit'
  BY <1>1, <1>10 DEF MonthInv, SharesFit, Month!SumOf, T
<1>18. LedgerFits'
  <2>1. Month!SumOf(credit') = 0
    <3>1. DiffersAt(p, Raised, credit')
      BY <1>15 DEF DiffersAt
    <3>2. Month!SumOf(credit') = (Month!SumOf(Raised) - Raised[p]) + credit'[p]
      BY <1>4, <1>5, <1>15, <3>1, SumPoint
    <3> QED BY <1>3, <1>4, <1>5, <1>6, <1>15, <3>2
  <2>2. ASSUME NEW q \in 1..NumPillars
        PROVE  /\ credit'[q] = (n + 1) * share[q] - T * Month!Used(q)'
               /\ 1 - T <= credit'[q]
    <3> DEFINE a == n * share[q]
               u == Month!Used(q)
    <3>1. /\ credit[q] = a - T * u
          /\ 1 - T <= credit[q]
      BY <1>3 DEF MonthInv, LedgerFits, T, n
    <3>2. u \in Nat /\ share[q] \in Nat /\ a \in Int /\ T * u \in Int
      BY <1>3, <1>6
    <3>3. (n + 1) * share[q] = a + share[q]
      <4>1. ASSUME NEW m \in Nat, NEW s \in Nat PROVE (m + 1) * s = m * s + s
        OBVIOUS
      <4> QED BY <1>3, <3>2, <4>1
    <3>4. T * (u + 1) = T * u + T
      BY <1>3, <3>2
    <3>5. Raised[q] = credit[q] + share[q] /\ credit[q] \in Int /\ Raised[q] \in Int
      BY <1>5, <1>6
    <3>6. Month!Used(q)' = IF q = p THEN u + 1 ELSE u
      BY <1>14
    <3> HIDE DEF a, u
    <3>7. CASE q = p
      BY <1>3, <1>4, <1>15, <3>1, <3>2, <3>3, <3>4, <3>5, <3>6, <3>7
    <3>8. CASE q # p
      BY <1>3, <1>15, <3>1, <3>2, <3>3, <3>5, <3>6, <3>8
    <3> QED BY <3>7, <3>8
  <2>3. Len(schedule') = n + 1 /\ share' = share
    BY <1>1, <1>2, <1>12
  <2>4. Month!SumOf(credit)' = 0
    BY <2>1 DEF Month!SumOf
  <2> QED BY <1>10, <2>2, <2>3, <2>4 DEF LedgerFits, T
<1>19. KeepsUp'
  <2>1. ASSUME NEW q \in 1..NumPillars
        PROVE  2 * credit'[q] <= (NumPillars - 1) * T - (NumPillars - 2)
    <3>1. CASE q = p
      <4>1. 2 * credit[q] <= (NumPillars - 1) * T - (NumPillars - 2)
        BY <1>3 DEF MonthInv, KeepsUp, T
      <4>2. share[q] \in 0..T
        BY SharesAreSmall DEF MonthInv, T
      <4>3. credit'[q] \in Int /\ credit[q] \in Int /\ credit'[q] <= credit[q]
        BY <1>3, <1>5, <1>6, <1>15, <3>1, <4>2
      <4>4. (NumPillars - 1) * T \in Int
        BY <1>3, CadenceAssumption
      <4> QED BY <4>1, <4>3, <4>4, CadenceAssumption
    <3>2. CASE q # p
      BY <1>3, <1>15, <3>2, OthersKeepUp DEF T, p
    <3> QED BY <3>1, <3>2
  <2> QED BY <1>10, <2>1 DEF KeepsUp, T
<1>20. DatesFill'
  <2>1. ASSUME NEW d \in dates
        PROVE  \/ \E i \in 1..n + 1 : schedule'[i].day = d
               \/ \A i \in 1..n + 1 : schedule'[i].day < d
    <3>1. \A i \in 1..n : schedule'[i] = schedule[i]
      BY <1>2, <1>12
    <3>2. schedule'[n + 1].day = day
      BY <1>2, <1>12, <1>13
    <3>3. \A i \in 1..n + 1 : i \in 1..n \/ i = n + 1
      BY <1>3
    <3>4. n + 1 \in 1..n + 1 /\ 1..n \subseteq 1..n + 1
      BY <1>3
    <3>5. CASE \E i \in 1..n : schedule[i].day = d
      BY <3>1, <3>4, <3>5
    <3>6. CASE d = day
      BY <3>2, <3>4, <3>6
    <3>7. CASE d # day /\ \A i \in 1..n : schedule[i].day < d
      <4>1. d \in free /\ day \in free
        BY <1>8, <1>12, <3>7 DEF free
      <4>2. d \in Nat /\ day \in Nat /\ day <= d
        BY <1>7, <1>8, <4>1 DEF free
      <4>3. day < d
        BY <3>7, <4>2
      <4> QED BY <3>1, <3>2, <3>3, <3>7, <4>3
    <3> QED BY <1>12, <3>5, <3>6, <3>7 DEF MonthInv, DatesFill
  <2>2. DOMAIN schedule' = 1..n + 1 /\ dates' = dates
    BY <1>1, <1>2, <1>12
  <2> QED BY <2>1, <2>2 DEF DatesFill
<1> QED BY <1>16, <1>17, <1>18, <1>19, <1>20 DEF MonthInv

LEMMA MonthStays == MonthInv /\ UNCHANGED cadenceVars => MonthInv'
<1> SUFFICES ASSUME MonthInv, UNCHANGED cadenceVars PROVE MonthInv'
  OBVIOUS
<1>1. UNCHANGED <<perWeek, dates, weight, share, credit, schedule>>
  BY DEF cadenceVars
<1>2. MonthTypes'
  BY <1>1 DEF MonthInv, MonthTypes, Ledger, Posting, Month!Total
<1>3. SharesFit'
  BY <1>1 DEF MonthInv, SharesFit, Month!Total, Month!SumOf
<1>4. LedgerFits'
  BY <1>1 DEF MonthInv, LedgerFits, Month!Total, Month!Used, Month!SumOf
<1>5. DatesFill'
  BY <1>1 DEF MonthInv, DatesFill
<1>6. KeepsUp'
  BY <1>1 DEF MonthInv, KeepsUp, Month!Total
<1> QED BY <1>2, <1>3, <1>4, <1>5, <1>6 DEF MonthInv

LEMMA MonthInvHolds ==
    /\ Month!Init \/ CadenceIdle => MonthInv
    /\ MonthInv /\ (Month!Distribute \/ UNCHANGED cadenceVars) => MonthInv'
BY MonthInit, MonthIdle, DistributeStep, MonthStays

(***************************************************************************)
(* Side by side.                                                           *)
(***************************************************************************)
SideInv == HostedInv /\ Status!TypeOK /\ CalendarInv /\ MonthInv

allVars == <<focus, timeVars, statusVars, cadenceVars, vars>>

\* Each of the specifications takes a step of its own or none.
LEMMA SideSteps ==
    [MCNext]_allVars => /\ [Hosted!Next]_(Hosted!vars)
                        /\ [Status!Next]_(Status!vars)
                        /\ [Next]_vars
                        /\ Month!Distribute \/ UNCHANGED cadenceVars
BY DEF MCNext, allVars, timeVars, statusVars, cadenceVars, Hosted!vars, Status!vars, vars

LEMMA SideInvHolds == MCSpec => []SideInv
<1>1. MCInit => SideInv
  <2>1. MCInit => Hosted!Init /\ Init /\ (Status!Init \/ StatusIdle)
                            /\ (Month!Init \/ CadenceIdle)
    BY DEF MCInit
  <2>2. StatusIdle => Status!TypeOK
    <3>1. (CHOOSE time \in Schedule : TRUE) \in Schedule /\ 0 \in 0..MaxTime
      BY HostedAssumption
    <3> QED BY <3>1 DEF StatusIdle, Status!TypeOK
  <2> QED
    BY <2>1, <2>2, HostedInvHolds, StatusTypesHold, CalendarInvHolds, MonthInvHolds
    DEF SideInv
<1>2. SideInv /\ [MCNext]_allVars => SideInv'
  BY SideSteps, HostedInvHolds, StatusTypesHold, CalendarInvHolds, MonthInvHolds DEF SideInv
<1> QED BY <1>1, <1>2, PTL DEF MCSpec, allVars

\* hosted_due_selection.py, worker.py: in no interleaving of worker cycles, deaths,
\* recoveries and retries, wherever a clock is put forward or back, is a post
\* attempted before the clock of its own slot has shown its time; and every
\* variable keeps its type.
THEOREM NothingComesEarly == MCSpec => []NothingEarly
<1>1. HostedTypes => Hosted!TypeOK
  BY DEF HostedTypes, PostRow, PostStatus, CycleState, Stages, Hosted!TypeOK, Hosted!Zones
<1>2. CalendarTypes => TypeOK
  BY DEF CalendarTypes, SlotRow, Command, Commands, TypeOK
<1>3. SideInv => NothingEarly
  BY <1>1, <1>2 DEF SideInv, HostedInv, DueInv, CalendarInv, NothingEarly
<1> QED BY <1>3, SideInvHolds, PTL

\* hosted_worker.py, run_hosted_cycle: a worker that runs alone ends its cycle only
\* when each post that was due had its attempt, or its user's pass raised; and a
\* retry waits until its time has been shown.
THEOREM EveryUserIsServed == MCSpec => CycleServesEveryUser
<1>1. SideInv /\ [MCNext]_allVars => [ServingStep]_(Hosted!vars)
  BY SideSteps, HostedInvHolds DEF SideInv
<1>2. MCSpec => [][ServingStep]_(Hosted!vars)
  BY <1>1, SideInvHolds, PTL DEF MCSpec, allVars
<1> QED BY <1>2 DEF ServingStep, CycleServesEveryUser, Hosted!CycleServesEveryUser

\* publish_status.py, resolve_slot_publish_status: at any time and in any zone,
\* PUBLISHED is shown only if every post is, nothing that needs the owner hides
\* behind another post, an edit of the caption is offered only of a post that has
\* not been sent (the API may still refuse it, for another post of the video), and
\* no retry asks the owner anything.
THEOREM ShownStatusIsHonest == MCSpec => []StatusIsHonest
<1>1. SideInv => StatusIsHonest
  BY NothingIsHiddenHolds, RetriesAskNobodyHolds DEF SideInv, StatusIsHonest
<1> QED BY <1>1, SideInvHolds, PTL

\* publish_status.py, resolve_publication_status: whatever the zones do to their
\* clocks, as long as nothing is written a slot becomes more reassuring only where
\* a wall goes back, and only if what it announced was that a PENDING post is late.
THEOREM OnlyLatenessFades == MCSpec => OnlyLatenessIsTakenBack
<1>1. SideInv /\ SideInv' /\ [MCNext]_allVars => [LatenessStep]_(Status!vars)
  BY SideSteps, ClockUrges DEF SideInv
<1>2. MCSpec => [][LatenessStep]_(Status!vars)
  BY <1>1, SideInvHolds, PTL DEF MCSpec, allVars
<1> QED BY <1>2
        DEF LatenessStep, PutBack, Display, OnlyLatenessIsTakenBack, Status!OnlyLatenessIsTakenBack

\* calendar_manager.py, resolve_app_calendar: wherever commands fail or die and
\* however often the file is lost, Google is asked for one app calendar at most.
THEOREM OneAppCalendar == MCSpec => []CalendarIsCreatedOnce
<1>1. SideInv => CalendarIsCreatedOnce
  BY DEF SideInv, CalendarInv, CreatedInv, CalendarIsCreatedOnce
<1> QED BY <1>1, SideInvHolds, PTL

\* clear_calendar.py against content_store.py (assign_slot, delete_slot): no
\* order of a command's steps and the owner's assignments leaves a video with a
\* slot that is gone, open, or another video's.
THEOREM VideosKeepTheirSlots == MCSpec => []VideoHasItsSlot
<1>1. SideInv => VideoHasItsSlot
  BY DEF SideInv, CalendarInv
<1> QED BY <1>1, SideInvHolds, PTL

\* cadence.py, auto_posting_weekdays, allocate_pillars, distribute_pillars: for any
\* number of pillars and any weights, the posting days of the week are as far apart
\* as each other to within a day, each pillar gets its weight's share to within a
\* post, the shares fill the month and are used up in it, and at no point of it is
\* a pillar a whole post ahead.
THEOREM MonthIsSharedOut == MCSpec => []MonthIsShared
<1>1. SideInv => MonthIsShared
  BY MonthIsFair DEF SideInv
<1> QED BY <1>1, SideInvHolds, PTL

\* Twice what a pillar is behind is no more than the others can be ahead.
WaitIsBounded ==
    Month!Total > 0 => \A p \in 1..NumPillars :
        2 * (-Month!Ahead(p)) <= (NumPillars - 1) * Month!Total - (NumPillars - 2)

\* cadence.py, distribute_pillars: at no point of the month is one of n pillars more
\* than (n - 1) / 2 posts behind its share, of four a post and a half.
THEOREM PillarsKeepUp == MCSpec => []WaitIsBounded
<1>1. MonthInv => WaitIsBounded
  <2> SUFFICES ASSUME MonthInv, Month!Total > 0, NEW p \in 1..NumPillars
               PROVE  2 * (-Month!Ahead(p)) <= (NumPillars - 1) * Month!Total - (NumPillars - 2)
    BY DEF WaitIsBounded
  <2>1. Month!Ahead(p) = -credit[p] /\ credit[p] \in Int
    BY AheadIsCredit
  <2>2. -Month!Ahead(p) = credit[p]
    BY <2>1
  <2> QED BY <2>2 DEF MonthInv, KeepsUp
<1>2. SideInv => MonthInv
  BY DEF SideInv
<1> QED BY <1>1, <1>2, SideInvHolds, PTL

\* The same: up to three pillars, none is ever a whole post behind.
THEOREM FewPillarsNeverWait == NumPillars <= 3 => (MCSpec => []NoPillarWaits)
<1> SUFFICES ASSUME NumPillars <= 3 PROVE MCSpec => []NoPillarWaits
  OBVIOUS
<1>1. MonthInv /\ WaitIsBounded => NoPillarWaits
  <2> SUFFICES ASSUME MonthInv, WaitIsBounded, Month!Total > 0, NEW p \in 1..NumPillars
               PROVE  -Month!Ahead(p) < Month!Total
    BY DEF NoPillarWaits, Month!NoDrought, Month!Pillars
  <2>1. Month!Ahead(p) \in Int
    BY AheadIsCredit
  <2>2. Month!Total \in 0..31
    BY TotalIsNat DEF MonthInv
  <2>3. 2 * (-Month!Ahead(p)) <= (NumPillars - 1) * Month!Total - (NumPillars - 2)
    BY DEF WaitIsBounded
  <2>4. NumPillars = 1 \/ NumPillars = 2 \/ NumPillars = 3
    BY CadenceAssumption
  <2> QED BY <2>1, <2>2, <2>3, <2>4
<1>2. SideInv => MonthInv
  BY DEF SideInv
<1> QED BY <1>1, <1>2, SideInvHolds, PillarsKeepUp, PTL
=============================================================================
