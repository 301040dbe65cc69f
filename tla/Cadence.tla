------------------------------ MODULE Cadence ------------------------------
(***************************************************************************)
(* The monthly schedule of the command line: which days of a month are     *)
(* posted on, how many posts each content pillar gets, and in what order   *)
(* they come (calendar/cadence.py, build_schedule in                       *)
(* calendar/generate_calendar.py).  Weights are whole numbers of their     *)
(* sum, where the code has fractions of 1.0.                               *)
(***************************************************************************)
EXTENDS Integers, Sequences, FiniteSets, FiniteSetsExt

CONSTANTS
    NumPillars,  \* numbered in the order of CONTENT_TYPES
    WeightSum,   \* what the weights add up to
    Lengths,     \* of the month, in days
    Starts,      \* first day of the month whose posting time is still to come
    Prompts      \* prompts of each pillar

Pillars == 1..NumPillars

VARIABLES
    perWeek,  \* POSTS_PER_WEEK
    dates,    \* the days that are posted on
    weight,   \* of each pillar
    share,    \* allocate_pillars: posts of each pillar
    credit,   \* distribute_pillars
    schedule  \* the posts so far

vars == <<perWeek, dates, weight, share, credit, schedule>>

Days == 0..6  \* Monday is 0

\* round(): a half goes to the even neighbour.
Round(a, b) ==
    LET whole == a \div b
        twice == 2 * (a % b)
    IN  IF twice > b \/ (twice = b /\ whole % 2 = 1) THEN whole + 1 ELSE whole

AutoPostingWeekdays(n) == {Round(7 * i, n) % 7 : i \in 0..(n - 1)}

\* generate_posting_dates, filter_future_dates: of a month that starts on that
\* day of the week.
PostingDates(n, first, length, start) ==
    {day \in start..length : (first + day - 1) % 7 \in AutoPostingWeekdays(n)}

SumOf(f) ==
    LET sum[i \in 0..NumPillars] == IF i = 0 THEN 0 ELSE sum[i - 1] + f[i]
    IN  sum[NumPillars]

\* Each share rounded on its own.
FaultAllocatePillars(total, w) == [p \in Pillars |-> Round(total * w[p], WeightSum)]

\* What the floor of its share leaves of each pillar's part, and the pillars that
\* come before p when that is made good: the largest first, of equal ones the
\* one that was declared first.
Floor(total, w) == [p \in Pillars |-> (total * w[p]) \div WeightSum]
Remainder(total, w) == [p \in Pillars |-> (total * w[p]) % WeightSum]
Before(total, w, p) ==
    LET remainder == Remainder(total, w)
    IN  {q \in Pillars : \/ remainder[q] > remainder[p]
                         \/ remainder[q] = remainder[p] /\ q < p}

\* allocate_pillars.
AllocatePillars(total, w) ==
    LET floor == Floor(total, w)
    IN  [p \in Pillars |->
            IF Cardinality(Before(total, w, p)) < total - SumOf(floor)
            THEN floor[p] + 1 ELSE floor[p]]

Total == Cardinality(dates)
Used(p) == Cardinality({i \in DOMAIN schedule : schedule[i].pillar = p})

TypeOK ==
    /\ perWeek \in 1..7 /\ dates \subseteq 1..31
    /\ weight \in [Pillars -> 0..WeightSum] /\ share \in [Pillars -> 0..31]
    /\ credit \in [Pillars -> Int]
    /\ schedule \in Seq([day : dates, pillar : Pillars, prompt : 0..(Prompts - 1)])

Init ==
    /\ perWeek \in 1..7
    /\ \E first \in Days, length \in Lengths, start \in Starts :
          dates = PostingDates(perWeek, first, length, start)
    /\ weight \in [Pillars -> 0..WeightSum] /\ SumOf(weight) = WeightSum
    /\ share = AllocatePillars(Total, weight)
    /\ credit = [p \in Pillars |-> 0]
    /\ schedule = <<>>

\* Fault: what a pillar is owed from earlier rounds is not looked at.
FaultChosen(raised) ==
    CHOOSE p \in Pillars :
        /\ Used(p) < share[p]
        /\ \A q \in Pillars : Used(q) < share[q] => p <= q

\* max(): the first of the largest, among the pillars that have a share.
Chosen(raised) ==
    CHOOSE p \in Pillars :
        /\ share[p] > 0
        /\ \A q \in Pillars : share[q] > 0 =>
              raised[p] > raised[q] \/ (raised[p] = raised[q] /\ p <= q)

\* One round of distribute_pillars, and the post of build_schedule it makes.
Distribute ==
    /\ Len(schedule) < Total
    /\ LET raised == [p \in Pillars |-> credit[p] + share[p]]
           p == Chosen(raised)
           day == Min({d \in dates : \A i \in DOMAIN schedule : schedule[i].day < d})
       IN  /\ credit' = [raised EXCEPT ![p] = @ - Total]
           /\ schedule' = Append(schedule,
                                 [day |-> day, pillar |-> p, prompt |-> Used(p) % Prompts])
    /\ UNCHANGED <<perWeek, dates, weight, share>>

Spec == Init /\ [][Distribute]_vars

-----------------------------------------------------------------------------
\* A week has as many posting days as asked for, and no two gaps between
\* neighbours (around the week) differ by more than a day.
WeekIsEven ==
    LET days == AutoPostingWeekdays(perWeek)
        Gap(d) == Min({IF e > d THEN e - d ELSE e + 7 - d : e \in days})
    IN  /\ Cardinality(days) = perWeek /\ days \subseteq Days
        /\ \A d, e \in days : Gap(d) - Gap(e) \in -1..1

\* The month has exactly its posts: every pillar's share is its weight's, to
\* within one post, the shares fill the dates, and the finished order uses each
\* pillar as often as its share says.
SharesAreExact ==
    /\ SumOf(share) = Total
    /\ \A p \in Pillars :
          WeightSum * share[p] - Total * weight[p] \in (1 - WeightSum)..(WeightSum - 1)
    /\ Len(schedule) = Total => \A p \in Pillars : Used(p) = share[p]

\* Total times the posts that a pillar is ahead of its share, at this point of
\* the month.
Ahead(p) == Total * Used(p) - Len(schedule) * share[p]

\* No pillar comes in a clump: it is nowhere a whole post ahead.
NoClumps == Total > 0 => \A p \in Pillars : Ahead(p) < Total

\* Nor is it left out: it is nowhere a whole post behind.  This is a bound of
\* four pillars in one month; of 48 posts in shares of 1, 5, 21 and 21 one
\* would be.
NoDrought == Total > 0 => \A p \in Pillars : -Ahead(p) < Total
=============================================================================
