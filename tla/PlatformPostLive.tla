-------------------------- MODULE PlatformPostLive --------------------------
(***************************************************************************)
(* What the hosted loop promises of every post it works on: PlatformPost   *)
(* with its faults counted.  A fault is the death of a process, or a       *)
(* status request of reconciliation that fails; a behaviour contains only  *)
(* MaxFaults of them.  (With failing requests for ever, two workers can    *)
(* starve each other: the write that reschedules after an error takes the  *)
(* compare-and-swap from the one that has the answer.)                     *)
(***************************************************************************)
EXTENDS PlatformPost

CONSTANT MaxFaults
ASSUME MaxFaultsAssumption == MaxFaults \in Nat

VARIABLE faults
liveVars == <<vars, faults>>

LiveInit == Init /\ faults = 0

StatusOutage(w) ==
    ReconcileAsk(w) /\ ctx'[w].outcome \in {"retryable", "terminal"}

Fault == (\E a \in Actors : Crash(a)) \/ (\E w \in Workers : StatusOutage(w))

\* The other steps of a process that works on a row.
Running(w) ==
    \/ ExecuteStep(w) \/ RecoveryStep(w) \/ ReconcileWrite(w)
    \/ ReconcileAsk(w) /\ ~StatusOutage(w)

Unfaulty ==
    \/ \E p \in Posts : Materialize(p) \/ TimeArrives(p)
    \/ \E w \in Workers : Running(w) \/ \E p \in Posts : WorkerStarts(w, p)
    \/ \E i \in Ids : TikTokSettles(i)

LiveNext ==
    \/ Unfaulty /\ UNCHANGED faults
    \/ Fault /\ faults < MaxFaults /\ faults' = faults + 1

(***************************************************************************)
(* run_worker_loop runs a cycle every WORKER_POLL_INTERVAL_SECONDS, and    *)
(* every cycle makes every pass over every eligible row: each selection is *)
(* tried again and again, though a row may leave it in between (strong     *)
(* fairness).  Every request has a timeout and every statement returns, so *)
(* a process that works on a row goes on (weak fairness).  TikTok need     *)
(* never settle a submission.                                              *)
(***************************************************************************)
Fairness ==
    /\ \A p \in Posts : WF_liveVars(TimeArrives(p) /\ UNCHANGED faults)
    /\ \A w \in Workers : WF_liveVars(Running(w) /\ UNCHANGED faults)
    /\ \A w \in Workers, p \in Posts :
          /\ SF_liveVars(SelectDue(w, p) /\ UNCHANGED faults)
          /\ SF_liveVars(SelectStale(w, p) /\ UNCHANGED faults)
          /\ SF_liveVars(SelectReconcilable(w, p) /\ UNCHANGED faults)

LiveSpec == LiveInit /\ [][LiveNext]_liveVars /\ Fairness

Settled(p) == post[p].status \in {"PUBLISHED", "FAILED", "UNKNOWN"}

\* Every scheduled post ends with an outcome or in front of a person: no
\* interleaving of passes, errors and crashes leaves it pending or
\* "Publishing..." for ever.
EveryPostSettles ==
    \A p \in Posts : post[p].status \in {"PENDING", "PUBLISHING"} ~> Settled(p)

\* A post that TikTok published is reported PUBLISHED, or parked for its owner,
\* whatever happened to the process that sent it: never lost, never FAILED.
PublicationIsReported ==
    \A i \in Ids :
        sub[i].media = "published" ~>
            \E p \in Posts : /\ post[p].platform_post_id = i
                             /\ post[p].status \in {"PUBLISHED", "UNKNOWN"}
=============================================================================
