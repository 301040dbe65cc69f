------------------------ MODULE PublicationContract ------------------------
(***************************************************************************)
(* What the publishing pipeline promises the owner of a video, without     *)
(* processes, checkpoints or retries.  The owner is shown that the post is *)
(* waiting, published, failed or of unknown outcome; the platform holds    *)
(* submissions that can still become a post (open) or have become one      *)
(* (posted).  Only one submission at a time is allowed to count.  An owner *)
(* who asks for a new submission while the pipeline is still at work on    *)
(* the one before gives the promises up for that post (void).              *)
(***************************************************************************)
CONSTANTS Posts, Ids
VARIABLES shown, open, posted
contractVars == <<shown, open, posted>>

Shown == {"waiting", "published", "failed", "unknown", "void"}

ContractInit ==
    /\ shown = [p \in Posts |-> "waiting"]
    /\ open = [p \in Posts |-> {}]
    /\ posted = [p \in Posts |-> {}]

Show(p, s) == shown' = [shown EXCEPT ![p] = s]

\* Media goes out only if nothing else that counts went out before.
Submit(p, i) ==
    /\ shown[p] \in {"waiting", "unknown"}
    /\ open[p] = {} /\ posted[p] = {}
    /\ open' = [open EXCEPT ![p] = {i}]
    /\ UNCHANGED <<shown, posted>>

Accept(p) ==
    /\ open[p] # {}
    /\ posted' = [posted EXCEPT ![p] = open[p]]
    /\ open' = [open EXCEPT ![p] = {}]
    /\ UNCHANGED shown

Refuse(p) ==
    /\ open[p] # {}
    /\ open' = [open EXCEPT ![p] = {}]
    /\ UNCHANGED <<shown, posted>>

\* An outcome is shown only if it is the platform's.
ReportPublished(p) ==
    /\ shown[p] \in {"waiting", "unknown"} /\ posted[p] # {}
    /\ Show(p, "published")
    /\ UNCHANGED <<open, posted>>

ReportFailed(p) ==
    /\ shown[p] \in {"waiting", "unknown"} /\ open[p] = {} /\ posted[p] = {}
    /\ Show(p, "failed")
    /\ UNCHANGED <<open, posted>>

Park(p) ==
    /\ shown[p] = "waiting"
    /\ Show(p, "unknown")
    /\ UNCHANGED <<open, posted>>

\* A person asks again; for an unknown outcome either to look again, or after
\* stating that nothing was published, so that what was sent no longer counts.
Reopen(p) ==
    /\ shown[p] \in {"failed", "unknown"}
    /\ Show(p, "waiting")
    /\ \/ UNCHANGED <<open, posted>>
       \/ /\ shown[p] = "unknown"
          /\ open' = [open EXCEPT ![p] = {}]
          /\ posted' = [posted EXCEPT ![p] = {}]

Forfeit(p) ==
    /\ shown[p] \in {"failed", "unknown"}
    /\ Show(p, "void")
    /\ open' = [open EXCEPT ![p] = {}]
    /\ posted' = [posted EXCEPT ![p] = {}]

ContractNext ==
    \E p \in Posts :
        \/ \E i \in Ids : Submit(p, i)
        \/ Accept(p) \/ Refuse(p) \/ Park(p) \/ Reopen(p) \/ Forfeit(p)
        \/ ReportPublished(p) \/ ReportFailed(p)

ContractSpec == ContractInit /\ [][ContractNext]_contractVars

\* One video, one post: never two submissions that count, open or posted.
ContractOnce ==
    \A p \in Posts : \A i, j \in open[p] \cup posted[p] : i = j

\* What makes it inductive: the shape of the maps, and that an accepted
\* submission is no longer open.
ContractInv ==
    /\ open \in [Posts -> SUBSET Ids] /\ posted \in [Posts -> SUBSET Ids]
    /\ \A p \in Posts : open[p] = {} \/ posted[p] = {}
    /\ ContractOnce
=============================================================================
