------------------------- MODULE PublishRefinement -------------------------
(***************************************************************************)
(* PlatformPost implements PublicationContract: the refinement mapping.    *)
(***************************************************************************)
EXTENDS PlatformPost

ShownStatus(row) ==
    IF row.overtaken THEN "void"
    ELSE CASE row.status = "PUBLISHED" -> "published"
           [] row.status = "FAILED" -> "failed"
           [] row.status = "UNKNOWN" -> "unknown"
           [] OTHER -> "waiting"

Counting(p, media) ==
    {i \in Ids : /\ sub[i].post = p /\ sub[i].media = media /\ ~sub[i].disowned
                 /\ ~post[p].overtaken}

ShownNow == [p \in Posts |-> ShownStatus(post[p])]
OpenNow == [p \in Posts |-> Counting(p, "sent")]
PostedNow == [p \in Posts |-> Counting(p, "published")]

Contract == INSTANCE PublicationContract
    WITH shown <- ShownNow, open <- OpenNow, posted <- PostedNow

\* Whatever the processes, crashes and retries do to a row, its owner and the
\* platform see only steps of the contract.
ImplementsContract == Contract!ContractSpec
=============================================================================
