-------------------------- MODULE ReviewLifecycle --------------------------
(***************************************************************************)
(* What the review queue, its worker, the publisher and the retry endpoint *)
(* promise together about one Review row: it is started PENDING, settled   *)
(* at most once by the attempt that started it, COMPLETED for good or      *)
(* FAILED until a user resets it, and told to GitHub at most once, never   *)
(* before its findings are stored.                                         *)
(***************************************************************************)
CONSTANTS Reviews, Findings, None

VARIABLES
    status,     \* status[r]: the ReviewStatus, "none" before and "deleted" after
    comments,   \* comments[r]: the findings stored with COMPLETED, None until then
    announced   \* announced[r]: a pull request review was created on GitHub

Init ==
    /\ status = [r \in Reviews |-> "none"]
    /\ comments = [r \in Reviews |-> None]
    /\ announced = [r \in Reviews |-> FALSE]

Become(r, from, to) == status[r] = from /\ status' = [status EXCEPT ![r] = to]

Begin(r) == Become(r, "none", "PENDING") /\ UNCHANGED <<comments, announced>>

Complete(r) ==
    /\ Become(r, "PENDING", "COMPLETED")
    /\ \E found \in SUBSET Findings : comments' = [comments EXCEPT ![r] = found]
    /\ UNCHANGED announced

Fail(r) == Become(r, "PENDING", "FAILED") /\ UNCHANGED <<comments, announced>>

\* the retry endpoint
Reset(r) == Become(r, "FAILED", "PENDING") /\ UNCHANGED <<comments, announced>>

Announce(r) ==
    /\ comments[r] # None
    /\ ~announced[r]
    /\ announced' = [announced EXCEPT ![r] = TRUE]
    /\ UNCHANGED <<status, comments>>

\* an uninstall takes the rows of its pull requests
Delete(gone) ==
    /\ \A r \in gone : status[r] # "none"
    /\ status' = [r \in Reviews |-> IF r \in gone THEN "deleted" ELSE status[r]]
    /\ UNCHANGED <<comments, announced>>

Next ==
    \/ \E r \in Reviews : Begin(r) \/ Complete(r) \/ Fail(r) \/ Reset(r) \/ Announce(r)
    \/ \E gone \in SUBSET Reviews : Delete(gone)

Spec == Init /\ [][Next]_<<status, comments, announced>>
=============================================================================
