----------------------------- MODULE SharedRows -----------------------------
(***************************************************************************)
(* The rows that Installations and Ingest share.  What happens to the rows *)
(* of one installation and one of its repositories is what Ingest lets its *)
(* environment do to them: no handler of its own runs.                     *)
(***************************************************************************)
EXTENDS Installations

CONSTANTS i1,   \* the installation
          r1    \* the repository

Empty(value) == [x \in {} |-> value]

Rows == INSTANCE Ingest WITH
    PRs <- {}, Handlers <- {}, MaxDeliveries <- 0, MaxReceipts <- MaxServed + 1,
    MaxFaults <- MaxServed,
    gh <- Empty(None), deliveries <- {}, received <- 0, pull <- Empty(None),
    files <- Empty({}), jobs <- {}, hs <- Empty(None), aborts <- 0, answers <- {},
    writes <- <<>>,
    epoch <- epoch[i1], inst <- inst[i1], repo <- IF repo[r1] = None THEN 0 ELSE epoch[i1]

\* The repository is not transferred: GitHub covers it by no other installation.
NotTransferred == \A i \in Insts \ {i1} : r1 \notin gh[i].repos

\* However webhook events, claims and synchronisations interleave, the rows
\* change only in the steps that Ingest assumes of them: by whole upserts that
\* never lose an owner, and by uninstalls that take the repository with them.
RowsFollowIngest == Rows!Spec
=============================================================================
