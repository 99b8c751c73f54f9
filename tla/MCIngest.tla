------------------------------ MODULE MCIngest ------------------------------
(* Small instances of Ingest for TLC. *)
EXTENDS Ingest, TLC

CONSTANTS pr, h1, h2, alice

OnePR == {pr}
TwoHandlers == {h1, h2}
OneUser == {alice}

\* Handlers are interchangeable: no action or invariant names one.
HandlerSymmetry == Permutations(TwoHandlers)
=============================================================================
