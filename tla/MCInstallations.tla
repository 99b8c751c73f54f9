--------------------------- MODULE MCInstallations ---------------------------
(* Small instances of Installations for TLC. *)
EXTENDS SharedRows, TLC

CONSTANTS i2, r2, r3, alice, bob, p1, p2

OneInst == {i1}
TwoInsts == {i1, i2}
OneRepo == {r1}
ThreeRepos == {r1, r2, r3}
OneRank == r1 :> 1
ThreeRanks == r1 :> 1 @@ r2 :> 2 @@ r3 :> 3

OneUser == {alice}
TwoUsers == {alice, bob}
TwoProcs == {p1, p2}

\* No action or invariant names a process or a user; Rank orders repositories.
InstSymmetry == Permutations(TwoProcs) \cup Permutations(Users)
\* without the properties of SharedRows nothing names an installation either
SyncSymmetry == InstSymmetry \cup Permutations(Insts)
=============================================================================
