------------------------------- MODULE MCChat -------------------------------
(* Small instances of Chat for TLC. *)
EXTENDS Chat, TLC

CONSTANTS alice, bob, r1, r2

TwoUsers == {alice, bob}
TwoReviews == {r1, r2}

\* No action or invariant names a user or a review.
ChatSymmetry == Permutations(Users) \cup Permutations(Reviews)
=============================================================================
