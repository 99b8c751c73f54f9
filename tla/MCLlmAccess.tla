---------------------------- MODULE MCLlmAccess ----------------------------
(* Small instances of LlmAccess for TLC. *)
EXTENDS LlmAccess, TLC

CONSTANTS alice, c1, c2, openai

OneUser == {alice}
TwoCalls == {c1, c2}
TwoProviders == {OpenRouter, openai}

\* No action or invariant names a call.
CallSymmetry == Permutations(Calls)
=============================================================================
