------------------------------ MODULE MCAccounts ------------------------------
(* Accounts on a small instance: one mailbox in two spellings.                 *)
EXTENDS Accounts, TLC

CONSTANTS plain, capital

MailAddresses == {plain, capital}
MailLower == [a \in MailAddresses |-> IF a = capital THEN plain ELSE a]

\* The addresses differ (Lower tells them apart); nothing names the rest.
AccountSymmetry == Permutations(Ids) \cup Permutations(Passwords)
                   \cup Permutations(Tokens) \cup Permutations(Procs)
================================================================================
