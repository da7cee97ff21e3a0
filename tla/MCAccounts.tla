----------------------------- MODULE MCAccounts -----------------------------
(* Accounts for TLC: threads, names and passwords are model values.        *)
EXTENDS Accounts, TLC

Symmetry == Permutations(Threads) \cup Permutations(Names)
            \cup Permutations(Passwords \ {Empty})
=============================================================================
