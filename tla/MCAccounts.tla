----------------------------- MODULE MCAccounts -----------------------------
(* Accounts for TLC: users, sessions, tokens and handlers are               *)
(* interchangeable; the patches change one thing each.                      *)
EXTENDS Accounts, TLC

Patch(role, disabled) == [role |-> role, disabled |-> disabled]

SomePatches ==
    {Patch("other", "keep"), Patch("admin", "keep"), Patch("keep", "yes"), Patch("keep", "no")}

Symmetry ==
    Permutations(Users) \cup Permutations(Sessions)
        \cup Permutations(Tokens) \cup Permutations(Requests)
=============================================================================
