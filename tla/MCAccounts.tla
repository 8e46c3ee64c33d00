----------------------------- MODULE MCAccounts -----------------------------
(* TLC instances of Accounts.                                              *)
EXTENDS Accounts, TLC

\* Users, ids, clients and calls differ in nothing but their use.
AccountSymmetry ==
    Permutations(Names) \union Permutations(TGNames) \union Permutations(Clients)
        \union Permutations(IDs) \union Permutations(Calls)

=============================================================================
