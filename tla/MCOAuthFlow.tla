----------------------------- MODULE MCOAuthFlow -----------------------------
(***************************************************************************)
(* Small instances of OAuthFlow for TLC.                                   *)
(***************************************************************************)
EXTENDS OAuthFlow, TLC

CONSTANTS f1, f2, c1, c2, alice, bob, k1, k2, app, elsewhere

Symmetry ==
    Permutations(Flows) \cup Permutations(Callbacks)
        \cup Permutations(Users) \cup Permutations(Containers)

=============================================================================
