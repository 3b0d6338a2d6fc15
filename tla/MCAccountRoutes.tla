--------------------------- MODULE MCAccountRoutes ---------------------------
(***************************************************************************)
(* Small instances of AccountRoutes for TLC.                               *)
(***************************************************************************)
EXTENDS AccountRoutes, TLC

CONSTANTS alice, bob, carol, docsAccount, otherAccount, r1, r2, r3, docs, docsReadonly

MCDocsOnly == {{docs}}

Symmetry == Permutations(Requests) \cup Permutations(Members) \cup Permutations(Accounts)

=============================================================================
