---------------------------- MODULE MCOAuthTokens ----------------------------
(***************************************************************************)
(* Small instances of OAuthTokens for TLC.                                 *)
(***************************************************************************)
EXTENDS OAuthTokens, TLC

CONSTANTS alice, bob, docsAccount, r1, r2, r3, docs, docsReadonly

\* A connection is granted the full Docs scope or only the readonly one; a
\* handoff asks for one of them.
MCBothScopes == {{docs}, {docsReadonly}}
MCDocsOnly == {{docs}}

Symmetry == Permutations(Requests)

=============================================================================
