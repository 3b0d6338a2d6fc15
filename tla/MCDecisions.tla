----------------------------- MODULE MCDecisions -----------------------------
(***************************************************************************)
(* Small inputs of Decisions for TLC.                                      *)
(***************************************************************************)
EXTENDS Decisions

CONSTANTS letterX, letterG, hashSign, colonSign, tenantA, tenantB, userA, userB, blank

Words(characters) == UNION {[1..n -> characters] : n \in 1..2}

\* Tenants and users of which one is a prefix of another and some hold a
\* separator, so that they share keys; accounts with separators.  The provider
\* is a word of one letter that also occurs in an identifier.
MCProvider == <<letterG>>
MCConnections ==
    [tenant : {<<letterX>>, <<letterX, letterX>>, <<letterX, colonSign>>},
     user : {<<letterX>>, <<letterX, letterX>>, <<letterX, letterG>>, <<hashSign>>,
             <<colonSign, letterX>>, <<letterX, hashSign, letterG>>},
     account : Words({letterX, hashSign, colonSign}) \cup {<<letterG, hashSign, letterX>>}]

MCSessions ==
    [present : BOOLEAN, revoked : BOOLEAN, audience : BOOLEAN, expiresAt : {0, 1, blank},
     tenant : {tenantA, tenantB, blank}, user : {userA, userB}, sessionId : BOOLEAN]
MCDirectories ==
    [tenants : SUBSET Tenants, users : SUBSET Users,
     members : {{}, {<<tenantA, userA>>},
                {<<tenantA, userA>>, <<tenantB, userA>>, <<tenantA, userB>>}}]
MCReferences ==
    [present : BOOLEAN, id : BOOLEAN, tenant : Tenants \cup {blank}, user : Users \cup {blank}]

MCUrls ==
    [scheme : {"https", "http"}, host : {"local", "remote", "none"},
     path : {<<>>, <<"page">>, <<"callback">>, <<"page", "callback">>}, slashes : 0..1,
     query : Suffix, fragment : {"absent", "bare"}]
    \cup [scheme : {"https"}, host : {"remote"}, path : {<<"page">>}, slashes : 0..1,
          query : {"absent"}, fragment : Suffix]

=============================================================================
