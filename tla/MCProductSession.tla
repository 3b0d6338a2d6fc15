--------------------------- MODULE MCProductSession ---------------------------
(***************************************************************************)
(* Small instances of ProductSession for TLC.                              *)
(***************************************************************************)
EXTENDS ProductSession

CONSTANTS k1, k2, r1, r2, r3, tenant, otherTenant, owner, colleague, cognitoA, cognitoB

Listed(subject, t, u, active) == [subject |-> subject, tenant |-> t, user |-> u, active |-> active]

\* The trusted user is listed as disabled.
TrustedDisabled ==
    [entries |-> <<Listed(cognitoA, tenant, owner, FALSE), Listed(cognitoB, tenant, colleague, TRUE)>>,
     trusted |-> <<tenant, owner>>]
\* The trusted user behind two subjects, the first of them disabled.
SharedUser ==
    [entries |-> <<Listed(cognitoA, tenant, owner, FALSE), Listed(cognitoB, tenant, owner, TRUE)>>,
     trusted |-> <<tenant, owner>>]
\* One user in two tenants, disabled in the second.
TwoTenants ==
    [entries |-> <<Listed(cognitoA, tenant, colleague, TRUE), Listed(cognitoB, otherTenant, colleague, FALSE)>>,
     trusted |-> <<tenant, owner>>]
\* The same user, the other way round: the last entries call the user and the
\* membership of the second tenant active.
Reactivated ==
    [entries |-> <<Listed(cognitoA, tenant, colleague, FALSE), Listed(cognitoB, otherTenant, colleague, TRUE)>>,
     trusted |-> <<tenant, owner>>]

MCConfigs == {SharedUser, TwoTenants, Reactivated}
MCTrustedDisabled == {TrustedDisabled}

Symmetry == Permutations(Calls)

=============================================================================
