---------------------------- MODULE IdentityChecks ----------------------------
(***************************************************************************)
(* Who a request is, and what it may refer to: the checks of identity.py   *)
(* and tenancy.py in their order, the route authorizer of runtime.py, and  *)
(* how setup_status.py reports a session that was refused.                 *)
(*                                                                         *)
(* A session and a reference are records of what the checks tell apart.    *)
(***************************************************************************)
EXTENDS Integers, Sequences, FiniteSetsExt

CONSTANTS Tenants, Users, Blank \* Blank: an absent or blank string

Session == [present : BOOLEAN, revoked : BOOLEAN, audience : BOOLEAN,
            expiresAt : Nat \cup {Blank},
            tenant : Tenants \cup {Blank}, user : Users \cup {Blank},
            sessionId : BOOLEAN]
\* What the tenant directory holds, and which parts of it are active.
Directory == [tenants : SUBSET Tenants, users : SUBSET Users, members : SUBSET (Tenants \X Users)]
Reference == [present : BOOLEAN, id : BOOLEAN,
              tenant : Tenants \cup {Blank}, user : Users \cup {Blank}]

\* The HTTP status behind each error code.
Unauthenticated ==
    {"AUTHENTICATION_REQUIRED", "INVALID_AUTH_TOKEN", "AUTH_TOKEN_EXPIRED", "AUTH_TOKEN_MALFORMED"}
Denied == {"TENANT_ACCESS_DENIED", "TENANT_DISABLED", "USER_DISABLED"}
StatusOf == [code \in Unauthenticated \cup Denied \cup {"VALIDATION_FAILED", "granted"} |->
                IF code \in Unauthenticated THEN 401
                ELSE IF code \in Denied THEN 403
                ELSE IF code = "VALIDATION_FAILED" THEN 400 ELSE 200]

\* The code of the first check that fails, of a sequence <<passes, code>>.
FirstRefusal(checks) ==
    LET failed == {i \in DOMAIN checks : ~checks[i][1]}
    IN IF failed = {} THEN "granted" ELSE checks[Min(failed)][2]

\* assert_active_membership
MembershipChecks(directory, tenant, user) ==
    << <<tenant \in directory.tenants, "TENANT_DISABLED">>,
       <<user \in directory.users, "USER_DISABLED">>,
       <<<<tenant, user>> \in directory.members, "TENANT_ACCESS_DENIED">> >>

\* derive_identity; the subject is required like the tenant and the user.
DeriveIdentity(session, directory, now) ==
    LET wellFormed == Blank \notin {session.expiresAt, session.tenant, session.user} IN
    FirstRefusal(
        << <<session.present, "AUTHENTICATION_REQUIRED">>,
           <<~session.revoked, "INVALID_AUTH_TOKEN">>,
           <<session.audience, "INVALID_AUTH_TOKEN">>,
           <<wellFormed, "AUTH_TOKEN_MALFORMED">>,
           <<wellFormed => now < session.expiresAt, "AUTH_TOKEN_EXPIRED">> >>
        \o MembershipChecks(directory, session.tenant, session.user))

-----------------------------------------------------------------------------
(* References, of a caller <<tenant, user>> that was identified.           *)

\* assert_same_tenant and assert_same_tenant_user: a blank string is a
\* TypeError.
SameTenant(caller, tenant, directory) ==
    FirstRefusal(<< <<tenant # Blank, "TypeError">>,
                    <<caller[1] = tenant, "TENANT_ACCESS_DENIED">> >>
                 \o MembershipChecks(directory, caller[1], caller[2]))
SameTenantUser(caller, ref, directory) ==
    FirstRefusal(<< <<ref.present, "TENANT_ACCESS_DENIED">>,
                    <<Blank \notin {ref.tenant, ref.user}, "TypeError">>,
                    <<caller = <<ref.tenant, ref.user>>, "TENANT_ACCESS_DENIED">> >>
                 \o MembershipChecks(directory, caller[1], caller[2]))

\* Fault: the reference is compared by its tenant alone.
ReferenceOfTenant(caller, ref, supported, directory) ==
    FirstRefusal(<< <<supported, "VALIDATION_FAILED">>,
                    <<ref.present /\ ref.id /\ Blank \notin {ref.tenant, ref.user},
                      "TENANT_ACCESS_DENIED">>,
                    <<caller[1] = ref.tenant, "TENANT_ACCESS_DENIED">> >>
                 \o MembershipChecks(directory, caller[1], caller[2]))

\* assert_authorized_reference
AuthorizedReference(caller, ref, supported, directory) ==
    FirstRefusal(<< <<supported, "VALIDATION_FAILED">>,
                    <<ref.present /\ ref.id /\ Blank \notin {ref.tenant, ref.user},
                      "TENANT_ACCESS_DENIED">>,
                    <<caller = <<ref.tenant, ref.user>>, "TENANT_ACCESS_DENIED">> >>
                 \o MembershipChecks(directory, caller[1], caller[2]))

\* What a route asks a reference to be: of no type, of one the service knows or
\* of another.
ReferenceTypes == {"none", "known", "unknown"}

\* Fault: a reference that is there is taken for one that was asked for.
AuthorizePresentOnly(session, ref, type, directory, now) ==
    LET derived == DeriveIdentity(session, directory, now) IN
    IF derived # "granted" THEN derived
    ELSE IF type = "none" \/ ~ref.present THEN "granted"
    ELSE AuthorizedReference(<<session.tenant, session.user>>, ref, type = "known", directory)

\* AuthRouteAuthorizer: the identity first, then the reference, unless the route
\* asks for none.  A stream always asks for a session, a type it knows.
Authorize(session, ref, type, directory, now) ==
    LET derived == DeriveIdentity(session, directory, now) IN
    IF derived # "granted" THEN derived
    ELSE IF type = "none" THEN "granted"
    ELSE AuthorizedReference(<<session.tenant, session.user>>, ref, type = "known", directory)

-----------------------------------------------------------------------------
(* The product session in the answer of setup status.                      *)

\* Fault: a denial is told by the one code of a refused reference.
ContractOfCode(code) ==
    IF code = "AUTH_TOKEN_EXPIRED" THEN [status |-> "expired", httpStatus |-> 401]
    ELSE [status |-> "anonymous",
          httpStatus |-> IF code = "AUTH_TOKEN_MALFORMED" THEN 400
                         ELSE IF code = "TENANT_ACCESS_DENIED" THEN 403 ELSE 401]

\* _product_session_error_refs and _product_session_contract_error
Contract(code) ==
    IF code = "AUTH_TOKEN_EXPIRED" THEN [status |-> "expired", httpStatus |-> 401]
    ELSE [status |-> "anonymous",
          httpStatus |-> IF code = "AUTH_TOKEN_MALFORMED" THEN 400
                         ELSE IF StatusOf[code] = 403 THEN 403 ELSE 401]

\* get_setup_status, up to the Google accounts (AccountRoutes): a session
\* without an id counts as malformed.
SetupSession(session, directory, now) ==
    LET derived == DeriveIdentity(session, directory, now)
        code == IF derived = "granted" /\ ~session.sessionId THEN "AUTH_TOKEN_MALFORMED" ELSE derived
    IN IF code = "granted" THEN [status |-> "authenticated", httpStatus |-> 200]
       ELSE Contract(code)

=============================================================================
