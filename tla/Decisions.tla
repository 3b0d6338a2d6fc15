------------------------------ MODULE Decisions ------------------------------
(***************************************************************************)
(* The decisions of the service that keep no state, put to one input each: *)
(* which key a record gets (TokenKeys), who may refer to what              *)
(* (IdentityChecks), which URLs a deployment and a redirect target may     *)
(* have (RuntimeSettings).                                                 *)
(***************************************************************************)
EXTENDS TokenKeys, IdentityChecks, RuntimeSettings

CONSTANTS
    Connections, \* records with tenant, user and account, sequences of characters
    Sessions, Directories, References, Urls,
    MaxTime,     \* bound on the clock
    None         \* no input yet

ASSUME InputsAssumption ==
    /\ Connections \subseteq [tenant : Seq(Character), user : Seq(Character),
                               account : Seq(Character)]
    /\ Sessions \subseteq Session /\ Directories \subseteq Directory
    /\ References \subseteq Reference /\ Urls \subseteq Url
    /\ MaxTime \in Nat

VARIABLE input

InputIs(kind) == input # None /\ input.kind = kind

Init == input = None

PresentConnections ==
    \E c, d \in Connections : input' = [kind |-> "keys", c |-> c, d |-> d]
PresentSession ==
    \E s \in Sessions, directory \in Directories, now \in 0..MaxTime :
        input' = [kind |-> "session", session |-> s, directory |-> directory, now |-> now]
\* Sessions that are judged by who they name; the rest are PresentSession's.
PresentReference ==
    \E s \in Sessions, ref \in References, type \in ReferenceTypes, directory \in Directories :
        /\ s.present /\ ~s.revoked /\ s.audience /\ s.sessionId
        /\ input' = [kind |-> "reference", session |-> s, ref |-> ref,
                      type |-> type, directory |-> directory]
PresentUrls ==
    \E url, other \in Urls : input' = [kind |-> "urls", url |-> url, other |-> other]

Next ==
    /\ input = None
    /\ PresentConnections \/ PresentSession \/ PresentReference \/ PresentUrls

Spec == Init /\ [][Next]_input

-----------------------------------------------------------------------------
(* Properties.                                                             *)

\* Two connections share a key in the table only where a user id holds the
\* separator of the sort key, in memory only where a tenant or user id holds
\* the colon, and two memberships only where a tenant id does; account ids may
\* contain anything.
KeysDistinct ==
    InputIs("keys") =>
        LET c == input.c
            d == input.d
        IN /\ ItemKey(c) = ItemKey(d) =>
                 c = d \/ Holds(c.user, Hash) \/ Holds(d.user, Hash)
           /\ TokenKey(c) = TokenKey(d) =>
                 c = d \/ \E id \in {c.tenant, c.user, d.tenant, d.user} : Holds(id, Colon)
           /\ MembershipKey(c.tenant, c.user) = MembershipKey(d.tenant, d.user) =>
                 \/ c.tenant = d.tenant /\ c.user = d.user
                 \/ Holds(c.tenant, Colon) \/ Holds(d.tenant, Colon)

\* The table lists whatever the in-memory repository lists, although one query
\* is by a prefix of the key without a separator at its end and the other by the
\* fields; it lists a record of another user only where the id of one of the
\* two holds the separator.
RepositoriesAgree ==
    InputIs("keys") =>
        LET c == input.c
            table == {c, input.d}
            listed == Listed(table, c.tenant, c.user)
            owned == ListedInMemory(table, c.tenant, c.user)
        IN /\ owned \subseteq listed
           /\ \A x \in listed \ owned : Holds(c.user, Hash) \/ Holds(x.user, Hash)

\* Setup status says of a session what a protected route would answer to it:
\* authenticated when the route serves it, and otherwise the route's HTTP
\* status, but for a malformed session, which is a 400 in the one and a 401 in
\* the other, and for one without an id, which only setup status refuses.
SetupReportsRefusal ==
    InputIs("session") =>
        LET session == input.session
            derived == DeriveIdentity(session, input.directory, input.now)
            setup == SetupSession(session, input.directory, input.now)
        IN /\ (setup.status = "authenticated") <=> (derived = "granted" /\ session.sessionId)
           /\ (setup.status = "expired") <=> (derived = "AUTH_TOKEN_EXPIRED")
           /\ \/ setup.httpStatus = StatusOf[derived]
              \/ /\ setup.httpStatus = 400
                 /\ \/ derived = "AUTH_TOKEN_MALFORMED"
                    \/ derived = "granted" /\ ~session.sessionId

\* The three checks on references nest: what the strictest authorizes the
\* others let pass, and it refuses what they let pass only for its own id or
\* type.  The caller was identified earlier, by another state of the directory.
ReferenceChecksNest ==
    InputIs("reference") =>
        LET caller == <<input.session.tenant, input.session.user>>
            ref == input.ref
            known == input.type = "known"
            strict == AuthorizedReference(caller, ref, known, input.directory)
            sameUser == SameTenantUser(caller, ref, input.directory)
            sameTenant == SameTenant(caller, ref.tenant, input.directory)
        IN Blank \notin {caller[1], caller[2]} =>
              /\ strict = "granted" => sameUser = "granted"
              /\ sameUser = "granted" => sameTenant = "granted"
              /\ (sameUser = "granted" /\ ref.id /\ known) => strict = "granted"

\* A route that asks for a reference serves a caller it has identified exactly
\* when the reference is there, complete and the caller's own.  An absent, an
\* incomplete and a foreign one are refused with the same code, never with a
\* TypeError or a second opinion of the directory; a caller who is not
\* identified hears the reason for that whatever the reference is.
ReferencesRefusedAlike ==
    InputIs("reference") =>
        LET session == input.session
            ref == input.ref
            derived == DeriveIdentity(session, input.directory, 0)
            own == /\ ref.present /\ ref.id
                   /\ <<ref.tenant, ref.user>> = <<session.tenant, session.user>>
        IN Authorize(session, ref, input.type, input.directory, 0) =
              IF derived # "granted" THEN derived
              ELSE IF input.type = "unknown" THEN "VALIDATION_FAILED"
              ELSE IF input.type = "known" => own THEN "granted"
              ELSE "TENANT_ACCESS_DENIED"

\* Where a flow may send the browser back to, the result arrives as the query
\* of that page, unless the origin was configured with a "?" or "#" and at most
\* slashes behind it.
TargetsCarryResult ==
    InputIs("urls") =>
        LET origin == input.url
            target == input.other
        IN AllowsTarget({origin}, target) =>
              \/ LocationCarriesResult(target)
              \/ {origin.query, origin.fragment} \cap {"bare", "slashes"} # {}

\* Slashes at the end of the API base URL or the callback URL make no
\* difference to a configuration, and the callback it accepts is the one route
\* under the base.
TrailingSlashesIgnored ==
    InputIs("urls") =>
        LET api == input.url
            callback == input.other
            Bare(url) == [url EXCEPT !.slashes = 0]
        IN /\ AcceptsCallback(api, callback) = AcceptsCallback(Bare(api), Bare(callback))
           /\ AcceptsCallback(api, callback) => Strip(callback).path = Append(api.path, "callback")

=============================================================================
