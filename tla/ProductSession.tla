---------------------------- MODULE ProductSession ----------------------------
(***************************************************************************)
(* Product sessions: login, logout and the authentication of requests in   *)
(* http_app.py, product_session.py, allowed_users.py, identity.py and      *)
(* tenancy.py.                                                             *)
(*                                                                         *)
(* A container builds its application from the environment at its first    *)
(* request: the tenant directory is seeded, the set of revoked sessions is *)
(* empty.  Requests of one container run as threads, in several containers *)
(* at once; a container restarts at any moment, perhaps with a new list of *)
(* allowed users.                                                          *)
(***************************************************************************)
EXTENDS Integers, Sequences, SequencesExt

CONSTANTS
    Containers, \* the processes that serve requests
    Calls,      \* HTTP requests, each made at most once
    Subjects,   \* subjects of edge tokens (Cognito)
    Tenants,
    Users,
    Configs,    \* the environments a container can be started with
    Ttl,        \* PRODUCT_SESSION_TTL_HOURS
    MaxTime,    \* bound on the clock
    None        \* the absent value

VARIABLES
    clock,
    env,       \* per container, its environment
    app,       \* per container, _APP: the call that built it
    conf,      \* per application, the environment it was built from
    revoked,   \* per application, its revoked sessions
    issued,    \* per login call, the session it signed
    pc,        \* per call, the step it is about to take
    arg,       \* per call, its operation, container and token
    handler,   \* per call, the application that handles it
    held,      \* per call, the product session it holds
    reply,     \* per call, its answer; it leaves arg, handler and held behind
    loggedOut, \* history: logouts answered by a container since its start
    late,      \* history: calls that came with a token logged out before
    rebuilt    \* history: containers whose application was replaced

apps == <<env, app, conf, revoked>>
calls == <<pc, arg, handler, held, reply>>
history == <<loggedOut, late, rebuilt>>
vars == <<clock, env, app, conf, revoked, issued, pc, arg, handler, held, reply,
          loggedOut, late, rebuilt>>

Identity == Tenants \X Users
Entry == [subject : Subjects, tenant : Tenants, user : Users, active : BOOLEAN]
Config == [entries : Seq(Entry), trusted : Identity]
\* A session token is named by the login that signed it, an edge token, whose
\* signature is the business of the edge, by the subject and expiry it claims;
\* the others are malformed, of another issuer or audience, or no session of a
\* login.
SessionToken == [kind : {"session"}, id : Calls]
EdgeToken == [kind : {"edge"}, id : Subjects \X Nat]
BadToken == [kind : {"bad"}, id : {None}]
Token == SessionToken \cup EdgeToken \cup BadToken
Arg == [op : {"login", "logout", "request"}, container : Containers, token : Token]
Session == [identity : Identity, expiresAt : Nat, revoked : BOOLEAN]
Steps == {"new", "building", "entering", "handling", "deriving", "done"}
\* "refused" stands for the codes of a missing, malformed or invalid token.
Refusals == {"refused", "expired", "forbidden", "failed"}
Replies == [kind : {"logged_in", "logged_out", "granted"} \cup Refusals,
            identity : Identity \cup {None}]

\* AllowedProductUserDirectory refuses a list that names a subject twice.
ASSUME ConfigAssumption ==
    \A c \in Configs :
        /\ c \in Config
        /\ \A i, j \in DOMAIN c.entries : i # j => c.entries[i].subject # c.entries[j].subject
ASSUME NoneAssumption == None \notin Calls
ASSUME TimeAssumption == Ttl \in Nat \ {0} /\ MaxTime \in Nat

-----------------------------------------------------------------------------
(* The tenant directory an application is built with.                      *)

Status(isActive) == IF isActive THEN "active" ELSE "disabled"

EmptyDirectory ==
    [tenants |-> {},
     user |-> [u \in Users |-> "absent"],
     membership |-> [i \in Identity |-> "absent"]]

\* put_tenant, put_user and put_membership replace what was there.
PutMember(directory, tenant, user, status) ==
    [tenants |-> directory.tenants \cup {tenant},
     user |-> [directory.user EXCEPT ![user] = status],
     membership |-> [directory.membership EXCEPT ![<<tenant, user>>] = status]]

\* Fault: an entry does not replace an earlier one of the same user.
SeedEntryOnce(directory, entry) ==
    IF directory.user[entry.user] = "absent"
    THEN PutMember(directory, entry.tenant, entry.user, Status(entry.active))
    ELSE directory

SeedEntry(directory, entry) ==
    PutMember(directory, entry.tenant, entry.user, Status(entry.active))

\* _bootstrap_tenant_directory: the allowed users, then the trusted user.
Directory(config) ==
    LET seeded == FoldLeft(SeedEntry, EmptyDirectory, config.entries)
    IN PutMember(seeded, config.trusted[1], config.trusted[2], "active")

\* Fault: the status of the user is not looked at.
IsMember(directory, identity) ==
    identity[1] \in directory.tenants /\ directory.membership[identity] = "active"

\* assert_active_membership
IsActiveMember(directory, identity) ==
    /\ identity[1] \in directory.tenants
    /\ directory.user[identity[2]] = "active"
    /\ directory.membership[identity] = "active"

-----------------------------------------------------------------------------
(* A request enters the application of its container.                      *)

Running(r) == pc[r] \notin {"new", "done"}
Goto(r, step) == pc' = [pc EXCEPT ![r] = step] /\ UNCHANGED reply
\* The calls in rs end, with what they knew.
Finish(rs, answer) ==
    LET Over(f, value) == [r \in Calls |-> IF r \in rs THEN value ELSE f[r]]
    IN  /\ pc' = Over(pc, "done")
        /\ reply' = Over(reply, answer)
        /\ arg' = Over(arg, None)
        /\ handler' = Over(handler, None)
        /\ held' = Over(held, None)
Answer(r, kind, identity) == Finish({r}, [kind |-> kind, identity |-> identity])
Refuse(r, kind) == Answer(r, kind, None)

\* handle_http_request: "if _APP is None".
Arrive(r, op, k, token) ==
    /\ pc[r] = "new"
    /\ token.kind = "session" => issued[token.id] # None
    /\ arg' = [arg EXCEPT ![r] = [op |-> op, container |-> k, token |-> token]]
    /\ Goto(r, IF app[k] = None THEN "building" ELSE "entering")
    /\ late' = IF <<k, token>> \in loggedOut THEN late \cup {r} ELSE late
    /\ UNCHANGED <<clock, apps, issued, handler, held, loggedOut, rebuilt>>

\* create_app_from_env, then the assignment of _APP, without a lock.
BuildApp(r) ==
    LET k == arg[r].container IN
    /\ pc[r] = "building"
    /\ app' = [app EXCEPT ![k] = r]
    /\ conf' = [conf EXCEPT ![r] = env[k]]
    /\ rebuilt' = IF app[k] = None THEN rebuilt ELSE rebuilt \cup {k}
    /\ Goto(r, "entering")
    /\ UNCHANGED <<clock, env, revoked, issued, arg, handler, held, loggedOut, late>>

EnterApp(r) ==
    /\ pc[r] = "entering"
    /\ handler' = [handler EXCEPT ![r] = app[arg[r].container]]
    /\ Goto(r, "handling")
    /\ UNCHANGED <<clock, apps, issued, arg, held, history>>

-----------------------------------------------------------------------------
(* POST /auth/login and POST /auth/logout.                                 *)

\* _login signs a session of the trusted user, when the secret is right.
Login(r) ==
    /\ pc[r] = "handling" /\ arg[r].op = "login"
    /\ \/ /\ Refuse(r, "refused")
          /\ UNCHANGED issued
       \/ /\ issued' = [issued EXCEPT ![r] =
                           [identity |-> conf[handler[r]].trusted, expiresAt |-> clock + Ttl]]
          /\ Answer(r, "logged_in", None)
    /\ UNCHANGED <<clock, apps, history>>

\* Fault: the token is revoked where its session should be.
LogoutOfToken(r) ==
    LET token == arg[r].token IN
    /\ pc[r] = "handling" /\ arg[r].op = "logout"
    /\ token.kind = "session"
    /\ revoked' = [revoked EXCEPT ![handler[r]] = @ \cup {token}]
    /\ loggedOut' = loggedOut \cup {<<arg[r].container, token>>}
    /\ Answer(r, "logged_out", None)
    /\ UNCHANGED <<clock, env, app, conf, issued, late, rebuilt>>

\* _logout verifies the signature, of an expired token as well.  An edge token
\* is not signed by the service.
Logout(r) ==
    LET token == arg[r].token IN
    /\ pc[r] = "handling" /\ arg[r].op = "logout"
    /\ \/ /\ token.kind # "session"
          /\ Refuse(r, "refused")
          /\ UNCHANGED <<revoked, loggedOut>>
       \/ /\ token.kind = "session"
          /\ revoked' = [revoked EXCEPT ![handler[r]] = @ \cup {token.id}]
          /\ loggedOut' = loggedOut \cup {<<arg[r].container, token>>}
          /\ Answer(r, "logged_out", None)
    /\ UNCHANGED <<clock, env, app, conf, issued, late, rebuilt>>

-----------------------------------------------------------------------------
(* A protected request: _product_session, then derive_identity.            *)

Hold(r, identity, expiresAt, isRevoked) ==
    /\ held' = [held EXCEPT ![r] =
                   [identity |-> identity, expiresAt |-> expiresAt, revoked |-> isRevoked]]
    /\ Goto(r, "deriving")
    /\ UNCHANGED <<arg, handler>>

\* verify: a revoked session is marked, nothing is refused yet.
AuthenticateSession(r) ==
    LET s == arg[r].token.id IN
    /\ pc[r] = "handling" /\ arg[r].op = "request"
    /\ arg[r].token.kind = "session"
    /\ Hold(r, issued[s].identity, issued[s].expiresAt, s \in revoked[handler[r]])
    /\ UNCHANGED <<clock, apps, issued, history>>

\* Fault: the status of the allowed user is not looked at.
AllowedEntriesOfAnyStatus(config, subject) ==
    {e \in ToSet(config.entries) : e.subject = subject}

\* require_active_user: the entry of the subject, when it is active.
AllowedEntries(config, subject) ==
    {e \in ToSet(config.entries) : e.subject = subject /\ e.active}

\* product_session_from_headers
AuthenticateEdge(r) ==
    LET subject == arg[r].token.id[1]
        expiresAt == arg[r].token.id[2]
        allowed == AllowedEntries(conf[handler[r]], subject)
    IN  /\ pc[r] = "handling" /\ arg[r].op = "request"
        /\ arg[r].token.kind = "edge"
        /\ \/ expiresAt <= clock /\ Refuse(r, "refused")
           \/ clock < expiresAt /\ allowed = {} /\ Refuse(r, "forbidden")
           \/ /\ clock < expiresAt
              /\ \E e \in allowed : Hold(r, <<e.tenant, e.user>>, expiresAt, FALSE)
        /\ UNCHANGED <<clock, apps, issued, history>>

\* No token, a malformed one, an edge token whose claims have another issuer or
\* audience or differ from the subject in the header, a session token with a
\* wrong signature.  The signature of an edge token is not looked at.
RejectToken(r) ==
    /\ pc[r] = "handling" /\ arg[r].op = "request"
    /\ arg[r].token.kind = "bad"
    /\ Refuse(r, "refused")
    /\ UNCHANGED <<clock, apps, issued, history>>

\* Faults: the revocation, or the expiry, is not looked at.
DeriveIdentityRevoked(r) ==
    LET session == held[r] IN
    /\ pc[r] = "deriving"
    /\ session.expiresAt > clock
    /\ IsActiveMember(Directory(conf[handler[r]]), session.identity)
    /\ Answer(r, "granted", session.identity)
    /\ UNCHANGED <<clock, apps, issued, history>>
DeriveIdentityExpired(r) ==
    LET session == held[r] IN
    /\ pc[r] = "deriving"
    /\ ~session.revoked
    /\ IsActiveMember(Directory(conf[handler[r]]), session.identity)
    /\ Answer(r, "granted", session.identity)
    /\ UNCHANGED <<clock, apps, issued, history>>

\* derive_identity
DeriveIdentity(r) ==
    LET session == held[r]
        member == IsActiveMember(Directory(conf[handler[r]]), session.identity)
    IN  /\ pc[r] = "deriving"
        /\ \/ session.revoked /\ Refuse(r, "refused")
           \/ ~session.revoked /\ session.expiresAt <= clock /\ Refuse(r, "expired")
           \/ ~session.revoked /\ clock < session.expiresAt /\ ~member /\ Refuse(r, "forbidden")
           \/ /\ ~session.revoked /\ clock < session.expiresAt /\ member
              /\ Answer(r, "granted", session.identity)
        /\ UNCHANGED <<clock, apps, issued, history>>

-----------------------------------------------------------------------------
(* The environment.                                                        *)

\* A container is replaced, perhaps with another environment: the application
\* and the calls in it are gone.
Restart(k, config) ==
    LET lost == {r \in Calls : Running(r) /\ arg[r].container = k}
        kept == {app[j] : j \in Containers \ {k}} \cup {handler[r] : r \in Calls \ lost}
    IN
    /\ app[k] # None \/ lost # {} \/ config # env[k]
    /\ env' = [env EXCEPT ![k] = config]
    /\ app' = [app EXCEPT ![k] = None]
    /\ conf' = [a \in Calls |-> IF a \in kept THEN conf[a] ELSE None]
    /\ revoked' = [a \in Calls |-> IF a \in kept THEN revoked[a] ELSE {}]
    /\ Finish(lost, [kind |-> "failed", identity |-> None])
    /\ loggedOut' = {out \in loggedOut : out[1] # k}
    /\ rebuilt' = rebuilt \ {k}
    /\ UNCHANGED <<clock, issued, late>>

Tick ==
    /\ clock < MaxTime
    /\ clock' = clock + 1
    /\ UNCHANGED <<apps, issued, calls, history>>

-----------------------------------------------------------------------------
Init ==
    /\ clock = 0
    /\ \E config \in Configs : env = [k \in Containers |-> config]
    /\ app = [k \in Containers |-> None]
    /\ conf = [a \in Calls |-> None]
    /\ revoked = [a \in Calls |-> {}]
    /\ issued = [s \in Calls |-> None]
    /\ pc = [r \in Calls |-> "new"]
    /\ arg = [r \in Calls |-> None]
    /\ handler = [r \in Calls |-> None]
    /\ held = [r \in Calls |-> None]
    /\ reply = [r \in Calls |-> None]
    /\ loggedOut = {}
    /\ late = {}
    /\ rebuilt = {}

\* A login needs no token.  Any other call comes with the session of a login,
\* an edge token, or one that is refused, whichever way it took to the service.
Present(r) ==
    \E k \in Containers :
        \/ Arrive(r, "login", k, [kind |-> "bad", id |-> None])
        \/ \E op \in {"logout", "request"} :
              \/ Arrive(r, op, k, [kind |-> "bad", id |-> None])
              \/ \E s \in Calls : Arrive(r, op, k, [kind |-> "session", id |-> s])
              \/ \E subject \in Subjects, expiresAt \in 1..MaxTime :
                    Arrive(r, op, k, [kind |-> "edge", id |-> <<subject, expiresAt>>])

Next ==
    \/ \E r \in Calls :
          \/ Present(r) \/ BuildApp(r) \/ EnterApp(r)
          \/ Login(r) \/ Logout(r)
          \/ AuthenticateSession(r) \/ AuthenticateEdge(r) \/ RejectToken(r)
          \/ DeriveIdentity(r)
    \/ \E k \in Containers, config \in Configs : Restart(k, config)
    \/ Tick

Spec == Init /\ [][Next]_vars

-----------------------------------------------------------------------------
(* Properties.                                                             *)

\* Every variable keeps its type.
TypeOK ==
    /\ clock \in Nat
    /\ env \in [Containers -> Configs]
    /\ app \in [Containers -> Calls \cup {None}]
    /\ conf \in [Calls -> Configs \cup {None}]
    /\ revoked \in [Calls -> SUBSET Calls]
    /\ issued \in [Calls -> [identity : Identity, expiresAt : Nat] \cup {None}]
    /\ pc \in [Calls -> Steps]
    /\ arg \in [Calls -> Arg \cup {None}]
    /\ handler \in [Calls -> Calls \cup {None}]
    /\ held \in [Calls -> Session \cup {None}]
    /\ reply \in [Calls -> Replies \cup {None}]
    /\ loggedOut \subseteq Containers \X Token
    /\ late \subseteq Calls
    /\ rebuilt \subseteq Containers

Grants(r) == reply'[r] # reply[r] /\ reply'[r].kind = "granted"

\* A request that comes with a session its container has logged out is never
\* granted, as long as the container keeps its one application: the one way
\* round a logout within a container is the unlocked start of two at once.
LogoutSticks ==
    [][\A r \in Calls : Grants(r) /\ r \in late => arg[r].container \in rebuilt]_vars

\* A request is granted only while its token is good, however long it has
\* waited since the token was presented.
ExpiryOf(token) == IF token.kind = "session" THEN issued[token.id].expiresAt ELSE token.id[2]
ExpiredNeverServed ==
    [][\A r \in Calls : Grants(r) => clock < ExpiryOf(arg[r].token)]_vars

ConfigOf(r) == conf[handler[r]]

\* An edge token is granted only to a subject whose own entry is active, and
\* as the user of that entry, also when other entries or the trusted user
\* share this user or have activated it in the directory.
EdgeServesAllowed ==
    [][\A r \in Calls :
        Grants(r) /\ arg[r].token.kind = "edge" =>
            \E e \in ToSet(ConfigOf(r).entries) :
                /\ e.subject = arg[r].token.id[1] /\ e.active
                /\ reply'[r].identity = <<e.tenant, e.user>>]_vars

\* The directory an application is built with says of a user and of a
\* membership what the last entry that names it says, the trusted user aside.
LastOf(entries, Names(_)) ==
    LET naming == {i \in DOMAIN entries : Names(entries[i])}
    IN IF naming = {} THEN "absent" ELSE Status(entries[Max(naming)].active)
DirectoryIsLastEntry ==
    \A a \in Calls :
        conf[a] # None =>
            LET directory == Directory(conf[a])
                entries == conf[a].entries
            IN \A i \in Identity \ {conf[a].trusted} :
                  /\ directory.membership[i] = LastOf(entries, LAMBDA e : <<e.tenant, e.user>> = i)
                  /\ i[2] # conf[a].trusted[2] =>
                        directory.user[i[2]] = LastOf(entries, LAMBDA e : e.user = i[2])

\* No user but the trusted one is served unless the last entries that name the
\* user and the membership call them active: the entry that disables a user in
\* one tenant disables the user in every other.
ServedAsListed ==
    [][\A r \in Calls :
        Grants(r) =>
            LET i == reply'[r].identity
                entries == ConfigOf(r).entries
            IN i # ConfigOf(r).trusted =>
                  /\ LastOf(entries, LAMBDA e : <<e.tenant, e.user>> = i) = "active"
                  /\ i[2] # ConfigOf(r).trusted[2] =>
                        LastOf(entries, LAMBDA e : e.user = i[2]) = "active"]_vars

\* A user whom every entry of the allowed users calls disabled is not served.
DisabledNeverServed ==
    [][\A r \in Calls :
        Grants(r) =>
            LET own == {e \in ToSet(ConfigOf(r).entries) : <<e.tenant, e.user>> = reply'[r].identity}
            IN own # {} => \E e \in own : e.active]_vars

=============================================================================
