---------------------------- MODULE AccountRoutes ----------------------------
(***************************************************************************)
(* The HTTP routes that look at all accounts of a user, composed with the  *)
(* token lifecycle: setup status (GET /auth/session, setup_status.py) and  *)
(* the disconnect that names no account (DELETE /oauth/google/connection). *)
(*                                                                         *)
(* A route lists the records of its user and acts on the list in a later   *)
(* step; every call of OAuthTokens may come in between.                    *)
(***************************************************************************)
EXTENDS OAuthTokens

VARIABLES
    route, \* per call, the route it serves with the records listed (None: a
           \* call of the token service that no such route has made)
    shown  \* per call, what its route made of the list

allVars == <<clock, store, lagging, google, pc, arg, snap, stamp, reply, severed, quiet,
             overtaken, misled, route, shown>>

\* Steps of a route: listed, then shown; a disconnect goes on as a revoke.
Route == [kind : {"setup", "disconnect"},
          user : Users,
          listed : [Accounts -> Record \cup {None}]]
Shown == [status : {"anonymous", "not_connected", "connected", "reconnect_required",
                    "validation_failed", "chosen"},
          account : Accounts \cup {None},
          at : Nat]

ASSUME RouteAssumption == None \notin Route /\ None \notin Shown

-----------------------------------------------------------------------------
(* get_google_status and what setup status makes of it.                    *)

\* Fault: the query leaves the user out of its key condition.
ListingsOfAnyone(u) ==
    {[a \in Accounts |-> store[<<owner[a], a>>]] : owner \in [Accounts -> Users]}

\* list_for_user: a query without ConsistentRead, record by record.
Listings(u) ==
    {listed \in [Accounts -> UNION {Read(<<u, a>>) : a \in Accounts}] :
        \A a \in Accounts : listed[a] \in Read(<<u, a>>)}

Recorded(listed) == {a \in Accounts : listed[a] # None}
Available(listed, now) == {a \in Recorded(listed) : IsAvailable(listed[a], now)}

\* The first of a list sorted by updatedAt, the latest first: any of those
\* written in the same millisecond.
Newest(listed, accounts) ==
    {a \in accounts : \A b \in accounts : listed[b].updatedAt <= listed[a].updatedAt}

\* Fault: only the account written last is looked at.
SetupAccountsOfNewest(listed, now) ==
    LET newest == Newest(listed, Recorded(listed))
        available == newest \cap Available(listed, now)
    IN IF newest = {} THEN {<<"not_connected", None>>}
       ELSE ({"connected"} \X available) \cup ({"reconnect_required"} \X (newest \ available))

\* _google_oauth_ref
SetupAccounts(listed, now) ==
    LET available == Available(listed, now) IN
    IF Recorded(listed) = {} THEN {<<"not_connected", None>>}
    ELSE IF available # {} THEN {"connected"} \X Newest(listed, available)
    ELSE {"reconnect_required"} \X Newest(listed, Recorded(listed))

-----------------------------------------------------------------------------
(* The routes.                                                             *)

Show(r, status, account) ==
    shown' = [shown EXCEPT ![r] = [status |-> status, account |-> account, at |-> clock]]

\* derive_identity, then the list.
BeginRoute(r, kind, u) ==
    /\ MayBegin(r) /\ route[r] = None
    /\ u \in Members
    /\ \E listed \in Listings(u) :
          route' = [route EXCEPT ![r] = [kind |-> kind, user |-> u, listed |-> listed]]
    /\ UNCHANGED <<vars, shown>>

\* Setup status reports a refused session, it does not pass the refusal on.
ShowAnonymous(r, u) ==
    /\ MayBegin(r) /\ route[r] = None
    /\ u \notin Members
    /\ route' = [route EXCEPT ![r] =
                    [kind |-> "setup", user |-> u, listed |-> [a \in Accounts |-> None]]]
    /\ Show(r, "anonymous", None)
    /\ UNCHANGED vars

\* The clock is read after the list.
ShowSetup(r) ==
    /\ route[r] # None /\ route[r].kind = "setup" /\ shown[r] = None
    /\ \E ref \in SetupAccounts(route[r].listed, clock) : Show(r, ref[1], ref[2])
    /\ UNCHANGED <<vars, route>>

\* Faults: any account will do; the record listed is revoked as it was listed.
DisconnectAny(r) ==
    /\ route[r] # None /\ route[r].kind = "disconnect" /\ shown[r] = None
    /\ \E a \in Recorded(route[r].listed) :
          /\ BeginRevoke(r, <<route[r].user, a>>)
          /\ Show(r, "chosen", a)
    /\ UNCHANGED route
DisconnectListed(r) ==
    /\ route[r] # None /\ route[r].kind = "disconnect" /\ shown[r] = None
    /\ \E a \in Recorded(route[r].listed) :
          /\ Recorded(route[r].listed) = {a}
          /\ Accept(r, "revoke", <<route[r].user, a>>, {}, FALSE)
          /\ Hold(r, route[r].listed[a], clock)
          /\ Goto(r, "revoking")
          /\ Show(r, "chosen", a)
    /\ UNCHANGED <<clock, table, google, history, route>>

\* _google_disconnect without googleAccountId: the one account listed, revoked
\* ones counted, is disconnected; disconnect_google reads its record again.
DisconnectOnly(r) ==
    LET accounts == Recorded(route[r].listed) IN
    /\ route[r] # None /\ route[r].kind = "disconnect" /\ shown[r] = None
    /\ \/ /\ \A a \in accounts : accounts # {a}
          /\ Show(r, "validation_failed", None)
          /\ UNCHANGED vars
       \/ \E a \in accounts :
             /\ accounts = {a}
             /\ BeginRevoke(r, <<route[r].user, a>>)
             /\ Show(r, "chosen", a)
    /\ UNCHANGED route

-----------------------------------------------------------------------------
RoutesInit ==
    /\ Init
    /\ route = [r \in Requests |-> None]
    /\ shown = [r \in Requests |-> None]

RouteStep(r) ==
    \/ \E u \in Users :
          \/ \E kind \in {"setup", "disconnect"} : BeginRoute(r, kind, u)
          \/ ShowAnonymous(r, u)
    \/ ShowSetup(r)
    \/ DisconnectOnly(r)

\* The steps of the token service, for its own callers and for the revoke a
\* route has begun.
NoRouteMoves == UNCHANGED <<route, shown>>
TokenStep ==
    \/ \E r \in Requests :
          \/ route[r] = None /\ Begin(r) /\ NoRouteMoves
          \/ Continue(r) /\ NoRouteMoves
          \/ GoogleAnswers(r) /\ NoRouteMoves
          \/ Abort(r) /\ NoRouteMoves
    \/ \E g \in Requests : GoogleRevokes(g) /\ NoRouteMoves
    \/ \E k \in Key : Replicate(k) /\ NoRouteMoves
    \/ Tick /\ NoRouteMoves

RoutesNext == TokenStep \/ \E r \in Requests : RouteStep(r)

RoutesSpec == RoutesInit /\ [][RoutesNext]_allVars

-----------------------------------------------------------------------------
(* Properties.                                                             *)

\* Every variable keeps its type, those of the routes and of the calls that
\* serve them.
RoutesTypeOK ==
    /\ TypeOK
    /\ route \in [Requests -> Route \cup {None}]
    /\ shown \in [Requests -> Shown \cup {None}]

\* The routes are callers of the token service and nothing else: with them the
\* service still does only what OAuthTokens says.
RoutesImplementTokens == Spec

\* A disconnect that names no account and is answered leaves its user without
\* a usable connection, whatever ran between the list and the revoke, unless
\* the table holds an account that the list did not show.
UnnamedDisconnectEmpties ==
    [][\A r \in Requests :
          LET u == route[r].user
              seen == Recorded(route[r].listed)
          IN (/\ route[r] # None
              /\ reply'[r] # reply[r] /\ reply'[r].kind = "disconnected"
              /\ \A a \in Accounts \ seen : store[<<u, a>>] = None)
             => \A a \in Accounts :
                   store'[<<u, a>>] # None => ~IsAvailable(store'[<<u, a>>], clock)]_allVars

\* The answers of a handoff that lead on to a token or to a wider consent.
Serves == {"refresh", "usable", "insufficient_scope"}

\* What setup status has said of a record stays true until the record is
\* written again: the account it calls connected is served by a handoff, until
\* its expiry passes where nothing can refresh it; and when it calls none
\* connected, no account it looked at is served.
SetupPredictsHandoff ==
    \A r \in Requests, a \in Accounts, required \in RequiredScopes :
        (/\ shown[r] # None /\ route[r].kind = "setup"
         /\ route[r].listed[a] # None
         /\ store[<<route[r].user, a>>] = route[r].listed[a])
        => LET rec == route[r].listed[a]
               verdict == HandoffVerdict(rec, required, clock)
           IN /\ shown[r].account = a /\ shown[r].status = "connected" =>
                    \/ verdict \in Serves
                    \/ verdict = "expired" /\ shown[r].at < rec.expiresAt
              /\ shown[r].status # "connected" => verdict \notin Serves

\* A route sees records of its own user only: the tokens behind an account it
\* lists were given to that user for that account.
ListingsStayWithOwner ==
    \A r \in Requests, a \in Accounts :
        route[r] # None => Owned(route[r].listed[a], <<route[r].user, a>>)

=============================================================================
