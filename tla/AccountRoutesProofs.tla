-------------------------- MODULE AccountRoutesProofs --------------------------
(***************************************************************************)
(* The routes that look at all accounts of a user, for every set of users, *)
(* accounts and calls: they are callers of the token service, and they     *)
(* make of a list what was true of it.                                     *)
(***************************************************************************)
EXTENDS AccountRoutes, OAuthTokensProofs

\* What setup status showed was so when it read the clock.
Foretold(r) ==
    LET listed == route[r].listed
        at == shown[r].at
    IN /\ at \in Nat /\ at <= clock
       /\ shown[r].status = "connected" =>
             /\ shown[r].account \in Accounts /\ listed[shown[r].account] # None
             /\ IsAvailable(listed[shown[r].account], at)
       /\ shown[r].status # "connected" =>
             \A a \in Accounts : listed[a] # None => ~IsAvailable(listed[a], at)

\* The one account a disconnect has listed is the one it revokes.
Chosen(r) ==
    \E a \in Accounts : Recorded(route[r].listed) = {a} /\ arg[r].key = <<route[r].user, a>>

RouteInv(r) ==
    /\ route[r] = None => shown[r] = None
    /\ route[r] # None =>
          /\ route[r] \in Route
          /\ \A a \in Accounts : Settled(route[r].listed[a], <<route[r].user, a>>)
          /\ pc[r] = "revoking" => Chosen(r)
          /\ shown[r] # None => shown[r] \in Shown
          /\ shown[r] # None /\ route[r].kind = "setup" => Foretold(r)

RoutesInv ==
    /\ DOMAIN route = Requests /\ DOMAIN shown = Requests
    /\ \E f : route = [r \in Requests |-> f[r]]
    /\ \E f : shown = [r \in Requests |-> f[r]]
    /\ \A r \in Requests : RouteInv(r)

-----------------------------------------------------------------------------
(* Every step of a route is a step of the token service, or none of it.    *)

LEMMA RouteStepsAreTokenSteps ==
    ASSUME RoutesInv, [RoutesNext]_allVars
    PROVE  [Next]_vars
  <1>1. CASE TokenStep
    BY <1>1 DEF TokenStep, NoRouteMoves, Next
  <1>2. ASSUME NEW r \in Requests, RouteStep(r) PROVE [Next]_vars
    <2>1. CASE DisconnectOnly(r) /\ ~UNCHANGED vars
      <3>1. PICK a \in Recorded(route[r].listed) : BeginRevoke(r, <<route[r].user, a>>)
        BY <2>1 DEF DisconnectOnly
      <3>2. route[r] # None /\ route[r].user \in Users
        BY <2>1 DEF DisconnectOnly, RoutesInv, RouteInv, Route
      <3>3. <<route[r].user, a>> \in Key
        BY <3>1, <3>2 DEF Recorded, Key
      <3> QED
        BY <3>1, <3>3 DEF Next, Begin
    <2>2. CASE UNCHANGED vars
      BY <2>2
    <2> QED
      BY <1>2, <2>1, <2>2 DEF RouteStep, BeginRoute, ShowAnonymous, ShowSetup
  <1>3. CASE UNCHANGED allVars
    BY <1>3 DEF allVars, vars
  <1> QED
    BY <1>1, <1>2, <1>3 DEF RoutesNext

LEMMA ClockGrows == TypeInv /\ [Next]_vars => clock' \in Nat /\ clock <= clock'
  <1> SUFFICES ASSUME TypeInv, [Next]_vars PROVE clock' \in Nat /\ clock <= clock'
    OBVIOUS
  <1>1. ASSUME NEW r \in Requests, Begin(r) PROVE clock' = clock
    BY <1>1 DEF Begin, RefuseNonMember, RefuseInput, BeginConnect, BeginAccess, BeginRefresh,
       BeginRevoke
  <1>2. ASSUME NEW r \in Requests, Continue(r) PROVE clock' = clock
    BY <1>2 DEF Continue, WriteConnect, WriteRevoke, RereadForAccess, ReadForRefresh,
       RefreshFails, WriteRenewed, WriteReconnectRequired, DecryptForAccess
  <1>3. ASSUME NEW r \in Requests, GoogleAnswers(r) \/ Abort(r) PROVE clock' = clock
    BY <1>3 DEF GoogleAnswers, Abort
  <1>4. clock' = clock \/ clock' = clock + 1
    BY <1>1, <1>2, <1>3 DEF Next, vars, GoogleRevokes, Replicate, Tick
  <1> QED
    BY <1>4 DEF TypeInv, TypeOK

\* A call gets to the step that writes a revoked record by beginning to revoke.
LEMMA RevokingBegins ==
    ASSUME TypeInv, NEW r \in Requests, Continue(r) \/ GoogleAnswers(r) \/ Abort(r)
    PROVE  pc'[r] # "revoking"
  BY DEF TypeInv, TypeOK, Continue, WriteConnect, WriteRevoke, RereadForAccess, ReadForRefresh,
     RefreshFails, WriteRenewed, WriteReconnectRequired, DecryptForAccess, GoogleAnswers, Abort,
     Goto, Answer

\* Steps that leave a route alone keep what is known of it.
LEMMA RouteStays ==
    ASSUME TypeInv, OwnerInv, DoneStays, clock' \in Nat, clock <= clock', NEW r \in Requests,
           RouteInv(r), route'[r] = route[r], shown'[r] = shown[r],
           \/ pc'[r] # "revoking" \/ route[r] = None
           \/ pc'[r] = pc[r] /\ arg'[r] = arg[r]
    PROVE  RouteInv(r)'
  <1>1. CASE route[r] = None
    BY <1>1 DEF RouteInv
  <1>2. CASE route[r] # None
    <2>1. route[r] \in Route
      BY <1>2 DEF RouteInv
    <2>2. ASSUME NEW a \in Accounts
          PROVE  Settled(route[r].listed[a], <<route[r].user, a>>)'
      <3>1. route[r].listed[a] \in Record \cup {None}
        BY <2>1 DEF Route
      <3>2. SettledNext(route[r].listed[a], <<route[r].user, a>>)
        BY <1>2, <3>1, SettledStays DEF RouteInv
      <3> QED
        BY <3>2 DEF SettledNext, Settled, Owned
    <2>3. pc'[r] = "revoking" => Chosen(r)'
      BY <1>2 DEF RouteInv, Chosen, Recorded
    <2>4. shown[r] # None /\ route[r].kind = "setup" => Foretold(r)'
      <3> SUFFICES ASSUME Foretold(r) PROVE Foretold(r)'
        BY <1>2 DEF RouteInv
      <3>1. clock \in Nat /\ shown[r].at \in Nat /\ shown[r].at <= clock'
        BY DEF TypeInv, TypeOK, Foretold
      <3> QED
        BY <3>1 DEF Foretold, IsAvailable
    <2> QED
      BY <1>2, <2>1, <2>2, <2>3, <2>4 DEF RouteInv
  <1> QED
    BY <1>1, <1>2

-----------------------------------------------------------------------------
(* The steps of a route.                                                   *)

LEMMA ListingSettled ==
    ASSUME TypeInv, OwnerInv, NEW u \in Users, NEW listed \in Listings(u)
    PROVE  /\ listed \in [Accounts -> Record \cup {None}]
           /\ \A a \in Accounts : Settled(listed[a], <<u, a>>)
  <1>1. /\ listed \in [Accounts -> UNION {Read(<<u, a>>) : a \in Accounts}]
        /\ \A a \in Accounts : listed[a] \in Read(<<u, a>>)
    BY DEF Listings
  <1>2. \A a \in Accounts : <<u, a>> \in Key
    BY DEF Key
  <1>3. ASSUME NEW a \in Accounts
        PROVE  listed[a] \in Record \cup {None} /\ Settled(listed[a], <<u, a>>)
    BY <1>1, <1>2, ReadType DEF TypeInv, OwnerInv, TableSettled
  <1> QED
    BY <1>1, <1>3

LEMMA RouteBegins ==
    ASSUME TypeInv, OwnerInv, RoutesInv, NEW r \in Requests, NEW u \in Users,
           NEW kind \in {"setup", "disconnect"}, BeginRoute(r, kind, u)
    PROVE  RouteInv(r)'
  <1>1. PICK listed \in Listings(u) :
            route' = [route EXCEPT ![r] = [kind |-> kind, user |-> u, listed |-> listed]]
    BY DEF BeginRoute
  <1>2. /\ route'[r] = [kind |-> kind, user |-> u, listed |-> listed]
        /\ shown'[r] = None /\ pc'[r] = "new"
    BY <1>1 DEF BeginRoute, MayBegin, RoutesInv, RouteInv, vars
  <1>3. /\ listed \in [Accounts -> Record \cup {None}]
        /\ \A a \in Accounts : Settled(listed[a], <<u, a>>)
    BY ListingSettled
  <1>4. \A a \in Accounts : Settled(listed[a], <<u, a>>)'
    BY <1>3 DEF BeginRoute, vars, Settled, Owned
  <1> QED
    BY <1>2, <1>3, <1>4 DEF RouteInv, Route

LEMMA RouteShowsAnonymous ==
    ASSUME TypeInv, RoutesInv, NEW r \in Requests, NEW u \in Users, ShowAnonymous(r, u)
    PROVE  RouteInv(r)'
  <1>1. /\ route'[r] = [kind |-> "setup", user |-> u, listed |-> [a \in Accounts |-> None]]
        /\ shown'[r] = [status |-> "anonymous", account |-> None, at |-> clock]
        /\ pc'[r] = "new" /\ clock' = clock /\ clock \in Nat
    BY DEF ShowAnonymous, Show, MayBegin, RoutesInv, TypeInv, TypeOK, vars
  <1>2. /\ route'[r].kind = "setup" /\ route'[r].user \in Users
        /\ route'[r].listed = [a \in Accounts |-> None]
    BY <1>1
  <1>3. route'[r] \in Route /\ route'[r] # None /\ \A a \in Accounts : route'[r].listed[a] = None
    BY <1>1, <1>2, RouteAssumption DEF Route
  <1>4. Foretold(r)'
    BY <1>1, <1>3 DEF Foretold
  <1>5. \A a \in Accounts : Settled(route[r].listed[a], <<route[r].user, a>>)'
    BY <1>3 DEF Settled, Owned
  <1>6. shown'[r] \in Shown
    BY <1>1 DEF Shown
  <1> QED
    BY <1>1, <1>3, <1>4, <1>5, <1>6 DEF RouteInv

\* What setup status may show of a list.
LEMMA SetupAccountsTrue ==
    ASSUME NEW listed \in [Accounts -> Record \cup {None}], NEW now \in Nat,
           NEW ref \in SetupAccounts(listed, now)
    PROVE  /\ ref[1] = "connected" =>
                 ref[2] \in Accounts /\ listed[ref[2]] # None /\ IsAvailable(listed[ref[2]], now)
           /\ ref[1] # "connected" =>
                 \A a \in Accounts : listed[a] # None => ~IsAvailable(listed[a], now)
           /\ ref[1] \in {"not_connected", "connected", "reconnect_required"}
           /\ ref[2] \in Accounts \cup {None}
  BY DEF SetupAccounts, Newest, Available, Recorded

LEMMA RouteShowsSetup ==
    ASSUME TypeInv, RoutesInv, NEW r \in Requests, ShowSetup(r)
    PROVE  RouteInv(r)'
  <1>1. PICK ref \in SetupAccounts(route[r].listed, clock) : Show(r, ref[1], ref[2])
    BY DEF ShowSetup
  <1>2. /\ route[r] # None /\ route[r] \in Route /\ clock \in Nat /\ UNCHANGED <<vars, route>>
        /\ shown'[r] = [status |-> ref[1], account |-> ref[2], at |-> clock]
    BY <1>1 DEF ShowSetup, Show, RoutesInv, RouteInv, TypeInv, TypeOK
  <1>3. route[r].listed \in [Accounts -> Record \cup {None}]
    BY <1>2 DEF Route
  <1>4. Foretold(r)'
    BY <1>2, <1>3, SetupAccountsTrue DEF Foretold, vars, IsAvailable
  <1>5. RouteInv(r)
    BY DEF RoutesInv
  <1>6. shown'[r] \in Shown
    <2>1. /\ ref[1] \in {"not_connected", "connected", "reconnect_required"}
          /\ ref[2] \in Accounts \cup {None}
      BY <1>2, <1>3, SetupAccountsTrue
    <2> QED
      BY <1>2, <2>1 DEF Shown
  <1> QED
    BY <1>2, <1>4, <1>5, <1>6 DEF RouteInv, vars, Settled, Owned, Chosen, Recorded

LEMMA RouteDisconnects ==
    ASSUME TypeInv, OwnerInv, DoneStays, RoutesInv, NEW r \in Requests, DisconnectOnly(r)
    PROVE  RouteInv(r)'
  <1>1. /\ route[r] # None /\ route[r].kind = "disconnect" /\ route[r] \in Route
        /\ route' = route /\ RouteInv(r)
    BY DEF DisconnectOnly, RoutesInv, RouteInv
  <1>2. ASSUME NEW a \in Accounts
        PROVE  Settled(route[r].listed[a], <<route[r].user, a>>)'
    <2>1. route[r].listed[a] \in Record \cup {None}
      BY <1>1 DEF Route
    <2>2. SettledNext(route[r].listed[a], <<route[r].user, a>>)
      BY <1>1, <2>1, SettledStays DEF RouteInv
    <2> QED
      BY <1>1, <2>2 DEF SettledNext, Settled, Owned
  <1>3. pc'[r] = "revoking" => Chosen(r)'
    <2>1. CASE UNCHANGED vars
      BY <1>1, <2>1 DEF RouteInv, Chosen, Recorded, vars
    <2>2. ASSUME NEW a \in Recorded(route[r].listed), Recorded(route[r].listed) = {a},
                 BeginRevoke(r, <<route[r].user, a>>)
          PROVE  Chosen(r)'
      <3>1. arg'[r].key = <<route[r].user, a>> /\ a \in Accounts
        BY <2>2 DEF BeginRevoke, Accept, TypeInv, TypeOK, Recorded
      <3> QED
        BY <1>1, <2>2, <3>1 DEF Chosen, Recorded
    <2> QED
      BY <2>1, <2>2 DEF DisconnectOnly
  <1>4. shown'[r] \in Shown
    <2>1. ASSUME NEW status \in {"validation_failed", "chosen"},
                 NEW account \in Accounts \cup {None}, Show(r, status, account)
          PROVE  shown'[r] \in Shown
      <3>1. shown'[r] = [status |-> status, account |-> account, at |-> clock]
        BY <2>1 DEF Show, RoutesInv
      <3>2. clock \in Nat
        BY DEF TypeInv, TypeOK
      <3> QED
        BY <3>1, <3>2 DEF Shown
    <2> QED
      BY <2>1 DEF DisconnectOnly, Recorded
  <1> QED
    BY <1>1, <1>2, <1>3, <1>4 DEF RouteInv

\* A step of one route leaves the routes and the calls of the others alone.
LEMMA RoutesAlone ==
    ASSUME TypeInv, RoutesInv, NEW r \in Requests, RouteStep(r), NEW q \in Requests \ {r}
    PROVE  /\ route'[q] = route[q] /\ shown'[q] = shown[q]
           /\ pc'[q] = pc[q] /\ arg'[q] = arg[q]
  BY DEF RouteStep, BeginRoute, ShowAnonymous, ShowSetup, DisconnectOnly, Show, BeginRevoke,
     Accept, Answer, Goto, vars, RoutesInv, TypeInv, TypeOK

LEMMA RoutesInvNext ==
    ASSUME TypeInv, OwnerInv, RoutesInv, [RoutesNext]_allVars
    PROVE  RoutesInv'
  <1>1. [Next]_vars /\ DoneStays /\ clock' \in Nat /\ clock <= clock'
    BY RouteStepsAreTokenSteps, AnsweredStaysAnswered, ClockGrows
  <1>2. /\ DOMAIN route' = Requests /\ DOMAIN shown' = Requests
        /\ \E f : route' = [r \in Requests |-> f[r]]
        /\ \E f : shown' = [r \in Requests |-> f[r]]
    <2>1. ASSUME NEW r \in Requests, RouteStep(r)
          PROVE  /\ route' = route \/ \E e : route' = [route EXCEPT ![r] = e]
                 /\ shown' = shown \/ \E e : shown' = [shown EXCEPT ![r] = e]
      BY <2>1 DEF RouteStep, BeginRoute, ShowAnonymous, ShowSetup, DisconnectOnly, Show
    <2> QED
      BY <2>1 DEF RoutesInv, RoutesNext, TokenStep, NoRouteMoves, allVars
  <1>3. ASSUME NEW r \in Requests, RouteStep(r), NEW q \in Requests PROVE RouteInv(q)'
    <2>1. CASE q = r
      BY <1>1, <1>3, <2>1, RouteBegins, RouteShowsAnonymous, RouteShowsSetup, RouteDisconnects
         DEF RouteStep
    <2>2. CASE q # r
      BY <1>1, <1>3, <2>2, RoutesAlone, RouteStays DEF RoutesInv
    <2> QED
      BY <2>1, <2>2
  <1>4. ASSUME TokenStep \/ UNCHANGED allVars, NEW q \in Requests PROVE RouteInv(q)'
    <2>1. route' = route /\ shown' = shown /\ RouteInv(q)
      BY <1>4 DEF TokenStep, NoRouteMoves, allVars, RoutesInv
    <2>2. \/ pc'[q] # "revoking" \/ route[q] = None
          \/ pc'[q] = pc[q] /\ arg'[q] = arg[q]
      <3>1. ASSUME NEW r \in Requests, route[r] = None /\ Begin(r)
            PROVE  \A p \in Requests \ {r} : pc'[p] = pc[p] /\ arg'[p] = arg[p]
        BY <3>1 DEF Begin, RefuseNonMember, RefuseInput, BeginConnect, BeginAccess, BeginRefresh,
           BeginRevoke, Accept, Goto, Answer, TypeInv, TypeOK
      <3>2. ASSUME NEW r \in Requests, Continue(r) \/ GoogleAnswers(r) \/ Abort(r)
            PROVE  /\ pc'[r] # "revoking"
                   /\ \A p \in Requests \ {r} : pc'[p] = pc[p] /\ arg'[p] = arg[p]
        BY <3>2, RevokingBegins, ContinuesAlone DEF OneCall
      <3>3. CASE UNCHANGED <<pc, arg>>
        BY <3>3
      <3> QED
        BY <1>4, <3>1, <3>2, <3>3
         DEF TokenStep, NoRouteMoves, GoogleRevokes, Replicate, Tick, calls, allVars
    <2> QED
      BY <1>1, <2>1, <2>2, RouteStays
  <1>5. \A q \in Requests : RouteInv(q)'
    BY <1>3, <1>4 DEF RoutesNext
  <1> QED
    BY <1>2, <1>5 DEF RoutesInv

LEMMA RoutesInvInit == RoutesInit => RoutesInv
  BY DEF RoutesInit, RoutesInv, RouteInv

\* The invariants of the token service hold with the routes, too.
LEMMA RoutesInvariants == RoutesSpec => [](TypeInv /\ OwnerInv /\ RoutesInv)
  <1>1. RoutesInit => TypeInv /\ OwnerInv /\ RoutesInv
    BY TypeInvInit, OwnerInvInit, RoutesInvInit DEF RoutesInit
  <1>2. TypeInv /\ OwnerInv /\ RoutesInv /\ [RoutesNext]_allVars
          => TypeInv' /\ OwnerInv' /\ RoutesInv'
    BY RouteStepsAreTokenSteps, TypeInvNext, OwnerInvNext, RoutesInvNext
  <1> QED
    BY <1>1, <1>2, PTL DEF RoutesSpec

-----------------------------------------------------------------------------
\* Setup status and the disconnect that names no account use the token service
\* as its other callers do: every behaviour with them is one of the service.
THEOREM RoutesAreCallers == RoutesSpec => RoutesImplementTokens
  <1>1. RoutesInit => Init
    BY DEF RoutesInit
  <1>2. RoutesInv /\ [RoutesNext]_allVars => [Next]_vars
    BY RouteStepsAreTokenSteps
  <1> QED
    BY <1>1, <1>2, RoutesInvariants, PTL DEF RoutesSpec, RoutesImplementTokens, Spec

\* Every variable of the routes and of the calls they make keeps its type.
THEOREM RoutesTypeCorrect == RoutesSpec => []RoutesTypeOK
  <1>1. TypeInv /\ RoutesInv => RoutesTypeOK
    BY DEF TypeInv, RoutesInv, RouteInv, RoutesTypeOK
  <1> QED
    BY <1>1, RoutesInvariants, PTL

\* A route lists tokens of its own user only, however stale the list.
THEOREM ListingsAreTheUsers == RoutesSpec => []ListingsStayWithOwner
  <1>1. RoutesInv => ListingsStayWithOwner
    BY DEF RoutesInv, RouteInv, Settled, ListingsStayWithOwner
  <1> QED
    BY <1>1, RoutesInvariants, PTL

\* What setup status says of a record is what a handoff makes of that record,
\* until the record is written again or its unrefreshable token expires.
THEOREM SetupStatusForetells == RoutesSpec => []SetupPredictsHandoff
  <1>1. TypeInv /\ RoutesInv => SetupPredictsHandoff
    <2> SUFFICES ASSUME TypeInv, RoutesInv, NEW r \in Requests, NEW a \in Accounts,
                        NEW required \in RequiredScopes, shown[r] # None,
                        route[r].kind = "setup", route[r].listed[a] # None
                 PROVE  LET rec == route[r].listed[a]
                            verdict == HandoffVerdict(rec, required, clock)
                        IN /\ shown[r].account = a /\ shown[r].status = "connected" =>
                                 \/ verdict \in Serves
                                 \/ verdict = "expired" /\ shown[r].at < rec.expiresAt
                           /\ shown[r].status # "connected" => verdict \notin Serves
      BY DEF SetupPredictsHandoff
    <2>1. route[r] # None /\ route[r] \in Route /\ Foretold(r)
      BY DEF RoutesInv, RouteInv
    <2>2. route[r].listed[a] \in Record /\ route[r].listed[a].expiresAt \in Nat
      BY <2>1 DEF Route, Record
    <2>3. clock \in Nat /\ shown[r].at \in Nat /\ shown[r].at <= clock
      BY <2>1 DEF TypeInv, TypeOK, Foretold
    <2> QED
      BY <2>1, <2>2, <2>3 DEF Foretold, IsAvailable, HandoffVerdict, IsRevoked, IsExpired, Serves
  <1> QED
    BY <1>1, RoutesInvariants, PTL

-----------------------------------------------------------------------------
LEMMA OnlyRevokeDisconnects ==
    ASSUME TypeInv, [Next]_vars, NEW r \in Requests,
           reply'[r] # reply[r], reply'[r].kind = "disconnected"
    PROVE  WriteRevoke(r)
  <1>1. ASSUME NEW q \in Requests, NEW kind, NEW token, Answer(q, kind, token)
        PROVE  q = r /\ kind = "disconnected"
    BY <1>1 DEF Answer, TypeInv, TypeOK
  <1>2. \A rec, required : HandoffVerdict(rec, required, clock) # "disconnected"
    BY DEF HandoffVerdict
  <1>3. ASSUME NEW q \in Requests, Begin(q) PROVE FALSE
    <2>1. ASSUME NEW step, Goto(q, step) PROVE FALSE
      BY <2>1 DEF Goto
    <2>2. ASSUME NEW k \in Key, NEW required \in RequiredScopes, BeginAccess(q, k, required)
          PROVE  FALSE
      <3>1. PICK rec \in Read(k) : \/ Goto(q, "rereading")
                                  \/ Answer(q, HandoffVerdict(rec, required, clock), None)
        BY <2>2 DEF BeginAccess
      <3> QED
        BY <1>1, <1>2, <2>1, <3>1
    <2>3. ASSUME NEW k \in Key, BeginRevoke(q, k) PROVE FALSE
      BY <1>1, <2>1, <2>3 DEF BeginRevoke
    <2>4. ASSUME NEW u \in Users,
                 RefuseNonMember(q, u) \/ \E applies \in BOOLEAN : RefuseInput(q, u, applies)
          PROVE  FALSE
      BY <1>1, <2>4 DEF RefuseNonMember, RefuseInput
    <2> QED
      BY <1>3, <2>1, <2>2, <2>3, <2>4 DEF Begin, BeginConnect, BeginRefresh
  <1>4. ASSUME NEW q \in Requests, Continue(q) \/ GoogleAnswers(q) \/ Abort(q)
        PROVE  WriteRevoke(r)
    BY <1>1, <1>4 DEF Continue, WriteConnect, WriteRevoke, RereadForAccess, ReadForRefresh,
       RefreshFails, WriteRenewed, WriteReconnectRequired, DecryptForAccess, GoogleAnswers,
       Abort, Goto
  <1> QED
    BY <1>3, <1>4 DEF Next, GoogleRevokes, Replicate, Tick, vars, calls

\* A disconnect that names no account leaves its user without a usable
\* connection among the accounts it saw and those not yet connected.
THEOREM UnnamedDisconnectsEmpty == RoutesSpec => UnnamedDisconnectEmpties
  <1>1. ASSUME TypeInv, RoutesInv, [RoutesNext]_allVars, NEW r \in Requests, route[r] # None,
               reply'[r] # reply[r], reply'[r].kind = "disconnected",
               \A a \in Accounts \ Recorded(route[r].listed) : store[<<route[r].user, a>>] = None,
               NEW a \in Accounts, store'[<<route[r].user, a>>] # None
        PROVE  ~IsAvailable(store'[<<route[r].user, a>>], clock)
    <2> DEFINE k == arg[r].key
    <2>1. WriteRevoke(r)
      BY <1>1, RouteStepsAreTokenSteps, OnlyRevokeDisconnects
    <2>2. pc[r] = "revoking" /\ Chosen(r)
      BY <1>1, <2>1 DEF WriteRevoke, RoutesInv, RouteInv
    <2>3. PICK b \in Accounts : Recorded(route[r].listed) = {b} /\ k = <<route[r].user, b>>
      BY <2>2 DEF Chosen
    <2>4. k \in Key /\ snap[r] \in Record
      BY <1>1, <2>2 DEF TypeInv, CallsWellFormed, CallWellFormed, Running, Arg
    <2>5. store' = [store EXCEPT ![k] = RevokedRecord(snap[r], stamp[r])]
      BY <2>1 DEF WriteRevoke, Put
    <2>6. RevokedRecord(snap[r], stamp[r]).status = "revoked"
      BY <2>4 DEF RevokedRecord, Record
    <2>7. CASE a = b
      BY <1>1, <2>3, <2>4, <2>5, <2>6, <2>7 DEF IsAvailable, TypeInv, TypeOK
    <2>8. CASE a # b
      <3>1. store[<<route[r].user, a>>] = None
        BY <1>1, <2>3, <2>8
      <3>2. store'[<<route[r].user, a>>] = store[<<route[r].user, a>>]
        BY <2>3, <2>5, <2>8
      <3> QED
        BY <1>1, <3>1, <3>2
    <2> QED
      BY <2>7, <2>8
  <1> DEFINE Emptied ==
        \A r \in Requests :
            LET u == route[r].user
                seen == Recorded(route[r].listed)
            IN (/\ route[r] # None
                /\ reply'[r] # reply[r] /\ reply'[r].kind = "disconnected"
                /\ \A a \in Accounts \ seen : store[<<u, a>>] = None)
               => \A a \in Accounts :
                     store'[<<u, a>>] # None => ~IsAvailable(store'[<<u, a>>], clock)
  <1>2. TypeInv /\ RoutesInv /\ [RoutesNext]_allVars => [Emptied]_allVars
    BY <1>1
  <1>3. UnnamedDisconnectEmpties <=> [][Emptied]_allVars
    BY DEF UnnamedDisconnectEmpties
  <1> QED
    BY <1>2, <1>3, RoutesInvariants, PTL DEF RoutesSpec

=============================================================================
