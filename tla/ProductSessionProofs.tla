------------------------- MODULE ProductSessionProofs -------------------------
(***************************************************************************)
(* Whatever the containers, the calls and the lists of allowed users: the  *)
(* variables of ProductSession keep their types, a session its container   *)
(* has logged out is not granted again, no request is granted on an        *)
(* expired token, and an edge token only as an active entry of its own.    *)
(***************************************************************************)
EXTENDS ProductSession, TLAPS, WellFoundedInduction, FiniteSetTheorems

SignedSession == [identity : Identity, expiresAt : Nat]

CallTyped(r) ==
    /\ Running(r) => arg[r] \in Arg
    /\ Running(r) /\ arg[r].token.kind = "session" => issued[arg[r].token.id] \in SignedSession
    /\ pc[r] = "entering" => app[arg[r].container] # None
    /\ pc[r] \in {"handling", "deriving"} => handler[r] \in Calls /\ conf[handler[r]] \in Configs
    /\ pc[r] = "deriving" => held[r] \in Session

\* An application has the environment it was built from, and a call what its
\* next step needs.
TypeInv ==
    /\ TypeOK
    /\ \A k \in Containers : app[k] # None => conf[app[k]] \in Configs
    /\ \A r \in Calls : CallTyped(r)

\* A session is signed by a login that has ended, so nothing signs it again, and
\* a request holds the expiry of its token.
ExpiryInv ==
    \A r \in Calls :
        /\ issued[r] # None => pc[r] = "done"
        /\ Running(r) /\ arg[r].token.kind = "session" => pc[arg[r].token.id] = "done"
        /\ pc[r] = "deriving" => held[r].expiresAt = ExpiryOf(arg[r].token)

Built(a) == pc[a] \notin {"new", "building"}
\* The entries an edge token may be granted for.
OwnActive(r, identity) ==
    \E e \in ToSet(ConfigOf(r).entries) :
        /\ e.subject = arg[r].token.id[1] /\ e.active
        /\ identity = <<e.tenant, e.user>>

\* An application that is in use is not built again, and the identity an edge
\* token is held for is that of an active entry of its subject.
EdgeInv ==
    /\ \A k \in Containers : app[k] # None => Built(app[k])
    /\ \A r \in Calls :
          /\ handler[r] # None => Built(handler[r])
          /\ pc[r] = "deriving" /\ arg[r].token.kind = "edge" => OwnActive(r, held[r].identity)

LogoutKept(k, token) ==
    token.kind = "session" /\ app[k] # None /\ token.id \in revoked[app[k]]

\* In a container that has had one application, the calls are handled by it, it
\* knows every session the container has logged out, and a call that came with
\* one of these holds it as revoked.
CallLogout(r) ==
    /\ r \in late => pc[r] # "new"
    /\ Running(r) /\ arg[r].container \notin rebuilt =>
          /\ pc[r] \in {"handling", "deriving"} =>
                app[arg[r].container] # None /\ handler[r] = app[arg[r].container]
          /\ r \in late => LogoutKept(arg[r].container, arg[r].token)
          /\ r \in late /\ pc[r] = "deriving" => held[r].revoked

LogoutInv ==
    /\ \A out \in loggedOut : out[1] \notin rebuilt => LogoutKept(out[1], out[2])
    /\ \A r \in Calls : CallLogout(r)

-----------------------------------------------------------------------------
(* Type correctness.                                                       *)

\* A step of one call leaves what the others have in hand alone.
OnlyCall(r) ==
    \A q \in Calls \ {r} : pc'[q] = pc[q] /\ arg'[q] = arg[q] /\ handler'[q] = handler[q]
                         /\ held'[q] = held[q] /\ reply'[q] = reply[q]

CallVarsTyped ==
    /\ pc \in [Calls -> Steps]
    /\ arg \in [Calls -> Arg \cup {None}]
    /\ handler \in [Calls -> Calls \cup {None}]
    /\ held \in [Calls -> Session \cup {None}]
    /\ reply \in [Calls -> Replies \cup {None}]

LEMMA AnswerType ==
    ASSUME CallVarsTyped, NEW r \in Calls,
           NEW kind \in {"logged_in", "logged_out", "granted"} \cup Refusals,
           NEW identity \in Identity \cup {None}, Answer(r, kind, identity)
    PROVE  /\ CallVarsTyped'
           /\ OnlyCall(r)
           /\ pc'[r] = "done" /\ reply'[r] = [kind |-> kind, identity |-> identity]
           /\ arg'[r] = None /\ handler'[r] = None /\ held'[r] = None
  <1>1. [kind |-> kind, identity |-> identity] \in Replies
    BY DEF Replies
  <1> QED
    BY <1>1 DEF CallVarsTyped, Answer, Finish, OnlyCall, Steps

LEMMA RefuseType ==
    ASSUME CallVarsTyped, NEW r \in Calls, NEW kind \in Refusals, Refuse(r, kind)
    PROVE  /\ CallVarsTyped'
           /\ OnlyCall(r)
           /\ pc'[r] = "done" /\ reply'[r] = [kind |-> kind, identity |-> None]
           /\ arg'[r] = None /\ handler'[r] = None /\ held'[r] = None
  <1>1. Answer(r, kind, None)
    BY DEF Refuse
  <1> QED
    BY <1>1, AnswerType

LEMMA HoldType ==
    ASSUME CallVarsTyped, NEW r \in Calls, NEW identity \in Identity,
           NEW expiresAt \in Nat, NEW isRevoked \in BOOLEAN,
           Hold(r, identity, expiresAt, isRevoked)
    PROVE  /\ CallVarsTyped'
           /\ OnlyCall(r)
           /\ pc'[r] = "deriving" /\ held'[r] \in Session
           /\ arg'[r] = arg[r] /\ handler'[r] = handler[r] /\ reply'[r] = reply[r]
           /\ held'[r] = [identity |-> identity, expiresAt |-> expiresAt, revoked |-> isRevoked]
  <1>1. [identity |-> identity, expiresAt |-> expiresAt, revoked |-> isRevoked] \in Session
    BY DEF Session
  <1> QED
    BY <1>1 DEF CallVarsTyped, Hold, Goto, OnlyCall, Steps

\* What a step must keep for the calls it does not take a step of.
OthersKept ==
    /\ \A k \in Containers : app[k] # None => app'[k] # None
    /\ \A a \in Calls : conf[a] \in Configs => conf'[a] \in Configs
    /\ \A s \in Calls : issued[s] \in SignedSession => issued'[s] \in SignedSession

LEMMA ArgOf ==
    ASSUME NEW x \in Arg
    PROVE  /\ x.op \in {"login", "logout", "request"} /\ x.container \in Containers
           /\ x.token \in Token /\ x.token.kind \in {"session", "edge", "bad"}
           /\ x.token.kind = "session" => x.token.id \in Calls
           /\ x.token.kind = "edge" => x.token.id[1] \in Subjects /\ x.token.id[2] \in Nat
  BY DEF Arg, Token, SessionToken, EdgeToken, BadToken

LEMMA OthersTyped ==
    ASSUME TypeInv, NEW r \in Calls, OnlyCall(r), OthersKept, CallTyped(r)'
    PROVE  \A q \in Calls : CallTyped(q)'
  <1> SUFFICES ASSUME NEW q \in Calls \ {r} PROVE CallTyped(q)'
    OBVIOUS
  <1>1. CallTyped(q) /\ pc'[q] = pc[q] /\ arg'[q] = arg[q] /\ handler'[q] = handler[q]
        /\ held'[q] = held[q]
    BY DEF TypeInv, OnlyCall
  <1>2. (Running(q))' <=> Running(q)
    BY <1>1 DEF Running
  <1>3. Running(q) => /\ arg[q] \in Arg /\ arg[q].container \in Containers
                      /\ arg[q].token.kind = "session" => arg[q].token.id \in Calls
    BY <1>1, ArgOf DEF CallTyped
  <1>4. pc[q] \in {"entering", "handling", "deriving"} => Running(q)
    BY DEF Running
  <1> QED
    BY <1>1, <1>2, <1>3, <1>4 DEF CallTyped, OthersKept

LEMMA TypeInvInit == Init => TypeInv
  <1> SUFFICES ASSUME Init PROVE TypeInv
    OBVIOUS
  <1>1. TypeOK
    BY DEF Init, TypeOK, Steps
  <1> QED
    BY <1>1 DEF Init, TypeInv, CallTyped, Running

LEMMA TypeInvArrive ==
    ASSUME TypeInv, NEW r \in Calls, NEW op \in {"login", "logout", "request"},
           NEW k \in Containers, NEW token \in Token, Arrive(r, op, k, token)
    PROVE  TypeInv'
  <1> USE DEF TypeInv, TypeOK
  <1>1. /\ arg' \in [Calls -> Arg \cup {None}] /\ arg'[r] \in Arg
        /\ arg'[r].container = k /\ arg'[r].token = token
    BY DEF Arrive, Arg
  <1>2. /\ pc' \in [Calls -> Steps] /\ pc'[r] \in {"building", "entering"}
        /\ pc'[r] = "entering" => app[k] # None
        /\ reply' = reply /\ \A q \in Calls \ {r} : pc'[q] = pc[q]
    BY DEF Arrive, Goto, Steps
  <1>3. token.kind = "session" => token.id \in Calls /\ issued[token.id] \in SignedSession
    BY DEF Arrive, Token, SessionToken, EdgeToken, BadToken, SignedSession
  <1>4. CallTyped(r)'
    BY <1>1, <1>2, <1>3 DEF CallTyped, Arrive, apps
  <1>5. OnlyCall(r) /\ OthersKept
    BY <1>2 DEF OnlyCall, OthersKept, Arrive, apps
  <1>6. \A q \in Calls : CallTyped(q)'
    BY <1>4, <1>5, OthersTyped
  <1>7. late' \subseteq Calls
    BY DEF Arrive
  <1> QED
    BY <1>1, <1>2, <1>6, <1>7 DEF Arrive, apps

LEMMA PresentIsArrival ==
    ASSUME NEW r \in Calls, Present(r)
    PROVE  \E op \in {"login", "logout", "request"}, k \in Containers, token \in Token :
              Arrive(r, op, k, token)
  <1>1. PICK k \in Containers :
          \/ Arrive(r, "login", k, [kind |-> "bad", id |-> None])
          \/ \E op \in {"logout", "request"} :
                \/ Arrive(r, op, k, [kind |-> "bad", id |-> None])
                \/ \E s \in Calls : Arrive(r, op, k, [kind |-> "session", id |-> s])
                \/ \E subject \in Subjects, expiresAt \in 1..MaxTime :
                      Arrive(r, op, k, [kind |-> "edge", id |-> <<subject, expiresAt>>])
    BY DEF Present
  <1>2. [kind |-> "bad", id |-> None] \in Token
    BY DEF Token, BadToken
  <1>3. ASSUME NEW s \in Calls PROVE [kind |-> "session", id |-> s] \in Token
    BY DEF Token, SessionToken
  <1>4. ASSUME NEW subject \in Subjects, NEW expiresAt \in 1..MaxTime
        PROVE  [kind |-> "edge", id |-> <<subject, expiresAt>>] \in Token
    BY TimeAssumption DEF Token, EdgeToken
  <1> QED
    BY <1>1, <1>2, <1>3, <1>4

LEMMA TypeInvBuild ==
    ASSUME TypeInv, NEW r \in Calls, BuildApp(r)
    PROVE  TypeInv'
  <1> USE DEF TypeInv, TypeOK
  <1> DEFINE k == arg[r].container
  <1>1. pc[r] = "building" /\ Running(r) /\ arg[r] \in Arg /\ k \in Containers
    BY ArgOf DEF BuildApp, Running, CallTyped
  <1>2. /\ app' \in [Containers -> Calls \cup {None}] /\ app'[k] = r
        /\ \A j \in Containers \ {k} : app'[j] = app[j]
        /\ conf' \in [Calls -> Configs \cup {None}] /\ conf'[r] \in Configs
        /\ \A a \in Calls \ {r} : conf'[a] = conf[a]
    BY <1>1 DEF BuildApp
  <1>3. /\ pc' \in [Calls -> Steps] /\ pc'[r] = "entering"
        /\ reply' = reply /\ \A q \in Calls \ {r} : pc'[q] = pc[q]
    BY DEF BuildApp, Goto, Steps
  <1>4. CallTyped(r)'
    BY <1>1, <1>2, <1>3, NoneAssumption DEF CallTyped, BuildApp, Running
  <1>5. OnlyCall(r) /\ OthersKept
    BY <1>2, <1>3, NoneAssumption DEF OnlyCall, OthersKept, BuildApp
  <1>6. \A q \in Calls : CallTyped(q)'
    BY <1>4, <1>5, OthersTyped
  <1>7. \A j \in Containers : app'[j] # None => conf'[app'[j]] \in Configs
    BY <1>2, <1>5 DEF OthersKept
  <1>8. rebuilt' \subseteq Containers
    BY <1>1 DEF BuildApp
  <1> QED
    BY <1>2, <1>3, <1>6, <1>7, <1>8 DEF BuildApp

LEMMA TypeInvEnter ==
    ASSUME TypeInv, NEW r \in Calls, EnterApp(r)
    PROVE  TypeInv'
  <1> USE DEF TypeInv, TypeOK
  <1> DEFINE k == arg[r].container
  <1>1. /\ pc[r] = "entering" /\ Running(r) /\ arg[r] \in Arg /\ k \in Containers
        /\ app[k] \in Calls /\ conf[app[k]] \in Configs
    BY ArgOf DEF EnterApp, Running, CallTyped
  <1>2. /\ handler' \in [Calls -> Calls \cup {None}] /\ handler'[r] = app[k]
        /\ \A q \in Calls \ {r} : handler'[q] = handler[q]
    BY <1>1 DEF EnterApp
  <1>3. /\ pc' \in [Calls -> Steps] /\ pc'[r] = "handling"
        /\ reply' = reply /\ \A q \in Calls \ {r} : pc'[q] = pc[q]
    BY DEF EnterApp, Goto, Steps
  <1>4. CallTyped(r)'
    BY <1>1, <1>2, <1>3 DEF CallTyped, EnterApp, Running, apps
  <1>5. OnlyCall(r) /\ OthersKept
    BY <1>2, <1>3 DEF OnlyCall, OthersKept, EnterApp, apps
  <1>6. \A q \in Calls : CallTyped(q)'
    BY <1>4, <1>5, OthersTyped
  <1> QED
    BY <1>2, <1>3, <1>6 DEF EnterApp, apps, history

\* A call that is over has nothing in hand.
LEMMA EndedTyped ==
    ASSUME NEW r \in Calls, pc'[r] = "done"
    PROVE  CallTyped(r)'
  BY DEF CallTyped, Running

LEMMA HandlingCall ==
    ASSUME TypeInv, NEW r \in Calls, pc[r] \in {"handling", "deriving"}
    PROVE  /\ Running(r) /\ arg[r] \in Arg /\ arg[r].container \in Containers
           /\ arg[r].token \in Token /\ handler[r] \in Calls
           /\ conf[handler[r]] \in Configs /\ conf[handler[r]] \in Config
  BY ArgOf, ConfigAssumption DEF TypeInv, CallTyped, Running

LEMMA TypeInvLogin ==
    ASSUME TypeInv, NEW r \in Calls, Login(r)
    PROVE  TypeInv'
  <1> USE DEF TypeInv, TypeOK
  <1>1. pc[r] = "handling" /\ UNCHANGED <<clock, apps, history>> /\ CallVarsTyped
    BY DEF Login, CallVarsTyped
  <1>2. conf[handler[r]].trusted \in Identity /\ clock + Ttl \in Nat
    BY <1>1, HandlingCall, TimeAssumption DEF Config
  <1>3. /\ issued' \in [Calls -> SignedSession \cup {None}]
        /\ \A s \in Calls : issued[s] \in SignedSession => issued'[s] \in SignedSession
    BY <1>2 DEF Login, SignedSession
  <1>4. CallVarsTyped' /\ OnlyCall(r) /\ pc'[r] = "done"
    <2>1. CASE Refuse(r, "refused")
      BY <1>1, <2>1, RefuseType DEF Refusals
    <2>2. CASE Answer(r, "logged_in", None)
      BY <1>1, <2>2, AnswerType
    <2> QED
      BY <2>1, <2>2 DEF Login
  <1>5. \A q \in Calls : CallTyped(q)'
    BY <1>1, <1>3, <1>4, EndedTyped, OthersTyped DEF OthersKept, apps
  <1> QED
    BY <1>1, <1>3, <1>4, <1>5 DEF CallVarsTyped, SignedSession, apps, history

LEMMA TypeInvLogout ==
    ASSUME TypeInv, NEW r \in Calls, Logout(r)
    PROVE  TypeInv'
  <1> USE DEF TypeInv, TypeOK
  <1>1. pc[r] = "handling" /\ UNCHANGED <<clock, env, app, conf, issued, late, rebuilt>>
        /\ CallVarsTyped
    BY DEF Logout, CallVarsTyped
  <1>2. /\ handler[r] \in Calls /\ arg[r].container \in Containers /\ arg[r].token \in Token
        /\ arg[r].token.kind = "session" => arg[r].token.id \in Calls
    BY <1>1, HandlingCall, ArgOf
  <1>3. revoked' \in [Calls -> SUBSET Calls] /\ loggedOut' \subseteq Containers \X Token
    BY <1>2 DEF Logout
  <1>4. CallVarsTyped' /\ OnlyCall(r) /\ pc'[r] = "done"
    <2>1. CASE Refuse(r, "refused")
      BY <1>1, <2>1, RefuseType DEF Refusals
    <2>2. CASE Answer(r, "logged_out", None)
      BY <1>1, <2>2, AnswerType
    <2> QED
      BY <2>1, <2>2 DEF Logout
  <1>5. \A q \in Calls : CallTyped(q)'
    BY <1>1, <1>4, EndedTyped, OthersTyped DEF OthersKept
  <1> QED
    BY <1>1, <1>3, <1>4, <1>5 DEF CallVarsTyped

\* The steps that answer or hold, and change nothing but what their call has.
LEMMA TypeInvOwn ==
    ASSUME TypeInv, NEW r \in Calls, CallVarsTyped', OnlyCall(r), CallTyped(r)',
           UNCHANGED <<clock, apps, issued, history>>
    PROVE  TypeInv'
  <1>1. \A q \in Calls : CallTyped(q)'
    BY OthersTyped DEF OthersKept, apps
  <1> QED
    BY <1>1 DEF TypeInv, TypeOK, CallVarsTyped, apps, history

\* A call that holds a session goes on with it.
LEMMA HeldTyped ==
    ASSUME TypeInv, NEW r \in Calls, pc[r] = "handling", NEW identity \in Identity,
           NEW expiresAt \in Nat, NEW isRevoked \in BOOLEAN,
           Hold(r, identity, expiresAt, isRevoked), UNCHANGED <<clock, apps, issued, history>>
    PROVE  TypeInv'
  <1>1. CallVarsTyped
    BY DEF TypeInv, TypeOK, CallVarsTyped
  <1>2. /\ CallVarsTyped' /\ OnlyCall(r) /\ pc'[r] = "deriving" /\ held'[r] \in Session
        /\ arg'[r] = arg[r] /\ handler'[r] = handler[r]
    BY <1>1, HoldType
  <1>3. CallTyped(r) /\ Running(r) /\ handler[r] \in Calls /\ conf[handler[r]] \in Configs
    BY HandlingCall DEF TypeInv
  <1>4. CallTyped(r)'
    BY <1>2, <1>3 DEF CallTyped, Running, apps
  <1> QED
    BY <1>2, <1>4, TypeInvOwn

LEMMA RefusedTyped ==
    ASSUME TypeInv, NEW r \in Calls, NEW kind \in Refusals, Refuse(r, kind),
           UNCHANGED <<clock, apps, issued, history>>
    PROVE  TypeInv'
  <1>1. CallVarsTyped
    BY DEF TypeInv, TypeOK, CallVarsTyped
  <1> QED
    BY <1>1, RefuseType, EndedTyped, TypeInvOwn

\* What authentication finds in the token of a request.
LEMMA SessionHeld ==
    ASSUME TypeInv, NEW r \in Calls, AuthenticateSession(r)
    PROVE  /\ pc[r] = "handling" /\ arg[r].token.kind = "session" /\ arg[r].token.id \in Calls
           /\ issued[arg[r].token.id] \in SignedSession
           /\ issued[arg[r].token.id].identity \in Identity
           /\ issued[arg[r].token.id].expiresAt \in Nat
           /\ Hold(r, issued[arg[r].token.id].identity, issued[arg[r].token.id].expiresAt,
                   arg[r].token.id \in revoked[handler[r]])
           /\ UNCHANGED <<clock, apps, issued, history>>
  <1>1. pc[r] = "handling" /\ arg[r].token.kind = "session"
    BY DEF AuthenticateSession
  <1>2. Running(r) /\ arg[r] \in Arg /\ CallTyped(r)
    BY <1>1, HandlingCall DEF TypeInv
  <1>3. arg[r].token.id \in Calls /\ issued[arg[r].token.id] \in SignedSession
    BY <1>1, <1>2, ArgOf DEF CallTyped
  <1> QED
    BY <1>1, <1>3 DEF AuthenticateSession, SignedSession

LEMMA EdgeHeld ==
    ASSUME TypeInv, NEW r \in Calls, AuthenticateEdge(r)
    PROVE  /\ pc[r] = "handling" /\ arg[r].token.kind = "edge" /\ arg[r].token.id[2] \in Nat
           /\ UNCHANGED <<clock, apps, issued, history>>
           /\ \/ Refuse(r, "refused")
              \/ Refuse(r, "forbidden")
              \/ \E e \in AllowedEntries(conf[handler[r]], arg[r].token.id[1]) :
                    /\ <<e.tenant, e.user>> \in Identity
                    /\ Hold(r, <<e.tenant, e.user>>, arg[r].token.id[2], FALSE)
  <1>1. pc[r] = "handling" /\ arg[r].token.kind = "edge"
        /\ UNCHANGED <<clock, apps, issued, history>>
    BY DEF AuthenticateEdge
  <1>2. arg[r] \in Arg /\ conf[handler[r]] \in Config
    BY <1>1, HandlingCall
  <1>3. arg[r].token.id[2] \in Nat
    BY <1>1, <1>2, ArgOf
  <1>4. ASSUME NEW e \in AllowedEntries(conf[handler[r]], arg[r].token.id[1])
        PROVE  <<e.tenant, e.user>> \in Identity
    <2>1. conf[handler[r]].entries \in Seq(Entry) /\ e \in ToSet(conf[handler[r]].entries)
      BY <1>2 DEF AllowedEntries, Config
    <2>2. e \in Entry
      BY <2>1 DEF ToSet
    <2> QED
      BY <2>2 DEF Entry, Identity
  <1> QED
    BY <1>1, <1>3, <1>4 DEF AuthenticateEdge

LEMMA DeriveAnswer ==
    ASSUME TypeInv, NEW r \in Calls, DeriveIdentity(r)
    PROVE  /\ pc[r] = "deriving" /\ held[r] \in Session
           /\ UNCHANGED <<clock, apps, issued, history>>
           /\ \/ \E kind \in Refusals : Refuse(r, kind)
              \/ /\ ~held[r].revoked /\ clock < held[r].expiresAt
                 /\ IsActiveMember(Directory(ConfigOf(r)), held[r].identity)
                 /\ held[r].identity \in Identity
                 /\ Answer(r, "granted", held[r].identity)
  <1>1. pc[r] = "deriving" /\ held[r] \in Session
    BY DEF DeriveIdentity, TypeInv, CallTyped
  <1>2. held[r].identity \in Identity
    BY <1>1 DEF Session
  <1> QED
    BY <1>1, <1>2 DEF DeriveIdentity, ConfigOf, Refusals

LEMMA TypeInvAuthenticate ==
    ASSUME TypeInv, NEW r \in Calls,
           AuthenticateSession(r) \/ AuthenticateEdge(r) \/ RejectToken(r)
    PROVE  TypeInv'
  <1>1. CASE AuthenticateSession(r)
    <2> DEFINE s == issued[arg[r].token.id]
               isRevoked == arg[r].token.id \in revoked[handler[r]]
    <2>1. /\ pc[r] = "handling" /\ s.identity \in Identity /\ s.expiresAt \in Nat
          /\ isRevoked \in BOOLEAN /\ Hold(r, s.identity, s.expiresAt, isRevoked)
          /\ UNCHANGED <<clock, apps, issued, history>>
      BY <1>1, SessionHeld
    <2> HIDE DEF s, isRevoked
    <2> QED
      BY <2>1, HeldTyped
  <1>2. CASE AuthenticateEdge(r)
    <2>1. Refuse(r, "refused") \/ Refuse(r, "forbidden") => TypeInv'
      BY <1>2, EdgeHeld, RefusedTyped DEF Refusals
    <2>2. ASSUME NEW identity \in Identity, Hold(r, identity, arg[r].token.id[2], FALSE)
          PROVE  TypeInv'
      BY <1>2, <2>2, EdgeHeld, HeldTyped
    <2> QED
      BY <1>2, <2>1, <2>2, EdgeHeld
  <1>3. CASE RejectToken(r)
    BY <1>3, RefusedTyped DEF RejectToken, Refusals
  <1> QED
    BY <1>1, <1>2, <1>3

LEMMA TypeInvDerive ==
    ASSUME TypeInv, NEW r \in Calls, DeriveIdentity(r)
    PROVE  TypeInv'
  <1>1. CASE \E kind \in Refusals : Refuse(r, kind)
    BY <1>1, DeriveAnswer, RefusedTyped
  <1>2. CASE held[r].identity \in Identity /\ Answer(r, "granted", held[r].identity)
    <2>1. CallVarsTyped
      BY DEF TypeInv, TypeOK, CallVarsTyped
    <2> QED
      BY <1>2, <2>1, AnswerType, EndedTyped, DeriveAnswer, TypeInvOwn
  <1> QED
    BY <1>1, <1>2, DeriveAnswer

\* A container that is replaced takes its calls with it; what another container
\* or its calls use is kept.
LEMMA RestartEffect ==
    ASSUME TypeInv, NEW k \in Containers, NEW config \in Configs, Restart(k, config)
    PROVE  /\ UNCHANGED <<clock, issued, late>>
           /\ CallVarsTyped'
           /\ app' = [app EXCEPT ![k] = None]
           /\ \A r \in Calls :
                 IF Running(r) /\ arg[r].container = k
                 THEN /\ pc'[r] = "done" /\ arg'[r] = None /\ handler'[r] = None
                      /\ held'[r] = None /\ reply'[r] = [kind |-> "failed", identity |-> None]
                 ELSE /\ pc'[r] = pc[r] /\ arg'[r] = arg[r] /\ handler'[r] = handler[r]
                      /\ held'[r] = held[r] /\ reply'[r] = reply[r]
           /\ \A a \in Calls :
                 \/ \E j \in Containers \ {k} : a = app[j]
                 \/ \E r \in Calls : a = handler[r] /\ ~(Running(r) /\ arg[r].container = k)
                 => conf'[a] = conf[a] /\ revoked'[a] = revoked[a]
  <1> USE DEF TypeInv, TypeOK
  <1> DEFINE lost == {r \in Calls : Running(r) /\ arg[r].container = k}
             kept == {app[j] : j \in Containers \ {k}} \cup {handler[r] : r \in Calls \ lost}
  <1>1. /\ Finish(lost, [kind |-> "failed", identity |-> None])
        /\ UNCHANGED <<clock, issued, late>> /\ app' = [app EXCEPT ![k] = None]
        /\ conf' = [a \in Calls |-> IF a \in kept THEN conf[a] ELSE None]
        /\ revoked' = [a \in Calls |-> IF a \in kept THEN revoked[a] ELSE {}]
    BY DEF Restart
  <1>2. [kind |-> "failed", identity |-> None] \in Replies
    BY DEF Replies, Refusals
  <1>3. CallVarsTyped'
    BY <1>1, <1>2 DEF CallVarsTyped, Finish, Steps
  <1>4. \A a \in Calls :
           \/ \E j \in Containers \ {k} : a = app[j]
           \/ \E r \in Calls : a = handler[r] /\ ~(Running(r) /\ arg[r].container = k)
           => conf'[a] = conf[a] /\ revoked'[a] = revoked[a]
    BY <1>1
  <1>5. \A r \in Calls :
           IF Running(r) /\ arg[r].container = k
           THEN /\ pc'[r] = "done" /\ arg'[r] = None /\ handler'[r] = None
                /\ held'[r] = None /\ reply'[r] = [kind |-> "failed", identity |-> None]
           ELSE /\ pc'[r] = pc[r] /\ arg'[r] = arg[r] /\ handler'[r] = handler[r]
                /\ held'[r] = held[r] /\ reply'[r] = reply[r]
    BY <1>1 DEF Finish
  <1> QED
    BY <1>1, <1>3, <1>4, <1>5

LEMMA TypeInvRestart ==
    ASSUME TypeInv, NEW k \in Containers, NEW config \in Configs, Restart(k, config)
    PROVE  TypeInv'
  <1> USE DEF TypeInv, TypeOK
  <1>1. /\ env' \in [Containers -> Configs] /\ app' \in [Containers -> Calls \cup {None}]
        /\ conf' \in [Calls -> Configs \cup {None}] /\ revoked' \in [Calls -> SUBSET Calls]
        /\ loggedOut' \subseteq Containers \X Token /\ rebuilt' \subseteq Containers
    BY DEF Restart
  <1>2. CallVarsTyped' /\ UNCHANGED <<clock, issued, late>>
    BY RestartEffect
  <1>3. ASSUME NEW j \in Containers, app'[j] # None
        PROVE  conf'[app'[j]] \in Configs
    <2>1. j # k /\ app'[j] = app[j] /\ app[j] \in Calls
      BY <1>3, RestartEffect
    <2> QED
      BY <1>3, <2>1, RestartEffect
  <1>4. ASSUME NEW q \in Calls PROVE CallTyped(q)'
    <2>1. CASE Running(q) /\ arg[q].container = k
      BY <2>1, RestartEffect, EndedTyped
    <2>2. CASE ~(Running(q) /\ arg[q].container = k)
      <3>1. /\ pc'[q] = pc[q] /\ arg'[q] = arg[q] /\ handler'[q] = handler[q]
            /\ held'[q] = held[q] /\ issued' = issued /\ CallTyped(q)
        BY <2>2, RestartEffect
      <3>2. handler[q] \in Calls => conf'[handler[q]] = conf[handler[q]]
        BY <2>2, RestartEffect
      <3>3. pc[q] = "entering" => app'[arg[q].container] # None
        BY <2>2, <3>1, RestartEffect, ArgOf DEF Running, CallTyped
      <3> QED
        BY <3>1, <3>2, <3>3 DEF CallTyped, Running
    <2> QED
      BY <2>1, <2>2
  <1> QED
    BY <1>1, <1>2, <1>3, <1>4 DEF CallVarsTyped

LEMMA TypeInvStutter ==
    ASSUME TypeInv, UNCHANGED vars
    PROVE  TypeInv'
  BY DEF TypeInv, TypeOK, vars, CallTyped, Running

LEMMA TypeInvTick ==
    ASSUME TypeInv, Tick
    PROVE  TypeInv'
  BY DEF TypeInv, TypeOK, Tick, CallTyped, Running, apps, calls, history

LEMMA TypeInvNext == TypeInv /\ [Next]_vars => TypeInv'
  <1> SUFFICES ASSUME TypeInv, [Next]_vars PROVE TypeInv'
    OBVIOUS
  <1>1. ASSUME NEW r \in Calls, Present(r) PROVE TypeInv'
    BY <1>1, PresentIsArrival, TypeInvArrive
  <1>2. ASSUME NEW r \in Calls, BuildApp(r) \/ EnterApp(r) PROVE TypeInv'
    BY <1>2, TypeInvBuild, TypeInvEnter
  <1>3. ASSUME NEW r \in Calls, Login(r) \/ Logout(r) PROVE TypeInv'
    BY <1>3, TypeInvLogin, TypeInvLogout
  <1>4. ASSUME NEW r \in Calls, AuthenticateSession(r) \/ AuthenticateEdge(r) \/ RejectToken(r)
        PROVE  TypeInv'
    BY <1>4, TypeInvAuthenticate
  <1>5. ASSUME NEW r \in Calls, DeriveIdentity(r) PROVE TypeInv'
    BY <1>5, TypeInvDerive
  <1>6. ASSUME NEW k \in Containers, NEW config \in Configs, Restart(k, config) PROVE TypeInv'
    BY <1>6, TypeInvRestart
  <1> QED
    BY <1>1, <1>2, <1>3, <1>4, <1>5, <1>6, TypeInvTick, TypeInvStutter DEF Next

LEMMA AlwaysTypeInv == Spec => []TypeInv
  BY TypeInvInit, TypeInvNext, PTL DEF Spec

\* The variables of the containers and the calls keep their types.
THEOREM TypeCorrect == Spec => []TypeOK
  <1>1. TypeInv => TypeOK
    BY DEF TypeInv
  <1> QED
    BY <1>1, AlwaysTypeInv, PTL

-----------------------------------------------------------------------------
(* What each step does to its call, and to nothing else.                   *)

LEMMA ArriveEffect ==
    ASSUME TypeInv, NEW r \in Calls, Present(r)
    PROVE  /\ pc[r] = "new" /\ pc'[r] \in {"building", "entering"} /\ OnlyCall(r)
           /\ UNCHANGED <<clock, apps, issued, handler, held, reply, loggedOut, rebuilt>>
           /\ arg'[r] \in Arg
           /\ arg'[r].token.kind = "session" => issued[arg'[r].token.id] # None
           /\ pc'[r] = "entering" <=> app[arg'[r].container] # None
           /\ late' = IF <<arg'[r].container, arg'[r].token>> \in loggedOut
                      THEN late \cup {r} ELSE late
  <1>1. PICK op \in {"login", "logout", "request"}, k \in Containers, token \in Token :
          Arrive(r, op, k, token)
    BY PresentIsArrival
  <1>2. /\ arg'[r] = [op |-> op, container |-> k, token |-> token] /\ arg'[r] \in Arg
        /\ arg'[r].container = k /\ arg'[r].token = token
    BY <1>1 DEF Arrive, TypeInv, TypeOK, Arg
  <1>3. OnlyCall(r) /\ reply' = reply /\ pc'[r] = IF app[k] = None THEN "building" ELSE "entering"
    BY <1>1 DEF Arrive, Goto, OnlyCall, TypeInv, TypeOK
  <1> QED
    BY <1>1, <1>2, <1>3 DEF Arrive

LEMMA BuildEffect ==
    ASSUME TypeInv, NEW r \in Calls, BuildApp(r)
    PROVE  /\ pc[r] = "building" /\ pc'[r] = "entering" /\ OnlyCall(r) /\ Running(r)
           /\ arg[r] \in Arg /\ arg[r].container \in Containers
           /\ UNCHANGED <<clock, env, revoked, issued, arg, handler, held, reply, loggedOut, late>>
           /\ app' = [app EXCEPT ![arg[r].container] = r]
           /\ \A a \in Calls \ {r} : conf'[a] = conf[a]
           /\ rebuilt' = IF app[arg[r].container] = None THEN rebuilt
                         ELSE rebuilt \cup {arg[r].container}
  <1>1. Running(r) /\ arg[r] \in Arg /\ arg[r].container \in Containers
    BY ArgOf DEF BuildApp, TypeInv, CallTyped, Running
  <1> QED
    BY <1>1 DEF BuildApp, Goto, OnlyCall, TypeInv, TypeOK

LEMMA EnterEffect ==
    ASSUME TypeInv, NEW r \in Calls, EnterApp(r)
    PROVE  /\ pc[r] = "entering" /\ pc'[r] = "handling" /\ OnlyCall(r) /\ Running(r)
           /\ arg[r] \in Arg /\ arg[r].container \in Containers
           /\ UNCHANGED <<clock, apps, issued, arg, held, reply, history>>
           /\ app[arg[r].container] \in Calls /\ app[arg[r].container] # None
           /\ handler'[r] = app[arg[r].container]
  <1>1. /\ Running(r) /\ arg[r] \in Arg /\ arg[r].container \in Containers
        /\ app[arg[r].container] \in Calls /\ app[arg[r].container] # None
    BY ArgOf DEF EnterApp, TypeInv, TypeOK, CallTyped, Running
  <1> QED
    BY <1>1 DEF EnterApp, Goto, OnlyCall, TypeInv, TypeOK

Ended(r) == pc'[r] = "done" /\ arg'[r] = None /\ handler'[r] = None /\ held'[r] = None

LEMMA LoginEffect ==
    ASSUME TypeInv, NEW r \in Calls, Login(r)
    PROVE  /\ pc[r] = "handling" /\ OnlyCall(r) /\ Ended(r)
           /\ reply'[r].kind \in {"refused", "logged_in"}
           /\ UNCHANGED <<clock, apps, history>>
           /\ \A s \in Calls \ {r} : issued'[s] = issued[s]
  <1>1. CallVarsTyped /\ pc[r] = "handling" /\ UNCHANGED <<clock, apps, history>>
    BY DEF TypeInv, TypeOK, CallVarsTyped, Login
  <1>2. OnlyCall(r) /\ Ended(r) /\ reply'[r].kind \in {"refused", "logged_in"}
    <2>1. CASE Refuse(r, "refused")
      BY <1>1, <2>1, RefuseType DEF Refusals, Ended
    <2>2. CASE Answer(r, "logged_in", None)
      <3>1. /\ OnlyCall(r) /\ reply'[r] = [kind |-> "logged_in", identity |-> None]
            /\ pc'[r] = "done" /\ arg'[r] = None /\ handler'[r] = None /\ held'[r] = None
        BY <1>1, <2>2, AnswerType
      <3> QED
        BY <3>1 DEF Ended
    <2> QED
      BY <2>1, <2>2 DEF Login
  <1>3. \A s \in Calls \ {r} : issued'[s] = issued[s]
    BY DEF Login, TypeInv, TypeOK
  <1> QED
    BY <1>1, <1>2, <1>3

LEMMA LogoutEffect ==
    ASSUME TypeInv, NEW r \in Calls, Logout(r)
    PROVE  /\ pc[r] = "handling" /\ OnlyCall(r) /\ Ended(r)
           /\ reply'[r].kind \in {"refused", "logged_out"}
           /\ UNCHANGED <<clock, env, app, conf, issued, late, rebuilt>>
           /\ handler[r] \in Calls
           /\ \/ UNCHANGED <<revoked, loggedOut>>
              \/ /\ arg[r].token.kind = "session"
                 /\ revoked' = [revoked EXCEPT ![handler[r]] = @ \cup {arg[r].token.id}]
                 /\ loggedOut' = loggedOut \cup {<<arg[r].container, arg[r].token>>}
  <1>1. CallVarsTyped /\ pc[r] = "handling" /\ handler[r] \in Calls
        /\ UNCHANGED <<clock, env, app, conf, issued, late, rebuilt>>
    BY HandlingCall DEF TypeInv, TypeOK, CallVarsTyped, Logout
  <1>2. OnlyCall(r) /\ Ended(r) /\ reply'[r].kind \in {"refused", "logged_out"}
    <2>1. CASE Refuse(r, "refused")
      BY <1>1, <2>1, RefuseType DEF Refusals, Ended
    <2>2. CASE Answer(r, "logged_out", None)
      <3>1. /\ OnlyCall(r) /\ reply'[r] = [kind |-> "logged_out", identity |-> None]
            /\ pc'[r] = "done" /\ arg'[r] = None /\ handler'[r] = None /\ held'[r] = None
        BY <1>1, <2>2, AnswerType
      <3> QED
        BY <3>1 DEF Ended
    <2> QED
      BY <2>1, <2>2 DEF Logout
  <1> QED
    BY <1>1, <1>2 DEF Logout

\* A request that is being answered: it is refused, holds the session of its
\* token, or is granted the identity it holds.
RequestStep(r) ==
    AuthenticateSession(r) \/ AuthenticateEdge(r) \/ RejectToken(r) \/ DeriveIdentity(r)

HeldOfToken(r) ==
    /\ pc[r] = "handling" /\ pc'[r] = "deriving" /\ reply'[r] = reply[r]
    /\ arg'[r] = arg[r] /\ handler'[r] = handler[r]
    /\ held'[r].expiresAt = ExpiryOf(arg[r].token)
    /\ \/ /\ arg[r].token.kind = "session"
          /\ held'[r].revoked = (arg[r].token.id \in revoked[handler[r]])
       \/ arg[r].token.kind = "edge" /\ OwnActive(r, held'[r].identity)

Granted(r) ==
    /\ pc[r] = "deriving" /\ ~held[r].revoked /\ clock < held[r].expiresAt
    /\ IsActiveMember(Directory(ConfigOf(r)), held[r].identity)
    /\ reply'[r] = [kind |-> "granted", identity |-> held[r].identity]

LEMMA RefusalEffect ==
    ASSUME TypeInv, NEW r \in Calls, NEW kind \in Refusals, Refuse(r, kind)
    PROVE  OnlyCall(r) /\ Ended(r) /\ reply'[r].kind # "granted"
  <1>1. CallVarsTyped
    BY DEF TypeInv, TypeOK, CallVarsTyped
  <1> QED
    BY <1>1, RefuseType DEF Ended, Refusals

LEMMA RequestEffect ==
    ASSUME TypeInv, NEW r \in Calls, RequestStep(r)
    PROVE  /\ pc[r] \in {"handling", "deriving"} /\ OnlyCall(r)
           /\ UNCHANGED <<clock, apps, issued, history>>
           /\ \/ HeldOfToken(r)
              \/ Ended(r) /\ (reply'[r].kind # "granted" \/ Granted(r))
  <1>1. CallVarsTyped
    BY DEF TypeInv, TypeOK, CallVarsTyped
  <1>2. CASE AuthenticateSession(r)
    <2> DEFINE s == issued[arg[r].token.id]
               isRevoked == arg[r].token.id \in revoked[handler[r]]
    <2>1. /\ pc[r] = "handling" /\ s.identity \in Identity /\ s.expiresAt \in Nat
          /\ isRevoked \in BOOLEAN /\ Hold(r, s.identity, s.expiresAt, isRevoked)
          /\ UNCHANGED <<clock, apps, issued, history>> /\ arg[r].token.kind = "session"
      BY <1>2, SessionHeld
    <2>2. ExpiryOf(arg[r].token) = s.expiresAt
      BY <2>1 DEF ExpiryOf
    <2>3. /\ OnlyCall(r) /\ pc'[r] = "deriving"
          /\ arg'[r] = arg[r] /\ handler'[r] = handler[r] /\ reply'[r] = reply[r]
          /\ held'[r] = [identity |-> s.identity, expiresAt |-> s.expiresAt,
                         revoked |-> isRevoked]
      <3> HIDE DEF s, isRevoked
      <3> QED
        BY <1>1, <2>1, HoldType
    <2> QED
      BY <2>1, <2>2, <2>3 DEF HeldOfToken
  <1>3. CASE AuthenticateEdge(r)
    <2>1. pc[r] = "handling" /\ arg[r].token.kind = "edge" /\ arg[r].token.id[2] \in Nat
          /\ UNCHANGED <<clock, apps, issued, history>>
      BY <1>3, EdgeHeld
    <2>2. CASE Refuse(r, "refused") \/ Refuse(r, "forbidden")
      BY <2>1, <2>2, RefusalEffect DEF Refusals
    <2>3. ASSUME NEW e \in AllowedEntries(conf[handler[r]], arg[r].token.id[1]),
                 <<e.tenant, e.user>> \in Identity,
                 Hold(r, <<e.tenant, e.user>>, arg[r].token.id[2], FALSE)
          PROVE  OnlyCall(r) /\ HeldOfToken(r)
      <3>1. /\ OnlyCall(r) /\ pc'[r] = "deriving" /\ reply'[r] = reply[r]
            /\ arg'[r] = arg[r] /\ handler'[r] = handler[r]
            /\ held'[r] = [identity |-> <<e.tenant, e.user>>,
                           expiresAt |-> arg[r].token.id[2], revoked |-> FALSE]
        BY <1>1, <2>1, <2>3, HoldType
      <3>2. OwnActive(r, held'[r].identity)
        BY <2>3, <3>1 DEF OwnActive, AllowedEntries, ConfigOf
      <3>3. ExpiryOf(arg[r].token) = held'[r].expiresAt
        BY <2>1, <3>1 DEF ExpiryOf
      <3> QED
        BY <2>1, <3>1, <3>2, <3>3 DEF HeldOfToken
    <2> QED
      BY <1>3, <2>1, <2>2, <2>3, EdgeHeld
  <1>4. CASE RejectToken(r)
    BY <1>4, RefusalEffect DEF RejectToken, Refusals
  <1>5. CASE DeriveIdentity(r)
    <2>1. CASE \E kind \in Refusals : Refuse(r, kind)
      BY <1>5, <2>1, DeriveAnswer, RefusalEffect
    <2>2. CASE /\ ~held[r].revoked /\ clock < held[r].expiresAt
               /\ IsActiveMember(Directory(ConfigOf(r)), held[r].identity)
               /\ held[r].identity \in Identity /\ Answer(r, "granted", held[r].identity)
      BY <1>1, <1>5, <2>2, DeriveAnswer, AnswerType DEF Granted, Ended
    <2> QED
      BY <1>5, <2>1, <2>2, DeriveAnswer
  <1> QED
    BY <1>2, <1>3, <1>4, <1>5 DEF RequestStep

LEMMA StepIsOfOneCall ==
    ASSUME TypeInv, [Next]_vars
    PROVE  \/ \E r \in Calls : Present(r) \/ BuildApp(r) \/ EnterApp(r) \/ Login(r) \/ Logout(r)
                              \/ RequestStep(r)
           \/ \E k \in Containers, config \in Configs : Restart(k, config)
           \/ UNCHANGED <<app, conf, revoked, issued, calls, history>>
  BY DEF Next, RequestStep, Tick, vars, apps, calls, history

\* A grant is the last step of a request whose session is neither revoked nor
\* expired.
LEMMA GrantIsDerived ==
    ASSUME TypeInv, [Next]_vars, NEW r \in Calls, Grants(r)
    PROVE  Granted(r)
  <1>1. ASSUME NEW q \in Calls,
               Present(q) \/ BuildApp(q) \/ EnterApp(q) \/ Login(q) \/ Logout(q)
        PROVE  FALSE
    <2>1. OnlyCall(q)
      BY <1>1, ArriveEffect, BuildEffect, EnterEffect, LoginEffect, LogoutEffect
    <2>2. q = r
      BY <2>1 DEF OnlyCall, Grants
    <2>3. reply'[r] = reply[r] \/ reply'[r].kind \in {"refused", "logged_in", "logged_out"}
      BY <1>1, <2>2, ArriveEffect, BuildEffect, EnterEffect, LoginEffect, LogoutEffect
    <2> QED
      BY <2>3 DEF Grants
  <1>2. ASSUME NEW q \in Calls, RequestStep(q)
        PROVE  Granted(r)
    <2>1. q = r
      BY <1>2, RequestEffect DEF OnlyCall, Grants
    <2>2. reply'[r] # reply[r] /\ reply'[r].kind = "granted"
      BY DEF Grants
    <2> QED
      BY <1>2, <2>1, <2>2, RequestEffect DEF HeldOfToken
  <1>3. ASSUME NEW k \in Containers, NEW config \in Configs, Restart(k, config)
        PROVE  FALSE
    BY <1>3, RestartEffect DEF Grants
  <1>4. CASE UNCHANGED <<app, conf, revoked, issued, calls, history>>
    BY <1>4 DEF Grants, calls
  <1> QED
    BY <1>1, <1>2, <1>3, <1>4, StepIsOfOneCall

-----------------------------------------------------------------------------
(* Expiry.                                                                 *)

\* A step keeps ExpiryInv when it signs at most the session of its own call,
\* which has not ended, and holds no session but that of its token.
LEMMA ExpiryInvOfCall ==
    ASSUME TypeInv, TypeInv', ExpiryInv, NEW r \in Calls, OnlyCall(r), pc[r] # "done",
           \A s \in Calls \ {r} : issued'[s] = issued[s],
           issued'[r] # issued[r] => pc'[r] = "done",
           (Running(r))' /\ arg'[r].token.kind = "session" =>
              issued[arg'[r].token.id] # None /\ issued' = issued,
           pc'[r] = "deriving" =>
              issued' = issued /\ held'[r].expiresAt = ExpiryOf(arg'[r].token)
    PROVE  ExpiryInv'
  <1>1. \A q \in Calls : pc[q] = "done" => pc'[q] = "done"
    BY DEF OnlyCall
  <1>2. ASSUME NEW q \in Calls, issued'[q] # None PROVE pc'[q] = "done"
    BY <1>1, <1>2 DEF ExpiryInv
  <1>3. ASSUME NEW q \in Calls, (Running(q))', arg'[q].token.kind = "session"
        PROVE  pc'[arg'[q].token.id] = "done"
    <2>1. arg'[q] \in Arg /\ arg'[q].token.id \in Calls
      BY <1>3, ArgOf DEF TypeInv, CallTyped
    <2>2. CASE q = r
      BY <1>1, <1>3, <2>1, <2>2 DEF ExpiryInv
    <2>3. CASE q # r
      BY <1>1, <1>3, <2>1, <2>3 DEF ExpiryInv, OnlyCall, Running
    <2> QED
      BY <2>2, <2>3
  <1>4. ASSUME NEW q \in Calls, pc'[q] = "deriving"
        PROVE  held'[q].expiresAt = (ExpiryOf(arg[q].token))'
    <2>1. CASE q = r
      <3>1. issued' = issued
        BY <1>4, <2>1
      <3> QED
        BY <1>4, <2>1, <3>1 DEF ExpiryOf
    <2>2. CASE q # r
      <3>1. /\ Running(q) /\ arg'[q] = arg[q] /\ arg[q] \in Arg
            /\ held'[q].expiresAt = ExpiryOf(arg[q].token)
            /\ arg[q].token.kind = "session" => arg[q].token.id \in Calls
        BY <1>4, <2>2, ArgOf DEF OnlyCall, ExpiryInv, Running, TypeInv, CallTyped
      <3>2. arg[q].token.kind = "session" => issued'[arg[q].token.id] = issued[arg[q].token.id]
        BY <3>1 DEF ExpiryInv
      <3> QED
        BY <3>1, <3>2 DEF ExpiryOf
    <2> QED
      BY <2>1, <2>2
  <1> QED
    BY <1>2, <1>3, <1>4 DEF ExpiryInv

\* The other steps sign nothing and leave the token of every call alone.
LEMMA ExpiryInvKept ==
    ASSUME TypeInv, ExpiryInv, issued' = issued,
           \A q \in Calls : pc[q] = "done" => pc'[q] = "done",
           \A q \in Calls :
              \/ pc'[q] = "done"
              \/ pc'[q] = pc[q] /\ arg'[q] = arg[q] /\ held'[q] = held[q]
              \/ /\ Running(q) /\ arg'[q] = arg[q]
                 /\ pc'[q] = "deriving" => held'[q].expiresAt = ExpiryOf(arg[q].token)
    PROVE  ExpiryInv'
  <1> SUFFICES ASSUME NEW q \in Calls
               PROVE  /\ issued[q] # None => pc'[q] = "done"
                      /\ (Running(q))' /\ arg'[q].token.kind = "session" =>
                            pc'[arg'[q].token.id] = "done"
                      /\ pc'[q] = "deriving" => held'[q].expiresAt = (ExpiryOf(arg[q].token))'
    BY DEF ExpiryInv
  <1>1. issued[q] # None => pc'[q] = "done"
    BY DEF ExpiryInv
  <1>2. CASE pc'[q] = "done"
    BY <1>1, <1>2 DEF Running
  <1>3. CASE pc'[q] # "done"
    <2>1. (Running(q))' => Running(q)
      BY <1>3 DEF Running
    <2>2. arg'[q] = arg[q]
      BY <1>3
    <2>3. Running(q) /\ arg[q].token.kind = "session" =>
             arg[q].token.id \in Calls /\ pc[arg[q].token.id] = "done"
      BY ArgOf DEF TypeInv, CallTyped, ExpiryInv
    <2>4. (ExpiryOf(arg[q].token))' = ExpiryOf(arg[q].token)
      BY <2>2 DEF ExpiryOf
    <2>5. pc'[q] = "deriving" => held'[q].expiresAt = ExpiryOf(arg[q].token)
      BY <1>3 DEF ExpiryInv
    <2> QED
      BY <1>1, <2>1, <2>2, <2>3, <2>4, <2>5
  <1> QED
    BY <1>2, <1>3

LEMMA ExpiryInvNext ==
    ASSUME TypeInv, TypeInv', ExpiryInv, [Next]_vars
    PROVE  ExpiryInv'
  <1>1. ASSUME NEW r \in Calls, Present(r) PROVE ExpiryInv'
    <2>1. /\ pc[r] = "new" /\ pc'[r] \in {"building", "entering"} /\ OnlyCall(r)
          /\ UNCHANGED <<clock, apps, issued, handler, held, reply, loggedOut, rebuilt>>
          /\ arg'[r].token.kind = "session" => issued[arg'[r].token.id] # None
      BY <1>1, ArriveEffect
    <2> QED
      BY <2>1, ExpiryInvOfCall
  <1>2. ASSUME NEW r \in Calls, BuildApp(r) PROVE ExpiryInv'
    <2>1. /\ pc[r] = "building" /\ pc'[r] = "entering" /\ OnlyCall(r) /\ Running(r)
          /\ arg' = arg /\ issued' = issued
      BY <1>2, BuildEffect
    <2> QED
      BY <2>1, ExpiryInvKept DEF OnlyCall
  <1>3. ASSUME NEW r \in Calls, EnterApp(r) PROVE ExpiryInv'
    <2>1. /\ pc[r] = "entering" /\ pc'[r] = "handling" /\ OnlyCall(r) /\ Running(r)
          /\ arg' = arg /\ issued' = issued
      BY <1>3, EnterEffect
    <2> QED
      BY <2>1, ExpiryInvKept DEF OnlyCall
  <1>4. ASSUME NEW r \in Calls, Login(r) PROVE ExpiryInv'
    <2>1. /\ pc[r] = "handling" /\ pc'[r] = "done" /\ OnlyCall(r)
          /\ \A s \in Calls \ {r} : issued'[s] = issued[s]
      BY <1>4, LoginEffect DEF Ended
    <2> QED
      BY <2>1, ExpiryInvOfCall DEF Running
  <1>5. ASSUME NEW r \in Calls, Logout(r) PROVE ExpiryInv'
    <2>1. pc[r] = "handling" /\ pc'[r] = "done" /\ OnlyCall(r) /\ issued' = issued
      BY <1>5, LogoutEffect DEF Ended
    <2> QED
      BY <2>1, ExpiryInvOfCall DEF Running
  <1>6. ASSUME NEW r \in Calls, RequestStep(r) PROVE ExpiryInv'
    <2>1. pc[r] \in {"handling", "deriving"} /\ OnlyCall(r) /\ issued' = issued
      BY <1>6, RequestEffect
    <2>2. CASE HeldOfToken(r)
      <3>1. Running(r) /\ arg'[r] = arg[r] /\ pc'[r] # "done"
            /\ held'[r].expiresAt = ExpiryOf(arg[r].token)
        BY <2>1, <2>2 DEF HeldOfToken, Running
      <3> QED
        BY <2>1, <3>1, ExpiryInvKept DEF OnlyCall, Running
    <2>3. CASE pc'[r] = "done"
      BY <2>1, <2>3, ExpiryInvOfCall DEF Running
    <2> QED
      BY <1>6, <2>2, <2>3, RequestEffect DEF Ended
  <1>7. ASSUME NEW k \in Containers, NEW config \in Configs, Restart(k, config)
        PROVE  ExpiryInv'
    <2>1. issued' = issued
      BY <1>7, RestartEffect
    <2>2. \A r \in Calls : \/ pc'[r] = "done"
                           \/ pc'[r] = pc[r] /\ arg'[r] = arg[r] /\ held'[r] = held[r]
      BY <1>7, RestartEffect
    <2>3. \A r \in Calls : pc[r] = "done" => pc'[r] = "done"
      BY <2>2
    <2> QED
      BY <2>1, <2>2, <2>3, ExpiryInvKept
  <1>8. CASE UNCHANGED <<app, conf, revoked, issued, calls, history>>
    BY <1>8 DEF ExpiryInv, Running, ExpiryOf, calls
  <1> QED
    BY <1>1, <1>2, <1>3, <1>4, <1>5, <1>6, <1>7, <1>8, StepIsOfOneCall

\* A request is granted only while its token is good, however long it has waited
\* since the token was presented.
THEOREM NothingExpiredServed == Spec => ExpiredNeverServed
  <1>1. Init => ExpiryInv
    BY DEF Init, ExpiryInv, Running
  <1>2. TypeInv /\ TypeInv' /\ ExpiryInv /\ [Next]_vars => ExpiryInv'
    BY ExpiryInvNext
  <1>3. TypeInv /\ ExpiryInv /\ [Next]_vars =>
           [\A r \in Calls : Grants(r) => clock < ExpiryOf(arg[r].token)]_vars
    <2> SUFFICES ASSUME TypeInv, ExpiryInv, [Next]_vars, NEW r \in Calls, Grants(r)
                 PROVE  clock < ExpiryOf(arg[r].token)
      OBVIOUS
    <2>1. Granted(r)
      BY GrantIsDerived, Zenon
    <2>2. pc[r] = "deriving" /\ clock < held[r].expiresAt
      BY <2>1 DEF Granted
    <2>3. held[r].expiresAt = ExpiryOf(arg[r].token)
      BY <2>2 DEF ExpiryInv
    <2> QED
      BY <2>2, <2>3
  <1> QED
    BY <1>1, <1>2, <1>3, AlwaysTypeInv, PTL DEF Spec, ExpiredNeverServed

-----------------------------------------------------------------------------
(* Edge tokens.                                                            *)

\* A step keeps EdgeInv when it un-builds no application, puts only built ones to
\* use, and leaves the environment of those that handle a request alone.
LEMMA EdgeInvKept ==
    ASSUME TypeInv, EdgeInv,
           \A a \in Calls : Built(a) => (Built(a))',
           \A k \in Containers : app'[k] # None => app'[k] = app[k] \/ (Built(app[k]))',
           \A q \in Calls :
              \/ handler'[q] = None /\ pc'[q] # "deriving"
              \/ pc'[q] # "deriving" /\ \E k \in Containers : handler'[q] = app[k]
              \/ /\ handler'[q] = handler[q]
                 /\ \/ pc'[q] # "deriving"
                    \/ /\ arg'[q] = arg[q] /\ conf'[handler[q]] = conf[handler[q]]
                       /\ \/ pc[q] = "deriving" /\ held'[q] = held[q]
                          \/ arg[q].token.kind # "edge"
                          \/ OwnActive(q, held'[q].identity)
    PROVE  EdgeInv'
  <1>1. ASSUME NEW k \in Containers, app'[k] # None PROVE (Built(app[k]))'
    <2>1. CASE app'[k] = app[k]
      <3>1. app[k] \in Calls /\ Built(app[k])
        BY <1>1, <2>1 DEF EdgeInv, TypeInv, TypeOK
      <3> QED
        BY <2>1, <3>1 DEF Built
    <2>2. CASE (Built(app[k]))'
      BY <2>2
    <2> QED
      BY <1>1, <2>1, <2>2
  <1>2. ASSUME NEW q \in Calls, handler'[q] # None PROVE (Built(handler[q]))'
    <2>1. Built(handler'[q]) /\ handler'[q] \in Calls
      BY <1>2 DEF EdgeInv, TypeInv, TypeOK
    <2> QED
      BY <2>1 DEF Built
  <1>3. ASSUME NEW q \in Calls, pc'[q] = "deriving", arg'[q].token.kind = "edge"
        PROVE  (OwnActive(q, held[q].identity))'
    <2>1. /\ handler'[q] = handler[q] /\ arg'[q] = arg[q]
          /\ conf'[handler[q]] = conf[handler[q]]
          /\ OwnActive(q, held'[q].identity)
      BY <1>3 DEF EdgeInv
    <2> QED
      BY <2>1 DEF OwnActive, ConfigOf
  <1> QED
    BY <1>1, <1>2, <1>3 DEF EdgeInv

LEMMA EdgeInvNext ==
    ASSUME TypeInv, EdgeInv, [Next]_vars
    PROVE  EdgeInv'
  <1>1. ASSUME NEW r \in Calls, Present(r) PROVE EdgeInv'
    <2>1. /\ pc[r] = "new" /\ pc'[r] \in {"building", "entering"} /\ OnlyCall(r)
          /\ UNCHANGED <<app, conf, handler, held>>
      BY <1>1, ArriveEffect DEF apps
    <2> QED
      BY <2>1, EdgeInvKept DEF OnlyCall, Built
  <1>2. ASSUME NEW r \in Calls, BuildApp(r) PROVE EdgeInv'
    <2>1. /\ pc[r] = "building" /\ pc'[r] = "entering" /\ OnlyCall(r)
          /\ arg[r].container \in Containers /\ app' = [app EXCEPT ![arg[r].container] = r]
          /\ \A a \in Calls \ {r} : conf'[a] = conf[a]
          /\ UNCHANGED <<arg, handler, held>>
      BY <1>2, BuildEffect
    <2>2. \A k \in Containers : app'[k] = app[k] \/ (Built(app[k]))'
      BY <2>1 DEF Built, TypeInv, TypeOK
    <2>3. \A q \in Calls : pc[q] = "deriving" => handler[q] \in Calls \ {r}
      <3> SUFFICES ASSUME NEW q \in Calls, pc[q] = "deriving" PROVE handler[q] \in Calls \ {r}
        OBVIOUS
      <3>1. handler[q] \in Calls /\ handler[q] # None
        BY HandlingCall, NoneAssumption
      <3> QED
        BY <2>1, <3>1 DEF EdgeInv, Built
    <2>4. \A q \in Calls : \/ pc'[q] # "deriving"
                           \/ pc[q] = "deriving" /\ conf'[handler[q]] = conf[handler[q]]
      BY <2>1, <2>3 DEF OnlyCall
    <2>5. \A a \in Calls : Built(a) => (Built(a))'
      BY <2>1 DEF OnlyCall, Built
    <2> QED
      BY <2>1, <2>2, <2>4, <2>5, EdgeInvKept
  <1>3. ASSUME NEW r \in Calls, EnterApp(r) PROVE EdgeInv'
    <2>1. /\ pc[r] = "entering" /\ pc'[r] = "handling" /\ OnlyCall(r)
          /\ arg[r].container \in Containers /\ handler'[r] = app[arg[r].container]
          /\ UNCHANGED <<app, conf, arg, held>>
      BY <1>3, EnterEffect DEF apps
    <2> QED
      BY <2>1, EdgeInvKept DEF OnlyCall, Built
  <1>4. ASSUME NEW r \in Calls, Login(r) \/ Logout(r) PROVE EdgeInv'
    <2>1. OnlyCall(r) /\ Ended(r) /\ UNCHANGED <<app, conf>>
      BY <1>4, LoginEffect, LogoutEffect DEF apps
    <2> QED
      BY <2>1, EdgeInvKept DEF OnlyCall, Ended, Built
  <1>5. ASSUME NEW r \in Calls, RequestStep(r) PROVE EdgeInv'
    <2>1. OnlyCall(r) /\ UNCHANGED <<app, conf>>
      BY <1>5, RequestEffect DEF apps
    <2>2. CASE HeldOfToken(r)
      <3>1. /\ pc[r] = "handling" /\ pc'[r] = "deriving"
            /\ handler'[r] = handler[r] /\ arg'[r] = arg[r]
            /\ arg[r].token.kind # "edge" \/ OwnActive(r, held'[r].identity)
        BY <2>2 DEF HeldOfToken
      <3> QED
        BY <2>1, <3>1, EdgeInvKept DEF OnlyCall, Built
    <2>3. CASE Ended(r)
      BY <2>1, <2>3, EdgeInvKept DEF OnlyCall, Ended, Built
    <2> QED
      BY <1>5, <2>2, <2>3, RequestEffect
  <1>6. ASSUME NEW k \in Containers, NEW config \in Configs, Restart(k, config)
        PROVE  EdgeInv'
    <2>1. \A j \in Containers : app'[j] # None => app'[j] = app[j]
      BY <1>6, RestartEffect DEF TypeInv, TypeOK
    <2>2. \A q \in Calls :
             \/ pc'[q] = "done" /\ handler'[q] = None
             \/ /\ pc'[q] = pc[q] /\ arg'[q] = arg[q] /\ handler'[q] = handler[q]
                /\ held'[q] = held[q]
                /\ handler[q] \in Calls => conf'[handler[q]] = conf[handler[q]]
      <3> SUFFICES ASSUME NEW q \in Calls
                   PROVE  \/ pc'[q] = "done" /\ handler'[q] = None
                          \/ /\ pc'[q] = pc[q] /\ arg'[q] = arg[q] /\ handler'[q] = handler[q]
                             /\ held'[q] = held[q]
                             /\ handler[q] \in Calls => conf'[handler[q]] = conf[handler[q]]
        OBVIOUS
      <3>1. CASE Running(q) /\ arg[q].container = k
        BY <1>6, <3>1, RestartEffect
      <3>2. CASE ~(Running(q) /\ arg[q].container = k)
        BY <1>6, <3>2, RestartEffect
      <3> QED
        BY <3>1, <3>2
    <2>3. \A q \in Calls : pc[q] = "deriving" => handler[q] \in Calls
      BY HandlingCall
    <2>4. \A a \in Calls : Built(a) => (Built(a))'
      BY <2>2 DEF Built
    <2> QED
      BY <2>1, <2>2, <2>3, <2>4, EdgeInvKept
  <1>7. CASE UNCHANGED <<app, conf, revoked, issued, calls, history>>
    BY <1>7, EdgeInvKept DEF calls, Built
  <1> QED
    BY <1>1, <1>2, <1>3, <1>4, <1>5, <1>6, <1>7, StepIsOfOneCall

\* An edge token is granted only to a subject whose own entry is active, and as
\* the user of that entry.
THEOREM EdgeServesTheAllowed == Spec => EdgeServesAllowed
  <1>1. Init => EdgeInv
    BY DEF Init, EdgeInv
  <1>2. TypeInv /\ EdgeInv /\ [Next]_vars => EdgeInv'
    BY EdgeInvNext
  <1>3. TypeInv /\ EdgeInv /\ [Next]_vars =>
           [\A r \in Calls :
              Grants(r) /\ arg[r].token.kind = "edge" =>
                  \E e \in ToSet(ConfigOf(r).entries) :
                      /\ e.subject = arg[r].token.id[1] /\ e.active
                      /\ reply'[r].identity = <<e.tenant, e.user>>]_vars
    <2> SUFFICES ASSUME TypeInv, EdgeInv, [Next]_vars, NEW r \in Calls, Grants(r),
                        arg[r].token.kind = "edge"
                 PROVE  \E e \in ToSet(ConfigOf(r).entries) :
                            /\ e.subject = arg[r].token.id[1] /\ e.active
                            /\ reply'[r].identity = <<e.tenant, e.user>>
      OBVIOUS
    <2>1. /\ pc[r] = "deriving"
          /\ reply'[r] = [kind |-> "granted", identity |-> held[r].identity]
      BY GrantIsDerived DEF Granted
    <2>2. OwnActive(r, held[r].identity)
      BY <2>1 DEF EdgeInv
    <2> QED
      BY <2>1, <2>2 DEF OwnActive
  <1> QED
    BY <1>1, <1>2, <1>3, AlwaysTypeInv, PTL DEF Spec, EdgeServesAllowed

-----------------------------------------------------------------------------
(* Logout.                                                                 *)

\* What a container that still has its one application keeps of it.
ApplicationsKept ==
    /\ rebuilt \subseteq rebuilt'
    /\ \A k \in Containers : app[k] # None /\ k \notin rebuilt' => app'[k] = app[k]
    /\ \A a \in Calls : revoked[a] \subseteq revoked'[a]

LEMMA LogoutKeptOn ==
    ASSUME TypeInv, ApplicationsKept, NEW k \in Containers, k \notin rebuilt', NEW token,
           LogoutKept(k, token)
    PROVE  LogoutKept(k, token)'
  <1>1. app[k] \in Calls /\ app[k] # None /\ app'[k] = app[k]
    BY DEF LogoutKept, ApplicationsKept, TypeInv, TypeOK
  <1> QED
    BY <1>1 DEF LogoutKept, ApplicationsKept

LEMMA OthersLogout ==
    ASSUME TypeInv, LogoutInv, NEW r \in Calls, OnlyCall(r), ApplicationsKept,
           late' \subseteq late \cup {r}, CallLogout(r)',
           \A out \in loggedOut' \ loggedOut : out[1] \notin rebuilt' => LogoutKept(out[1], out[2])'
    PROVE  LogoutInv'
  <1>1. ASSUME NEW q \in Calls \ {r} PROVE CallLogout(q)'
    <2>1. /\ pc'[q] = pc[q] /\ arg'[q] = arg[q] /\ handler'[q] = handler[q] /\ held'[q] = held[q]
          /\ q \in late' => q \in late
          /\ CallLogout(q)
      BY DEF OnlyCall, LogoutInv
    <2>2. (Running(q))' => Running(q) /\ arg[q] \in Arg /\ arg[q].container \in Containers
      BY <2>1, ArgOf DEF Running, TypeInv, CallTyped
    <2>3. ASSUME (Running(q))', arg[q].container \notin rebuilt'
          PROVE  /\ app[arg[q].container] # None =>
                       app'[arg[q].container] = app[arg[q].container]
                 /\ LogoutKept(arg[q].container, arg[q].token) =>
                       LogoutKept(arg[q].container, arg[q].token)'
                 /\ arg[q].container \notin rebuilt
      <3>1. arg[q].container \notin rebuilt
        BY <2>3 DEF ApplicationsKept
      <3>2. app[arg[q].container] # None => app'[arg[q].container] = app[arg[q].container]
        BY <2>2, <2>3 DEF ApplicationsKept
      <3>3. LogoutKept(arg[q].container, arg[q].token) =>
               (app[arg[q].container] \in Calls /\ arg[q].token.kind = "session"
                /\ arg[q].token.id \in revoked'[app[arg[q].container]])
        BY <2>2, <2>3 DEF LogoutKept, ApplicationsKept, TypeInv, TypeOK
      <3> QED
        BY <2>1, <3>1, <3>2, <3>3 DEF LogoutKept
    <2> QED
      BY <2>1, <2>2, <2>3 DEF CallLogout
  <1>2. ASSUME NEW out \in loggedOut', out[1] \notin rebuilt'
        PROVE  LogoutKept(out[1], out[2])'
    <2>1. CASE out \in loggedOut
      <3>1. out[1] \in Containers /\ out[1] \notin rebuilt
        BY <1>2, <2>1 DEF TypeInv, TypeOK, ApplicationsKept
      <3>2. LogoutKept(out[1], out[2])
        BY <2>1, <3>1 DEF LogoutInv
      <3> QED
        BY <1>2, <3>1, <3>2, LogoutKeptOn
    <2>2. CASE out \notin loggedOut
      BY <1>2, <2>2
    <2> QED
      BY <2>1, <2>2
  <1> QED
    BY <1>1, <1>2 DEF LogoutInv

LEMMA LogoutInvNext ==
    ASSUME TypeInv, LogoutInv, [Next]_vars
    PROVE  LogoutInv'
  <1>1. ASSUME NEW r \in Calls, Present(r) PROVE LogoutInv'
    <2> DEFINE k == arg'[r].container
    <2>1. /\ pc[r] = "new" /\ pc'[r] \in {"building", "entering"} /\ OnlyCall(r)
          /\ app' = app /\ revoked' = revoked /\ loggedOut' = loggedOut /\ rebuilt' = rebuilt
          /\ late' = IF <<k, arg'[r].token>> \in loggedOut THEN late \cup {r} ELSE late
      BY <1>1, ArriveEffect DEF apps
    <2>2. r \notin late
      BY <2>1 DEF LogoutInv, CallLogout
    <2>3. r \in late' /\ k \notin rebuilt => LogoutKept(k, arg'[r].token)
      BY <2>1, <2>2 DEF LogoutInv
    <2>4. CallLogout(r)'
      BY <2>1, <2>3 DEF CallLogout, LogoutKept
    <2> QED
      BY <2>1, <2>4, OthersLogout DEF ApplicationsKept
  <1>2. ASSUME NEW r \in Calls, BuildApp(r) PROVE LogoutInv'
    <2> DEFINE k == arg[r].container
    <2>1. /\ pc[r] = "building" /\ pc'[r] = "entering" /\ OnlyCall(r) /\ Running(r)
          /\ k \in Containers /\ app' = [app EXCEPT ![k] = r] /\ arg' = arg
          /\ revoked' = revoked /\ loggedOut' = loggedOut /\ late' = late
          /\ rebuilt' = IF app[k] = None THEN rebuilt ELSE rebuilt \cup {k}
      BY <1>2, BuildEffect
    <2>2. ApplicationsKept
      BY <2>1 DEF ApplicationsKept, TypeInv, TypeOK
    <2>3. CASE k \in rebuilt'
      BY <2>1, <2>2, <2>3, OthersLogout DEF CallLogout
    <2>4. CASE k \notin rebuilt'
      <3>1. app[k] = None /\ k \notin rebuilt
        BY <2>1, <2>4
      <3>2. r \notin late
        BY <2>1, <3>1 DEF LogoutInv, CallLogout, LogoutKept
      <3> QED
        BY <2>1, <2>2, <3>2, OthersLogout DEF CallLogout
    <2> QED
      BY <2>3, <2>4
  <1>3. ASSUME NEW r \in Calls, EnterApp(r) PROVE LogoutInv'
    <2> DEFINE k == arg[r].container
    <2>1. /\ pc[r] = "entering" /\ pc'[r] = "handling" /\ OnlyCall(r) /\ Running(r)
          /\ k \in Containers /\ arg' = arg /\ app[k] # None /\ handler'[r] = app[k]
          /\ UNCHANGED <<app, revoked, loggedOut, late, rebuilt>>
      BY <1>3, EnterEffect DEF apps, history
    <2>2. CallLogout(r)'
      BY <2>1 DEF CallLogout, LogoutInv, LogoutKept
    <2> QED
      BY <2>1, <2>2, OthersLogout DEF ApplicationsKept
  <1>4. ASSUME NEW r \in Calls, Login(r) PROVE LogoutInv'
    <2>1. /\ OnlyCall(r) /\ pc'[r] = "done"
          /\ UNCHANGED <<app, revoked, loggedOut, late, rebuilt>>
      BY <1>4, LoginEffect DEF apps, history, Ended
    <2> QED
      BY <2>1, OthersLogout DEF ApplicationsKept, CallLogout, Running
  <1>5. ASSUME NEW r \in Calls, Logout(r) PROVE LogoutInv'
    <2>1. /\ pc[r] = "handling" /\ pc'[r] = "done" /\ OnlyCall(r)
          /\ UNCHANGED <<app, late, rebuilt>> /\ handler[r] \in Calls
      BY <1>5, LogoutEffect DEF Ended
    <2>2. CallLogout(r)'
      BY <2>1 DEF CallLogout, Running
    <2>3. CASE UNCHANGED <<revoked, loggedOut>>
      BY <2>1, <2>2, <2>3, OthersLogout DEF ApplicationsKept
    <2>4. CASE /\ arg[r].token.kind = "session"
               /\ revoked' = [revoked EXCEPT ![handler[r]] = @ \cup {arg[r].token.id}]
               /\ loggedOut' = loggedOut \cup {<<arg[r].container, arg[r].token>>}
      <3>1. ApplicationsKept
        BY <2>1, <2>4 DEF ApplicationsKept, TypeInv, TypeOK
      <3>2. arg[r].container \notin rebuilt =>
               handler[r] = app[arg[r].container] /\ app[arg[r].container] # None
        BY <2>1 DEF LogoutInv, CallLogout, Running
      <3>3. arg[r].token.id \in revoked'[handler[r]]
        BY <2>1, <2>4 DEF TypeInv, TypeOK
      <3>4. ASSUME NEW k, NEW token, k = arg[r].container, token = arg[r].token,
                   k \notin rebuilt
            PROVE  LogoutKept(k, token)'
        BY <2>1, <2>4, <3>2, <3>3, <3>4 DEF LogoutKept
      <3>5. \A out \in loggedOut' \ loggedOut :
               out[1] = arg[r].container /\ out[2] = arg[r].token
        BY <2>4
      <3>6. \A out \in loggedOut' \ loggedOut :
               out[1] \notin rebuilt' => LogoutKept(out[1], out[2])'
        BY <2>1, <3>4, <3>5
      <3> QED
        BY <2>1, <2>2, <3>1, <3>6, OthersLogout
    <2> QED
      BY <1>5, <2>3, <2>4, LogoutEffect
  <1>6. ASSUME NEW r \in Calls, RequestStep(r) PROVE LogoutInv'
    <2>1. /\ OnlyCall(r) /\ pc[r] \in {"handling", "deriving"}
          /\ UNCHANGED <<app, revoked, loggedOut, late, rebuilt>>
      BY <1>6, RequestEffect DEF apps, history
    <2>2. CallLogout(r)'
      <3>1. CASE HeldOfToken(r)
        <4>1. /\ pc'[r] = "deriving" /\ arg'[r] = arg[r] /\ handler'[r] = handler[r] /\ Running(r)
              /\ \/ arg[r].token.kind = "edge"
                 \/ held'[r].revoked = (arg[r].token.id \in revoked[handler[r]])
          BY <2>1, <3>1 DEF HeldOfToken, Running
        <4>2. CallLogout(r)
          BY DEF LogoutInv
        <4>3. r \in late /\ arg[r].container \notin rebuilt => held'[r].revoked
          BY <2>1, <4>1, <4>2 DEF CallLogout, LogoutKept
        <4> QED
          BY <2>1, <4>1, <4>2, <4>3 DEF CallLogout, LogoutKept
      <3>2. CASE Ended(r)
        BY <2>1, <3>2 DEF CallLogout, Running, Ended
      <3> QED
        BY <1>6, <3>1, <3>2, RequestEffect
    <2> QED
      BY <2>1, <2>2, OthersLogout DEF ApplicationsKept
  <1>7. ASSUME NEW k \in Containers, NEW config \in Configs, Restart(k, config)
        PROVE  LogoutInv'
    <2>1. /\ loggedOut' = {out \in loggedOut : out[1] # k} /\ rebuilt' = rebuilt \ {k}
          /\ late' = late
      BY <1>7 DEF Restart
    <2>2. \A j \in Containers \ {k} :
             app'[j] = app[j] /\ (app[j] \in Calls => revoked'[app[j]] = revoked[app[j]])
      BY <1>7, RestartEffect DEF TypeInv, TypeOK
    <2>3. ASSUME NEW j \in Containers \ {k}, NEW token, LogoutKept(j, token)
          PROVE  LogoutKept(j, token)'
      BY <2>2, <2>3 DEF LogoutKept, TypeInv, TypeOK
    <2>4. ASSUME NEW out \in loggedOut', out[1] \notin rebuilt'
          PROVE  LogoutKept(out[1], out[2])'
      <3>1. out \in loggedOut /\ out[1] \in Containers \ {k} /\ out[1] \notin rebuilt
        BY <2>1, <2>4 DEF TypeInv, TypeOK
      <3> QED
        BY <2>3, <3>1 DEF LogoutInv
    <2>5. ASSUME NEW q \in Calls PROVE CallLogout(q)'
      <3>1. CASE Running(q) /\ arg[q].container = k
        <4>1. pc'[q] = "done"
          BY <1>7, <3>1, RestartEffect
        <4> QED
          BY <4>1 DEF CallLogout, Running
      <3>2. CASE ~(Running(q) /\ arg[q].container = k)
        <4>1. /\ pc'[q] = pc[q] /\ arg'[q] = arg[q] /\ handler'[q] = handler[q]
              /\ held'[q] = held[q] /\ CallLogout(q)
          BY <1>7, <3>2, RestartEffect DEF LogoutInv
        <4>2. (Running(q))' => Running(q) /\ arg[q].container \in Containers \ {k}
          BY <3>2, <4>1, ArgOf DEF Running, TypeInv, CallTyped
        <4>3. (Running(q))' /\ LogoutKept(arg[q].container, arg[q].token) =>
                 LogoutKept(arg[q].container, arg[q].token)'
          BY <2>2, <4>1, <4>2 DEF LogoutKept, TypeInv, TypeOK
        <4> QED
          BY <2>1, <2>2, <4>1, <4>2, <4>3 DEF CallLogout
      <3> QED
        BY <3>1, <3>2
    <2> QED
      BY <2>4, <2>5 DEF LogoutInv
  <1>8. CASE UNCHANGED <<app, conf, revoked, issued, calls, history>>
    BY <1>8 DEF LogoutInv, CallLogout, LogoutKept, Running, calls, history
  <1> QED
    BY <1>1, <1>2, <1>3, <1>4, <1>5, <1>6, <1>7, <1>8, StepIsOfOneCall

\* A request that comes with a session its container has logged out is never
\* granted, as long as the container keeps its one application.
THEOREM LogoutIsFinal == Spec => LogoutSticks
  <1>1. Init => LogoutInv
    BY DEF Init, LogoutInv, CallLogout, Running
  <1>2. TypeInv /\ LogoutInv /\ [Next]_vars => LogoutInv'
    BY LogoutInvNext
  <1>3. TypeInv /\ LogoutInv /\ [Next]_vars =>
           [\A r \in Calls : Grants(r) /\ r \in late => arg[r].container \in rebuilt]_vars
    <2> SUFFICES ASSUME TypeInv, LogoutInv, [Next]_vars, NEW r \in Calls, Grants(r), r \in late
                 PROVE  arg[r].container \in rebuilt
      OBVIOUS
    <2>1. pc[r] = "deriving" /\ ~held[r].revoked
      BY GrantIsDerived DEF Granted
    <2> QED
      BY <2>1 DEF LogoutInv, CallLogout, Running
  <1> QED
    BY <1>1, <1>2, <1>3, AlwaysTypeInv, PTL DEF Spec, LogoutSticks

-----------------------------------------------------------------------------
(* The tenant directory.  FoldLeft picks the function its equation defines; *)
(* the directory that the last entries describe satisfies this equation,    *)
(* and a smallest set of entries on which another function differed from it *)
(* would refute it.                                                         *)

\* A nonempty set of natural numbers has a least element.
LEMMA LeastNatural ==
    ASSUME NEW T \in SUBSET Nat, T # {}
    PROVE  \E x \in T : \A y \in T : x <= y
  <1> DEFINE Less == {ss \in Nat \X Nat : ss[1] < ss[2]}
  <1>1. IsWellFoundedOn(Less, Nat)
    BY NatLessThanWellFounded DEF OpToRel
  <1>2. PICK x \in T : \A y \in T : <<y, x>> \notin Less
    <2> HIDE DEF Less
    <2> QED
      BY <1>1, WFMin
  <1>3. ASSUME NEW y \in T PROVE x <= y
    <2>1. x \in Nat /\ y \in Nat
      OBVIOUS
    <2>2. ASSUME y < x PROVE FALSE
      <3> DEFINE ss == <<y, x>>
      <3>1. ss \in Nat \X Nat /\ ss[1] < ss[2]
        BY <2>1, <2>2
      <3>2. ss \in Less
        BY <3>1
      <3> QED
        BY <1>2, <3>2
    <2> QED
      BY <2>1, <2>2
  <1> QED
    BY <1>3

\* Max of a nonempty set of indices, and what makes an index the last one.
LEMMA LastIndex ==
    ASSUME NEW n \in Nat, NEW t \in SUBSET (1..n), t # {}
    PROVE  Max(t) \in t /\ \A i \in t : i <= Max(t)
  <1> DEFINE distances == {n - i : i \in t}
  <1>1. distances \in SUBSET Nat /\ distances # {}
    <2>1. \A i \in t : n - i \in Nat
      OBVIOUS
    <2> QED
      BY <2>1
  <1>2. PICK d \in distances : \A e \in distances : d <= e
    <2> HIDE DEF distances
    <2> QED
      BY <1>1, LeastNatural
  <1>3. PICK i \in t : d = n - i
    BY <1>2
  <1>4. \A j \in t : i >= j
    <2> SUFFICES ASSUME NEW j \in t PROVE i >= j
      OBVIOUS
    <2>1. n - j \in distances
      OBVIOUS
    <2>2. n - i <= n - j
      BY <1>2, <1>3, <2>1
    <2> QED
      BY <2>2
  <1> QED
    BY <1>4 DEF Max

LEMMA IsLastIndex ==
    ASSUME NEW n \in Nat, NEW t \in SUBSET (1..n), NEW i \in t, \A j \in t : j <= i
    PROVE  Max(t) = i
  <1>1. Max(t) \in t /\ i <= Max(t)
    BY LastIndex
  <1>2. Max(t) <= i /\ Max(t) \in 1..n /\ i \in 1..n
    BY <1>1
  <1> HIDE DEF Max
  <1> QED
    BY <1>1, <1>2

\* The function behind FoldLeft.
SeedRun(s) ==
    CHOOSE f : f = [x \in SUBSET DOMAIN s |->
                       IF x = {} THEN EmptyDirectory
                       ELSE SeedEntry(f[x \ {Max(x)}], s[Max(x)])]

LEMMA SeededByRun ==
    ASSUME NEW s
    PROVE  FoldLeft(SeedEntry, EmptyDirectory, s) = SeedRun(s)[DOMAIN s]
  BY DEF FoldLeft, MapThenFoldSet, SeedRun

\* The directory after the entries at the indices x: the last of them decides.
Latest(s, t) == IF t = {} THEN "absent" ELSE Status(s[Max(t)].active)
NamingUser(s, x, u) == {i \in x : s[i].user = u}
NamingMember(s, x, m) == {i \in x : <<s[i].tenant, s[i].user>> = m}
Seeded(s, x) ==
    [tenants |-> {s[i].tenant : i \in x},
     user |-> [u \in Users |-> Latest(s, NamingUser(s, x, u))],
     membership |-> [m \in Identity |-> Latest(s, NamingMember(s, x, m))]]

LEMMA SeededNone == ASSUME NEW s PROVE Seeded(s, {}) = EmptyDirectory
  <1>1. \A u : NamingUser(s, {}, u) = {} /\ NamingMember(s, {}, u) = {}
    BY DEF NamingUser, NamingMember
  <1> QED
    BY <1>1 DEF Seeded, EmptyDirectory, Latest

LEMMA SeededNext ==
    ASSUME NEW s \in Seq(Entry), NEW x \in SUBSET DOMAIN s, x # {}
    PROVE  Seeded(s, x) = SeedEntry(Seeded(s, x \ {Max(x)}), s[Max(x)])
  <1> DEFINE m == Max(x)
             y == x \ {m}
             e == s[m]
  <1>1. PICK n \in Nat : DOMAIN s = 1..n
    OBVIOUS
  <1>2. m \in x /\ \A i \in x : i <= m
    BY <1>1, LastIndex
  <1>3. e \in Entry /\ e.user \in Users /\ <<e.tenant, e.user>> \in Identity
    <2>1. e \in Entry
      BY <1>2
    <2> QED
      BY <2>1 DEF Entry, Identity
  <1> HIDE DEF m
  <1>4. ASSUME NEW u \in Users
        PROVE  Latest(s, NamingUser(s, x, u)) =
                  IF u = e.user THEN Status(e.active) ELSE Latest(s, NamingUser(s, y, u))
    <2>1. CASE u = e.user
      <3>1. m \in NamingUser(s, x, u) /\ NamingUser(s, x, u) \in SUBSET (1..n)
            /\ \A j \in NamingUser(s, x, u) : j <= m
        BY <1>1, <1>2, <2>1 DEF NamingUser
      <3>2. Max(NamingUser(s, x, u)) = m
        BY <3>1, IsLastIndex
      <3> QED
        BY <2>1, <3>1, <3>2 DEF Latest
    <2>2. CASE u # e.user
      <3>1. NamingUser(s, x, u) = NamingUser(s, y, u)
        BY <1>2, <2>2 DEF NamingUser
      <3> QED
        BY <2>2, <3>1
    <2> QED
      BY <2>1, <2>2
  <1>5. ASSUME NEW i \in Identity
        PROVE  Latest(s, NamingMember(s, x, i)) =
                  IF i = <<e.tenant, e.user>> THEN Status(e.active)
                  ELSE Latest(s, NamingMember(s, y, i))
    <2>1. CASE i = <<e.tenant, e.user>>
      <3>1. m \in NamingMember(s, x, i) /\ NamingMember(s, x, i) \in SUBSET (1..n)
            /\ \A j \in NamingMember(s, x, i) : j <= m
        BY <1>1, <1>2, <2>1 DEF NamingMember
      <3>2. Max(NamingMember(s, x, i)) = m
        BY <3>1, IsLastIndex
      <3> QED
        BY <2>1, <3>1, <3>2 DEF Latest
    <2>2. CASE i # <<e.tenant, e.user>>
      <3>1. NamingMember(s, x, i) = NamingMember(s, y, i)
        BY <1>2, <2>2 DEF NamingMember
      <3> QED
        BY <2>2, <3>1
    <2> QED
      BY <2>1, <2>2
  <1>6. {s[i].tenant : i \in x} = {s[i].tenant : i \in y} \cup {e.tenant}
    BY <1>2
  <1> QED
    BY <1>3, <1>4, <1>5, <1>6 DEF Seeded, SeedEntry, PutMember, m

\* The run of the fold is the one function that its equation allows.
LEMMA SeedRunIs ==
    ASSUME NEW s \in Seq(Entry), NEW x \in SUBSET DOMAIN s
    PROVE  SeedRun(s)[x] = Seeded(s, x)
  <1> DEFINE Equation(f) ==
                f = [z \in SUBSET DOMAIN s |->
                       IF z = {} THEN EmptyDirectory
                       ELSE SeedEntry(f[z \ {Max(z)}], s[Max(z)])]
             closed == [z \in SUBSET DOMAIN s |-> Seeded(s, z)]
             f == SeedRun(s)
  <1>1. Equation(closed)
    <2>1. ASSUME NEW z \in SUBSET DOMAIN s
          PROVE  closed[z] = IF z = {} THEN EmptyDirectory
                             ELSE SeedEntry(closed[z \ {Max(z)}], s[Max(z)])
      BY SeededNone, SeededNext
    <2> QED
      BY <2>1
  <1>2. Equation(f)
    <2> HIDE DEF closed
    <2> QED
      BY <1>1 DEF SeedRun
  <1> DEFINE Wrong == {z \in SUBSET DOMAIN s : f[z] # Seeded(s, z)}
  <1>3. ASSUME Wrong # {} PROVE FALSE
    <2>1. IsFiniteSet(DOMAIN s)
      <3>1. PICK n \in Nat : DOMAIN s = 1..n
        OBVIOUS
      <3> QED
        BY <3>1, FS_Interval
    <2>2. Wrong \subseteq FiniteSubsetsOf(DOMAIN s)
      BY <2>1, FS_Subset DEF FiniteSubsetsOf
    <2>3. PICK z \in Wrong : \A w \in Wrong : <<w, z>> \notin StrictSubsetOrdering(DOMAIN s)
      <3> HIDE DEF Wrong
      <3> QED
        BY <1>3, <2>2, FS_StrictSubsetOrderingWellFounded, WFMin
    <2>4. z # {}
      BY <1>2, SeededNone
    <2>5. Max(z) \in z /\ z \ {Max(z)} \in SUBSET DOMAIN s
      <3>1. PICK n \in Nat : DOMAIN s = 1..n
        OBVIOUS
      <3> QED
        BY <2>4, <3>1, LastIndex
    <2>6. z \ {Max(z)} \notin Wrong
      <3> DEFINE ss == <<z \ {Max(z)}, z>>
      <3>1. /\ ss \in (SUBSET DOMAIN s) \X (SUBSET DOMAIN s)
            /\ ss[1] \subseteq ss[2] /\ ss[1] # ss[2]
        BY <2>5
      <3>2. ss \in StrictSubsetOrdering(DOMAIN s)
        BY <3>1 DEF StrictSubsetOrdering
      <3> QED
        BY <2>3, <3>2
    <2>7. f[z] = SeedEntry(f[z \ {Max(z)}], s[Max(z)])
      BY <1>2, <2>4
    <2> QED
      BY <2>4, <2>5, <2>6, <2>7, SeededNext
  <1> QED
    BY <1>3

LEMMA DirectoryOfConfig ==
    ASSUME NEW config \in Config
    PROVE  LET seeded == Seeded(config.entries, DOMAIN config.entries)
           IN  Directory(config) =
                  PutMember(seeded, config.trusted[1], config.trusted[2], "active")
  <1>1. config.entries \in Seq(Entry)
    BY DEF Config
  <1>2. FoldLeft(SeedEntry, EmptyDirectory, config.entries) =
           Seeded(config.entries, DOMAIN config.entries)
    BY <1>1, SeededByRun, SeedRunIs
  <1> QED
    BY <1>2 DEF Directory

\* What the directory of a configuration says of those it does not trust.
LEMMA DirectorySays ==
    ASSUME NEW config \in Config, NEW i \in Identity, i # config.trusted
    PROVE  /\ Directory(config).membership[i] =
                 LastOf(config.entries, LAMBDA e : <<e.tenant, e.user>> = i)
           /\ i[2] # config.trusted[2] =>
                 Directory(config).user[i[2]] = LastOf(config.entries, LAMBDA e : e.user = i[2])
  <1> DEFINE entries == config.entries
             trusted == config.trusted
             seeded == Seeded(entries, DOMAIN entries)
             directory == Directory(config)
  <1>1. /\ directory.user = [seeded.user EXCEPT ![trusted[2]] = "active"]
        /\ directory.membership =
              [seeded.membership EXCEPT ![<<trusted[1], trusted[2]>>] = "active"]
    BY DirectoryOfConfig DEF PutMember
  <1>2. trusted \in Identity /\ trusted = <<trusted[1], trusted[2]>>
    BY DEF Config, Identity
  <1>3. directory.membership[i] = LastOf(entries, LAMBDA e : <<e.tenant, e.user>> = i)
    <2>1. directory.membership[i] = Latest(entries, NamingMember(entries, DOMAIN entries, i))
      BY <1>1, <1>2 DEF Seeded
    <2> QED
      BY <2>1 DEF Latest, NamingMember, LastOf
  <1>4. i[2] # trusted[2] => directory.user[i[2]] = LastOf(entries, LAMBDA e : e.user = i[2])
    <2> SUFFICES ASSUME i[2] # trusted[2]
                 PROVE  directory.user[i[2]] = LastOf(entries, LAMBDA e : e.user = i[2])
      OBVIOUS
    <2>1. i[2] \in Users
      BY DEF Identity
    <2>2. directory.user[i[2]] = Latest(entries, NamingUser(entries, DOMAIN entries, i[2]))
      BY <1>1, <2>1 DEF Seeded
    <2> QED
      BY <2>2 DEF Latest, NamingUser, LastOf
  <1> QED
    BY <1>3, <1>4

\* The directory an application is built with says of a user and of a membership
\* what the last entry that names it says, the trusted user aside, however long
\* the list of allowed users is.
THEOREM DirectoryOfLastEntry == Spec => []DirectoryIsLastEntry
  <1>1. TypeInv => DirectoryIsLastEntry
    <2> SUFFICES ASSUME TypeInv PROVE DirectoryIsLastEntry
      OBVIOUS
    <2>1. \A a \in Calls : conf[a] # None => conf[a] \in Config
      BY ConfigAssumption DEF TypeInv, TypeOK
    <2> QED
      BY <2>1, DirectorySays DEF DirectoryIsLastEntry
  <1> QED
    BY <1>1, AlwaysTypeInv, PTL

\* No user but the trusted one is served unless the last entries that name the
\* user and the membership call them active.
THEOREM EveryoneServedAsListed == Spec => ServedAsListed
  <1>1. TypeInv /\ [Next]_vars =>
           [\A r \in Calls :
              Grants(r) =>
                LET i == reply'[r].identity
                    entries == ConfigOf(r).entries
                IN i # ConfigOf(r).trusted =>
                      /\ LastOf(entries, LAMBDA e : <<e.tenant, e.user>> = i) = "active"
                      /\ i[2] # ConfigOf(r).trusted[2] =>
                            LastOf(entries, LAMBDA e : e.user = i[2]) = "active"]_vars
    <2> SUFFICES ASSUME TypeInv, [Next]_vars, NEW r \in Calls, Grants(r)
                 PROVE  LET i == reply'[r].identity
                            entries == ConfigOf(r).entries
                        IN i # ConfigOf(r).trusted =>
                              /\ LastOf(entries, LAMBDA e : <<e.tenant, e.user>> = i) = "active"
                              /\ i[2] # ConfigOf(r).trusted[2] =>
                                    LastOf(entries, LAMBDA e : e.user = i[2]) = "active"
      OBVIOUS
    <2> DEFINE i == reply'[r].identity
    <2> SUFFICES ASSUME i # ConfigOf(r).trusted
                 PROVE  /\ LastOf(ConfigOf(r).entries, LAMBDA e : <<e.tenant, e.user>> = i) = "active"
                        /\ i[2] # ConfigOf(r).trusted[2] =>
                              LastOf(ConfigOf(r).entries, LAMBDA e : e.user = i[2]) = "active"
      OBVIOUS
    <2>1. Granted(r)
      BY GrantIsDerived
    <2>2. ConfigOf(r) \in Config /\ i \in Identity /\ i = held[r].identity
      <3>1. pc[r] = "deriving" /\ reply'[r] = [kind |-> "granted", identity |-> held[r].identity]
        BY <2>1 DEF Granted
      <3>2. held[r] \in Session /\ ConfigOf(r) \in Config
        BY <3>1, HandlingCall DEF TypeInv, CallTyped, ConfigOf
      <3> QED
        BY <3>1, <3>2 DEF Session
    <2>3. /\ Directory(ConfigOf(r)).membership[i] = "active"
          /\ Directory(ConfigOf(r)).user[i[2]] = "active"
      BY <2>1, <2>2 DEF Granted, IsActiveMember
    <2> HIDE DEF i
    <2>4. /\ Directory(ConfigOf(r)).membership[i] =
                LastOf(ConfigOf(r).entries, LAMBDA e : <<e.tenant, e.user>> = i)
          /\ i[2] # ConfigOf(r).trusted[2] =>
                Directory(ConfigOf(r)).user[i[2]] =
                   LastOf(ConfigOf(r).entries, LAMBDA e : e.user = i[2])
      BY <2>2, DirectorySays
    <2> QED
      BY <2>3, <2>4
  <1> QED
    BY <1>1, AlwaysTypeInv, PTL DEF Spec, ServedAsListed

=============================================================================
