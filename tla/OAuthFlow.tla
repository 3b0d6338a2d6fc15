------------------------------ MODULE OAuthFlow ------------------------------
(***************************************************************************)
(* The Google OAuth flow of oauth_flow.py and its HTTP routes: a start     *)
(* call hands out a signed state, a callback redeems it, exchanges the     *)
(* authorization code at Google and connects the account.                  *)
(*                                                                         *)
(* The pending states live in the memory of the container that ran the     *)
(* start call.  Callbacks run concurrently in any container; a container   *)
(* can restart at any moment.  The connect call at the end is one step     *)
(* here, module OAuthTokens has it in detail.                              *)
(***************************************************************************)
EXTENDS Integers

CONSTANTS
    Flows,          \* start calls, each with its nonce; each made at most once
    Callbacks,      \* calls of the callback route, each made at most once
    Users,          \* server-derived identities
    Containers,     \* the processes that serve requests
    Targets,        \* redirect targets a client may ask for
    AllowedTargets, \* those among the allowed origins
    Ttl,            \* _STATE_TTL
    MaxTime,        \* bound on the clock
    None            \* the absent value

VARIABLES
    clock,
    active,    \* the users whose tenant, user and membership are active
    flow,      \* per start call, the payload it signed into the state
    pending,   \* per container, the flows in its state repository
    code,      \* per flow, the authorization code Google issued on its page
    pc,        \* per callback, the step it is about to take
    arg,       \* per callback, its state, code, identity and container
    reply,     \* per callback, its answer
    audit,     \* the audit events emitted
    connected, \* history: the callbacks that connected the account
    accepted,  \* history: the callbacks whose state passed every check
    restarted  \* history: the containers that restarted

callbacks == <<pc, arg, reply>>
vars == <<clock, active, flow, pending, code, pc, arg, reply, audit, connected, accepted, restarted>>

Payload == [user : Users, target : AllowedTargets, container : Containers, expiresAt : Nat]
Call == [flow : Flows, code : Flows, user : Users, container : Containers]
Steps == {"new", "verified", "exchanging", "connecting", "reporting", "done"}
Denials == {"state_replay", "state_expired", "identity_mismatch", "exchange_failed"}
Answers == {"connected", "state_invalid", "provider_error", "forbidden", "failed"} \cup Denials
Events == [of : Flows \cup Callbacks, status : {"started", "connected"} \cup Denials]

ASSUME FlowAssumption ==
    /\ AllowedTargets \subseteq Targets
    /\ Ttl \in Nat \ {0} /\ MaxTime \in Nat
ASSUME NoneAssumption ==
    /\ None \notin Users /\ None \notin Payload /\ None \notin Call /\ None \notin Answers

Emit(of, status) == audit' = audit \cup {[of |-> of, status |-> status]}

Answer(c, outcome) ==
    /\ pc' = [pc EXCEPT ![c] = "done"]
    /\ reply' = [reply EXCEPT ![c] = outcome]

Goto(c, step) ==
    /\ pc' = [pc EXCEPT ![c] = step]
    /\ UNCHANGED reply

Running(c) == pc[c] \in {"verified", "exchanging", "connecting", "reporting"}

-----------------------------------------------------------------------------
(* start_google_oauth, behind POST /oauth/google/start.                    *)

\* Fault: the redirect target is not checked.
StartGoogleOAuthAnywhere(f, u, target, k) ==
    /\ flow[f] = None
    /\ u \in active
    /\ flow' = [flow EXCEPT ![f] =
                   [user |-> u, target |-> target, container |-> k, expiresAt |-> clock + Ttl]]
    /\ pending' = [pending EXCEPT ![k] = @ \cup {f}]
    /\ Emit(f, "started")
    /\ UNCHANGED <<clock, active, code, callbacks, connected, accepted, restarted>>

\* A target outside the allowed origins is refused before a state is created.
StartGoogleOAuth(f, u, target, k) ==
    /\ flow[f] = None
    /\ u \in active
    /\ target \in AllowedTargets
    /\ flow' = [flow EXCEPT ![f] =
                   [user |-> u, target |-> target, container |-> k, expiresAt |-> clock + Ttl]]
    /\ pending' = [pending EXCEPT ![k] = @ \cup {f}]
    /\ Emit(f, "started")
    /\ UNCHANGED <<clock, active, code, callbacks, connected, accepted, restarted>>

-----------------------------------------------------------------------------
(* GET /oauth/google/callback and complete_google_oauth.                   *)

\* Google sends the user back with an error in place of a code.
CallbackWithError(c) ==
    /\ pc[c] = "new"
    /\ Answer(c, "provider_error")
    /\ UNCHANGED <<clock, active, flow, pending, code, arg, audit, connected, accepted, restarted>>

\* A state that is malformed, or not signed by the service.
RejectSignature(c) ==
    /\ pc[c] = "new"
    /\ Answer(c, "state_invalid")
    /\ UNCHANGED <<clock, active, flow, pending, code, arg, audit, connected, accepted, restarted>>

\* A state the service signed: the flow it names was started.  The code is a
\* parameter of its own, of this flow's page or of another's, or no code of
\* Google's at all.  The HTTP route takes the identity from the state, another
\* caller its own.
VerifyState(c, f, g, u, k) ==
    /\ pc[c] = "new"
    /\ flow[f] # None
    /\ arg' = [arg EXCEPT ![c] = [flow |-> f, code |-> g, user |-> u, container |-> k]]
    /\ Goto(c, "verified")
    /\ UNCHANGED <<clock, active, flow, pending, code, audit, connected, accepted, restarted>>

Deny(c, status) == Answer(c, status) /\ Emit(c, status)

\* The state is in the repository of the callback's container, it has not
\* expired and it is the caller's own.
InRepository(c) == arg[c].flow \in pending[arg[c].container]
Expired(c) == flow[arg[c].flow].expiresAt <= clock
Matches(c) == flow[arg[c].flow].user = arg[c].user

\* Faults of the consumption: the state is read and left in the repository
\* until its callback succeeds; the user is not compared; the expiry is not
\* compared; every state of the user goes with the one consumed.
ConsumeStateWithGet(c) ==
    /\ pc[c] = "verified"
    /\ InRepository(c) /\ ~Expired(c) /\ Matches(c)
    /\ Goto(c, "exchanging")
    /\ accepted' = accepted \cup {c}
    /\ UNCHANGED <<clock, active, flow, pending, code, arg, audit, connected, restarted>>
ConsumeStateOfAnyone(c) ==
    /\ pc[c] = "verified"
    /\ InRepository(c) /\ ~Expired(c)
    /\ pending' = [pending EXCEPT ![arg[c].container] = @ \ {arg[c].flow}]
    /\ Goto(c, "exchanging")
    /\ accepted' = accepted \cup {c}
    /\ UNCHANGED <<clock, active, flow, code, arg, audit, connected, restarted>>
ConsumeStatesOfUser(c) ==
    /\ pc[c] = "verified"
    /\ pending' = [pending EXCEPT ![arg[c].container] = {f \in @ : flow[f].user # arg[c].user}]
    /\ \/ InRepository(c) /\ Goto(c, "exchanging") /\ UNCHANGED audit
       \/ ~InRepository(c) /\ Deny(c, "state_replay")
    /\ accepted' = IF InRepository(c) THEN accepted \cup {c} ELSE accepted
    /\ UNCHANGED <<clock, active, flow, code, arg, connected, restarted>>
ConsumeStateLate(c) ==
    /\ pc[c] = "verified"
    /\ InRepository(c) /\ Matches(c)
    /\ pending' = [pending EXCEPT ![arg[c].container] = @ \ {arg[c].flow}]
    /\ Goto(c, "exchanging")
    /\ accepted' = accepted \cup {c}
    /\ UNCHANGED <<clock, active, flow, code, arg, audit, connected, restarted>>

\* InMemoryOAuthStateRepository.consume pops the record in one step; only then
\* are expiry and identity compared.
ConsumeState(c) ==
    /\ pc[c] = "verified"
    /\ pending' = [pending EXCEPT ![arg[c].container] = @ \ {arg[c].flow}]
    /\ \/ /\ \/ ~InRepository(c) /\ Deny(c, "state_replay")
             \/ InRepository(c) /\ Expired(c) /\ Deny(c, "state_expired")
             \/ InRepository(c) /\ ~Expired(c) /\ ~Matches(c) /\ Deny(c, "identity_mismatch")
          /\ UNCHANGED accepted
       \/ /\ InRepository(c) /\ ~Expired(c) /\ Matches(c)
          /\ Goto(c, "exchanging")
          /\ accepted' = accepted \cup {c}
          /\ UNCHANGED audit
    /\ UNCHANGED <<clock, active, flow, code, arg, connected, restarted>>

\* GoogleOAuthHttpTokenExchange.exchange_code: the code for tokens, then the
\* tokens for the account id.  Google takes a code once, whatever state came
\* with it.  Either request can fail or time out, the code being spent or not.
ExchangeCode(c) ==
    LET g == arg[c].code IN
    /\ pc[c] = "exchanging"
    /\ code[g] = "issued"
    /\ code' = [code EXCEPT ![g] = "spent"]
    /\ Goto(c, "connecting")
    /\ UNCHANGED <<clock, active, flow, pending, arg, audit, connected, accepted, restarted>>

\* Fault: a call to Google without timeout.
ExchangeHangs(c) ==
    /\ pc[c] = "exchanging"
    /\ UNCHANGED vars

ExchangeFails(c) ==
    LET g == arg[c].code IN
    /\ pc[c] = "exchanging"
    /\ code' \in {code, [code EXCEPT ![g] = IF @ = "issued" THEN "spent" ELSE @]}
    /\ Deny(c, "exchange_failed")
    /\ UNCHANGED <<clock, active, flow, pending, arg, connected, accepted, restarted>>

\* Fault: the connection is reported before it is made.
ConnectGoogleReportedEarly(c) ==
    /\ pc[c] = "connecting"
    /\ Emit(c, "connected")
    /\ \/ /\ arg[c].user \notin active
          /\ Answer(c, "forbidden")
          /\ UNCHANGED connected
       \/ /\ arg[c].user \in active
          /\ connected' = connected \cup {c}
          /\ Goto(c, "reporting")
    /\ UNCHANGED <<clock, active, flow, pending, code, arg, accepted, restarted>>

\* connect_google checks the membership again: its AuthError passes through
\* without an audit event.  A malformed answer of Google is a failed exchange.
ConnectGoogle(c) ==
    /\ pc[c] = "connecting"
    /\ \/ /\ arg[c].user \notin active
          /\ Answer(c, "forbidden")
          /\ UNCHANGED <<audit, connected>>
       \/ /\ arg[c].user \in active
          /\ connected' = connected \cup {c}
          /\ Goto(c, "reporting")
          /\ UNCHANGED audit
       \/ /\ Deny(c, "exchange_failed")
          /\ UNCHANGED connected
    /\ UNCHANGED <<clock, active, flow, pending, code, arg, accepted, restarted>>

\* KMS or the token table raises what nothing catches, the record perhaps
\* written: no event tells of it.
ConnectRaises(c) ==
    /\ pc[c] = "connecting"
    /\ arg[c].user \in active
    /\ connected' \in {connected, connected \cup {c}}
    /\ Answer(c, "failed")
    /\ UNCHANGED <<clock, active, flow, pending, code, arg, audit, accepted, restarted>>

ReportConnected(c) ==
    /\ pc[c] = "reporting"
    /\ Answer(c, "connected")
    /\ Emit(c, "connected")
    /\ UNCHANGED <<clock, active, flow, pending, code, arg, connected, accepted, restarted>>

-----------------------------------------------------------------------------
(* The environment.                                                        *)

\* The user consents at Google, which issues a code for the flow's redirect.
UserConsents(f) ==
    /\ flow[f] # None /\ code[f] = "none"
    /\ code' = [code EXCEPT ![f] = "issued"]
    /\ UNCHANGED <<clock, active, flow, pending, callbacks, audit, connected, accepted, restarted>>

\* A container restarts: its pending states and running callbacks are gone,
\* one of them perhaps between its connection and its audit event.
Restart(k) ==
    LET lost == {c \in Callbacks : Running(c) /\ arg[c].container = k} IN
    /\ pending[k] # {} \/ lost # {}
    /\ pending' = [pending EXCEPT ![k] = {}]
    /\ pc' = [c \in Callbacks |-> IF c \in lost THEN "done" ELSE pc[c]]
    /\ reply' = [c \in Callbacks |-> IF c \in lost THEN "failed" ELSE reply[c]]
    /\ restarted' = restarted \cup {k}
    /\ UNCHANGED <<clock, active, flow, code, arg, audit, connected, accepted>>

\* The membership of a user is disabled.
Deactivate(u) ==
    /\ u \in active
    /\ active' = active \ {u}
    /\ UNCHANGED <<clock, flow, pending, code, callbacks, audit, connected, accepted, restarted>>

Tick ==
    /\ clock < MaxTime
    /\ clock' = clock + 1
    /\ UNCHANGED <<active, flow, pending, code, callbacks, audit, connected, accepted, restarted>>

-----------------------------------------------------------------------------
Init ==
    /\ clock = 0
    /\ active = Users
    /\ flow = [f \in Flows |-> None]
    /\ pending = [k \in Containers |-> {}]
    /\ code = [f \in Flows |-> "none"]
    /\ pc = [c \in Callbacks |-> "new"]
    /\ arg = [c \in Callbacks |-> None]
    /\ reply = [c \in Callbacks |-> None]
    /\ audit = {}
    /\ connected = {}
    /\ accepted = {}
    /\ restarted = {}

Start(f) ==
    \E u \in Users, target \in Targets, k \in Containers : StartGoogleOAuth(f, u, target, k)
Arrive(c) ==
    \/ CallbackWithError(c)
    \/ RejectSignature(c)
    \/ \E f, g \in Flows, u \in Users, k \in Containers : VerifyState(c, f, g, u, k)
\* The steps a running callback takes by itself, Google silent included.
Continue(c) == ConsumeState(c) \/ ExchangeFails(c) \/ ConnectGoogle(c) \/ ReportConnected(c)

Next ==
    \/ \E f \in Flows : Start(f) \/ UserConsents(f)
    \/ \E c \in Callbacks : Arrive(c) \/ Continue(c) \/ ExchangeCode(c) \/ ConnectRaises(c)
    \/ \E k \in Containers : Restart(k)
    \/ \E u \in Users : Deactivate(u)
    \/ Tick

Spec == Init /\ [][Next]_vars
FairSpec == Spec /\ \A c \in Callbacks : WF_vars(Continue(c))

-----------------------------------------------------------------------------
(* Properties.                                                             *)

\* Every variable keeps its type; a payload names an allowed redirect target.
TypeOK ==
    /\ clock \in Nat
    /\ active \subseteq Users
    /\ flow \in [Flows -> Payload \cup {None}]
    /\ pending \in [Containers -> SUBSET Flows]
    /\ code \in [Flows -> {"none", "issued", "spent"}]
    /\ pc \in [Callbacks -> Steps]
    /\ arg \in [Callbacks -> Call \cup {None}]
    /\ reply \in [Callbacks -> Answers \cup {None}]
    /\ audit \subseteq Events
    /\ connected \subseteq Callbacks
    /\ accepted \subseteq Callbacks
    /\ restarted \subseteq Containers

\* A state is good for one callback: whatever containers and moments its
\* callbacks arrive at, two that pass the checks never carry the same state.
SingleUse ==
    \A c, d \in accepted : c # d => arg[c].flow # arg[d].flow

\* Whatever code comes with a state, of the same flow or of another, the account
\* is connected for the user who started the flow of the state, by a callback
\* whose state passed the checks.  Its code was Google's and is spent, and no
\* two connections, by whichever states, come of one code.
ConnectsStarter ==
    \A c \in connected :
        /\ c \in accepted
        /\ flow[arg[c].flow].user = arg[c].user
        /\ code[arg[c].code] = "spent"
        /\ \A d \in connected \ {c} : arg[c].code # arg[d].code

\* The audit trail does not contradict what happened: an event says connected
\* only of a callback that connected, a denial is of one that did not, and a
\* callback answered as connected has its event.
Audited(c, status) == [of |-> c, status |-> status] \in audit
AuditTruthful ==
    \A c \in Callbacks :
        /\ Audited(c, "connected") => c \in connected
        /\ \A status \in Denials : Audited(c, status) => c \notin connected
        /\ reply[c] = "connected" => Audited(c, "connected")

\* A callback with a genuine state is told of a replay only when another
\* callback took that state in this container, or the container does not hold
\* it: the flow was started in another one, or this one has restarted since.
ReplayExplained ==
    \A c \in Callbacks :
        reply[c] = "state_replay" =>
            LET f == arg[c].flow
                k == arg[c].container
            IN \/ flow[f].container # k
               \/ k \in restarted
               \/ \E d \in Callbacks \ {c} :
                     /\ pc[d] \notin {"new", "verified"}
                     /\ arg[d] # None /\ arg[d].flow = f /\ arg[d].container = k

\* Every denied callback leaves an audit event.
EveryDenialAudited ==
    \A c \in Callbacks :
        reply[c] \in Denials \cup {"state_invalid", "provider_error", "forbidden"} =>
            \E status \in Denials : Audited(c, status)

\* Every callback that has begun is answered, Google never answering included.
EveryCallbackAnswered == \A c \in Callbacks : Running(c) ~> pc[c] = "done"

\* The flow implements one-time states, a redemption being a callback that
\* passed the checks.
OneTime == INSTANCE OneTimeState
    WITH States <- Flows, Attempts <- Callbacks, Holders <- Users, Nobody <- None,
         now <- clock,
         open <- UNION {pending[k] : k \in Containers},
         redeemed <- {[attempt |-> c, state |-> arg[c].flow, by |-> arg[c].user] : c \in accepted},
         owner <- [f \in Flows |-> IF flow[f] = None THEN None ELSE flow[f].user],
         expiry <- [f \in Flows |-> IF flow[f] = None THEN 0 ELSE flow[f].expiresAt]
ImplementsOneTimeState == OneTime!Spec

=============================================================================
